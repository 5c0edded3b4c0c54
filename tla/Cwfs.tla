-------------------------------- MODULE Cwfs --------------------------------
(***************************************************************************)
(* The cwfs file system, skel-kernel/cwfs: mounting and unmounting, the    *)
(* making of vnodes (cwfs_vget_internal), their lookup, locking, release   *)
(* (cwfs_inactive, cwfs_reclaim) and the references to the device vnode    *)
(* that all of these take and drop.                                        *)
(*                                                                         *)
(* Every operation runs under the kernel lock and gives it up only where   *)
(* it sleeps: in cwfs_mountfs() at malloc(), in cwfs_vget_internal() at    *)
(* getnewvnode() and malloc(), in cwfs_unmount() at VOP_CLOSE().  Each     *)
(* stretch between two such points is one action.                          *)
(***************************************************************************)
EXTENDS Integers, FiniteSets

CONSTANTS
  Mounts,      \* mount points
  NoMount,     \* the dead mount: a vnode on no file system
  Vnodes,      \* vnode structures
  NoVnode,     \* not a vnode
  Procs,       \* processes looking for a vnode
  NoProc,      \* not a process: nobody holds a vnode lock
  Inos,        \* inode numbers, 1 being the root's
  MaxUse,      \* bound on a vnode's use count
  Builds,      \* is the block at cwfs_vfsops.c:108 compiled in?
  Raced        \* mounts whose handle lookups may overlap their unmount

ASSUME SentinelAssumption ==
  NoMount \notin Mounts /\ NoVnode \notin Vnodes /\ NoProc \notin Procs
ASSUME FiniteAssumption == IsFiniteSet(Mounts) /\ IsFiniteSet(Vnodes)
ASSUME NumberAssumption ==
  1 \in Inos /\ Inos \subseteq Nat \ {0} /\ MaxUse \in Nat \ {0}
ASSUME BuildAssumption == Builds \subseteq BOOLEAN /\ Raced \subseteq Mounts

VARIABLES
  realDevice,  \* this kernel mounts on a real device, else devvp is NULL
  mnt,         \* state of each mount point
  specmp,      \* v_specmountpoint of the device vnode
  devUse,      \* references cwfs holds on the device vnode
  vmount,      \* v_mount of each vnode
  use,         \* v_usecount of each vnode
  ino,         \* i_number of the node at v_data, NoNode when v_data is NULL
  owner,       \* the process holding i_lock exclusively
  named,       \* vnodes with entries in the name cache
  call,        \* the vget each process is in
  fault        \* the mount for which a bad pointer was used, or NoMount

mountVars == <<realDevice, mnt, specmp>>
vnodeVars == <<vmount, use, ino, owner, named>>
vars == <<mountVars, devUse, vnodeVars, call, fault>>

NoNode == 0

MountStates == {"none", "naming", "mounted", "flushed"}

(* A process in cwfs_vget_internal(): what it looks for, the vnode it has  *)
(* so far, and whether the cwfs_mnt it read at entry is still allocated.   *)
Idle == [pc |-> "idle", m |-> NoMount, i |-> NoNode, v |-> NoVnode,
         busy |-> FALSE, cwmp |-> FALSE]

Calls ==
  [pc : {"idle", "alloc", "fill"}, m : Mounts \cup {NoMount},
   i : Inos \cup {NoNode}, v : Vnodes \cup {NoVnode},
   busy : BOOLEAN, cwmp : BOOLEAN]

Init ==
  /\ realDevice \in Builds
  /\ mnt = [m \in Mounts |-> "none"]
  /\ specmp = NoMount
  /\ devUse = 0
  /\ vmount = [v \in Vnodes |-> NoMount]
  /\ use = [v \in Vnodes |-> 0]
  /\ ino = [v \in Vnodes |-> NoNode]
  /\ owner = [v \in Vnodes |-> NoProc]
  /\ named = {}
  /\ call = [p \in Procs |-> Idle]
  /\ fault = NoMount

(* A kernel that has followed a NULL pointer, or one into freed memory, on *)
(* behalf of a mount, does nothing more.                                   *)
Alive == fault = NoMount

Panic(m) ==
  fault' = m /\ UNCHANGED <<mountVars, devUse, vnodeVars, call>>

-----------------------------------------------------------------------------
(* Mounting.  cwfs_mount() names the device, taking a reference to its     *)
(* vnode, and goes to sleep in cwfs_mountfs().  Nothing checks that the    *)
(* device is not mounted already.  A name that is not a usable device's is *)
(* turned away (113-129) with no reference left, and is not modelled here  *)
(* (see CwfsRoot).                                                         *)

CwfsMount(m) ==
  /\ Alive
  /\ mnt[m] = "none"
  /\ mnt' = [mnt EXCEPT ![m] = "naming"]
  /\ devUse' = IF realDevice THEN devUse + 1 ELSE devUse
  /\ UNCHANGED <<realDevice, specmp, vnodeVars, call, fault>>

(* The rest of cwfs_mountfs(); without a device, line 194 follows a NULL   *)
(* pointer.                                                                *)
CwfsMountfs(m) ==
  /\ Alive
  /\ mnt[m] = "naming"
  /\ realDevice
  /\ mnt' = [mnt EXCEPT ![m] = "mounted"]
  /\ specmp' = m
  /\ UNCHANGED <<realDevice, devUse, vnodeVars, call, fault>>

MountfsNullDevice(m) ==
  /\ Alive
  /\ mnt[m] = "naming"
  /\ ~realDevice
  /\ Panic(m)

-----------------------------------------------------------------------------
(* Getting a vnode.  cwfs_root() asks for inode 1 and is called with the   *)
(* mount point busy; cwfs_fhtovp() and cwfs_vget() take any inode number   *)
(* from the caller.  A lookup that does not keep the mount point busy may  *)
(* also start while an unmount is under way.                               *)

RootIno == 1

VgetStart(p, m, i, busy) ==
  /\ Alive
  /\ call[p].pc = "idle"
  /\ mnt[m] = "mounted" \/ (~busy /\ mnt[m] = "flushed")
  /\ call' = [call EXCEPT ![p] = [pc |-> "alloc", m |-> m, i |-> i,
                                  v |-> NoVnode, busy |-> busy, cwmp |-> TRUE]]
  /\ UNCHANGED <<mountVars, devUse, vnodeVars, fault>>

(* Faulty variant: the root is looked for without keeping the mount busy.  *)
CwfsRootNotBusy(p, m) == VgetStart(p, m, RootIno, FALSE)

CwfsRoot(p, m) == VgetStart(p, m, RootIno, TRUE)

CwfsFhtovp(p, m, i) == VgetStart(p, m, i, m \notin Raced)

(* getnewvnode() enters a fresh vnode, in use once, on the mount's list... *)
VgetNewVnode(p, v) ==
  /\ Alive
  /\ call[p].pc = "alloc"
  /\ use[v] = 0
  /\ use' = [use EXCEPT ![v] = 1]
  /\ vmount' = [vmount EXCEPT ![v] = call[p].m]
  /\ call' = [call EXCEPT ![p].pc = "fill", ![p].v = v]
  /\ UNCHANGED <<mountVars, devUse, ino, owner, named, fault>>

(* ... or fails, and so does the call.                                     *)
VgetFails(p) ==
  /\ Alive
  /\ call[p].pc = "alloc"
  /\ call' = [call EXCEPT ![p] = Idle]
  /\ UNCHANGED <<mountVars, devUse, vnodeVars, fault>>

(* Faulty variant: the node does not take its reference to the device.     *)
VgetFillNoRef(p) ==
  /\ Alive
  /\ call[p].pc = "fill"
  /\ call[p].cwmp
  /\ ino' = [ino EXCEPT ![call[p].v] = call[p].i]
  /\ call' = [call EXCEPT ![p] = Idle]
  /\ UNCHANGED <<mountVars, devUse, vmount, use, owner, named, fault>>

(* The node is attached and takes its reference to the device.  The vnode  *)
(* is returned unlocked, and was not looked for among the existing ones.   *)
VgetFill(p) ==
  /\ Alive
  /\ call[p].pc = "fill"
  /\ call[p].cwmp
  /\ ino' = [ino EXCEPT ![call[p].v] = call[p].i]
  /\ devUse' = devUse + 1
  /\ call' = [call EXCEPT ![p] = Idle]
  /\ UNCHANGED <<mountVars, vmount, use, owner, named, fault>>

VgetFillStale(p) ==
  /\ Alive
  /\ call[p].pc = "fill"
  /\ ~call[p].cwmp
  /\ Panic(call[p].m)

-----------------------------------------------------------------------------
(* Using a vnode.                                                          *)

Returned(v) == use[v] > 0 /\ \A p \in Procs : call[p].v # v

Vref(v) ==
  /\ Alive
  /\ Returned(v)
  /\ use[v] < MaxUse
  /\ use' = [use EXCEPT ![v] = @ + 1]
  /\ UNCHANGED <<mountVars, devUse, vmount, ino, owner, named, call, fault>>

CwfsLock(p, v) ==
  /\ Alive
  /\ Returned(v)
  /\ ino[v] # NoNode
  /\ owner[v] = NoProc
  /\ owner' = [owner EXCEPT ![v] = p]
  /\ UNCHANGED <<mountVars, devUse, vmount, use, ino, named, call, fault>>

CwfsUnlock(p, v) ==
  /\ Alive
  /\ owner[v] = p
  /\ owner' = [owner EXCEPT ![v] = NoProc]
  /\ UNCHANGED <<mountVars, devUse, vmount, use, ino, named, call, fault>>

(* cwfs_lookup(), with the directory locked: any name that the cache does  *)
(* not hold yet is entered into it, if the caller may search there.        *)
(* Who may is left open here.  As nodes are made in this version, with no  *)
(* mode, nobody may (see CwfsRoot); a node that its author has filled in   *)
(* can be searched, and is to be forgotten all the same.                   *)
CwfsLookup(v) ==
  /\ Alive
  /\ owner[v] # NoProc
  /\ named' = named \cup {v}
  /\ UNCHANGED <<mountVars, devUse, vmount, use, ino, owner, call, fault>>

(* vrele() of a reference that is not the last, or of a vnode that a       *)
(* forced unmount has already taken from cwfs.                             *)
Vrele(v) ==
  /\ Alive
  /\ Returned(v)
  /\ use[v] > 1 \/ ino[v] = NoNode
  /\ use' = [use EXCEPT ![v] = @ - 1]
  /\ UNCHANGED <<mountVars, devUse, vmount, ino, owner, named, call, fault>>

(* Faulty variant: the name cache is not purged.                           *)
ReclaimNoPurge(V) ==
  /\ devUse' = devUse - Cardinality({v \in V : ino[v] # NoNode})
  /\ ino' = [v \in Vnodes |-> IF v \in V THEN NoNode ELSE ino[v]]
  /\ vmount' = [v \in Vnodes |-> IF v \in V THEN NoMount ELSE vmount[v]]
  /\ UNCHANGED named

(* cwfs_reclaim() on a set of vnodes.                                      *)
Reclaim(V) ==
  /\ named' = named \ V
  /\ devUse' = devUse - Cardinality({v \in V : ino[v] # NoNode})
  /\ ino' = [v \in Vnodes |-> IF v \in V THEN NoNode ELSE ino[v]]
  /\ vmount' = [v \in Vnodes |-> IF v \in V THEN NoMount ELSE vmount[v]]

(* Faulty variant: a vnode is not recycled when its last reference goes,   *)
(* but kept on the free list.                                              *)
CwfsInactiveKeeps(v) ==
  /\ Alive
  /\ Returned(v)
  /\ owner[v] = NoProc
  /\ use[v] = 1 /\ ino[v] # NoNode
  /\ use' = [use EXCEPT ![v] = 0]
  /\ UNCHANGED <<mountVars, devUse, vmount, ino, owner, named, call, fault>>

(* Faulty variant: cwfs_inactive() itself drops a reference, which the one *)
(* who calls it has dropped already.                                       *)
CwfsInactiveTwice(v) ==
  /\ Alive
  /\ Returned(v)
  /\ owner[v] = NoProc
  /\ use[v] = 1 /\ ino[v] # NoNode
  /\ use' = [use EXCEPT ![v] = @ - 2]
  /\ Reclaim({v})
  /\ UNCHANGED <<mountVars, owner, call, fault>>

(* Faulty variant: a vnode is recycled though others still use it.         *)
CwfsInactiveShared(v) ==
  /\ Alive
  /\ Returned(v)
  /\ owner[v] = NoProc
  /\ ino[v] # NoNode
  /\ use' = [use EXCEPT ![v] = @ - 1]
  /\ Reclaim({v})
  /\ UNCHANGED <<mountVars, owner, call, fault>>

(* vrele() of the last reference: cwfs_inactive() always recycles, so the  *)
(* vnode is reclaimed at once.                                             *)
CwfsInactive(v) ==
  /\ Alive
  /\ Returned(v)
  /\ owner[v] = NoProc
  /\ use[v] = 1 /\ ino[v] # NoNode
  /\ use' = [use EXCEPT ![v] = 0]
  /\ Reclaim({v})
  /\ UNCHANGED <<mountVars, owner, call, fault>>

-----------------------------------------------------------------------------
(* Unmounting.  vflush() refuses while a vnode of the mount is in use,     *)
(* unless forced; then every one of them is reclaimed once it is unlocked. *)

On(m) == {v \in Vnodes : vmount[v] = m}
Busy(m) == \E p \in Procs : call[p].m = m /\ call[p].busy

(* Faulty variant: the device is left marked as mounted.                   *)
CwfsUnmountKeepsMark(m, force) ==
  /\ Alive
  /\ mnt[m] = "mounted"
  /\ ~Busy(m)
  /\ \A v \in On(m) : /\ owner[v] = NoProc
                      /\ force \/ use[v] = 0
                      /\ ino[v] # NoNode
  /\ Reclaim(On(m))
  /\ mnt' = [mnt EXCEPT ![m] = "flushed"]
  /\ UNCHANGED <<realDevice, specmp, use, owner, call, fault>>

(* Faulty variant: vflush()'s error is ignored.                            *)
CwfsUnmountIgnoresBusy(m, force) ==
  /\ Alive
  /\ mnt[m] = "mounted"
  /\ ~Busy(m)
  /\ mnt' = [mnt EXCEPT ![m] = "flushed"]
  /\ specmp' = NoMount
  /\ UNCHANGED <<realDevice, devUse, vnodeVars, call, fault>>

CwfsUnmount(m, force) ==
  /\ Alive
  /\ mnt[m] = "mounted"
  /\ ~Busy(m)
  /\ \A v \in On(m) : /\ owner[v] = NoProc
                      /\ force \/ use[v] = 0
                      /\ ino[v] # NoNode
  /\ Reclaim(On(m))
  /\ mnt' = [mnt EXCEPT ![m] = "flushed"]
  /\ specmp' = NoMount
  /\ UNCHANGED <<realDevice, use, owner, call, fault>>

(* A forced vflush() reclaims a vnode whose node is not attached yet.      *)
FlushRawVnode(m) ==
  /\ Alive
  /\ mnt[m] = "mounted"
  /\ ~Busy(m)
  /\ \A v \in On(m) : owner[v] = NoProc
  /\ \E v \in On(m) : ino[v] = NoNode
  /\ Panic(m)

(* After VOP_CLOSE(): the device is released and the cwfs_mnt freed.       *)
CwfsUnmountDone(m) ==
  /\ Alive
  /\ mnt[m] = "flushed"
  /\ mnt' = [mnt EXCEPT ![m] = "none"]
  /\ devUse' = devUse - 1
  /\ call' = [p \in Procs |-> IF call[p].m = m
                              THEN [call[p] EXCEPT !.cwmp = FALSE]
                              ELSE call[p]]
  /\ UNCHANGED <<realDevice, specmp, vnodeVars, fault>>

-----------------------------------------------------------------------------
MountOps(m) ==
  \/ CwfsMount(m) \/ CwfsMountfs(m) \/ MountfsNullDevice(m)
  \/ \E force \in BOOLEAN : CwfsUnmount(m, force)
  \/ FlushRawVnode(m) \/ CwfsUnmountDone(m)

VgetOps(p) ==
  \/ \E m \in Mounts : CwfsRoot(p, m) \/ \E i \in Inos : CwfsFhtovp(p, m, i)
  \/ \E v \in Vnodes : VgetNewVnode(p, v)
  \/ VgetFails(p) \/ VgetFill(p) \/ VgetFillStale(p)

VnodeOps(v) ==
  \/ Vref(v) \/ Vrele(v) \/ CwfsInactive(v) \/ CwfsLookup(v)
  \/ \E p \in Procs : CwfsLock(p, v) \/ CwfsUnlock(p, v)

Next ==
  \/ \E m \in Mounts : MountOps(m)
  \/ \E p \in Procs : VgetOps(p)
  \/ \E v \in Vnodes : VnodeOps(v)

Spec == Init /\ [][Next]_vars

-----------------------------------------------------------------------------
(* Properties.                                                             *)

(* Every variable keeps its type; a process in a call of vget knows what   *)
(* it is looking for.                                                      *)
TypeOK ==
  /\ realDevice \in BOOLEAN
  /\ mnt \in [Mounts -> MountStates]
  /\ specmp \in Mounts \cup {NoMount}
  /\ devUse \in Int
  /\ vmount \in [Vnodes -> Mounts \cup {NoMount}]
  /\ use \in [Vnodes -> 0..MaxUse]
  /\ ino \in [Vnodes -> Inos \cup {NoNode}]
  /\ owner \in [Vnodes -> Procs \cup {NoProc}]
  /\ named \subseteq Vnodes
  /\ call \in [Procs -> Calls]
  /\ fault \in Mounts \cup {NoMount}

Nodes == {v \in Vnodes : ino[v] # NoNode}
Naming == {m \in Mounts : mnt[m] # "none"}

(* The device vnode is referenced exactly once by each mount, from         *)
(* cwfs_mount()'s lookup of it to the vput() of cwfs_unmount(), and once   *)
(* by each node, from cwfs_vget_internal() to cwfs_reclaim(): no reference *)
(* is lost and none is dropped twice, whichever way a mount, a lookup or a *)
(* vnode ends.                                                             *)
DevRefsAccounted ==
  devUse = IF realDevice THEN Cardinality(Naming) + Cardinality(Nodes) ELSE 0

(* A vnode that cwfs no longer owns has no entry in the name cache, and is *)
(* locked by nobody (cache_purge in cwfs_reclaim; vflush waits for locks). *)
DeadIsForgotten ==
  \A v \in Vnodes : v \in named \/ owner[v] # NoProc => ino[v] # NoNode

(* "If we are done with the inode, reclaim it so that it can be reused     *)
(* immediately" (cwfs_vnops.c:615): a node never outlives its last user.   *)
NoUnusedNodes == \A v \in Vnodes : use[v] = 0 => ino[v] = NoNode

(* The device's v_specmountpoint never names a mount point that is gone,   *)
(* even when the device is mounted more than once.                         *)
MarkIsLive == specmp # NoMount => mnt[specmp] = "mounted"

(* When every vget keeps its mount point busy: an unmounted file system    *)
(* leaves no vnode behind, ...                                             *)
UnmountedIsEmpty ==
  \A m \in Mounts \ Raced : On(m) # {} => mnt[m] = "mounted"

(* ... and with a real device nothing ever follows a NULL pointer for it,  *)
(* or reads its cwfs_mnt after that has been freed.                        *)
NeverFaults == realDevice => fault \in Raced \cup {NoMount}

(* The vnodes keep the promise of VnodeLife.  A vnode is being made while  *)
(* a vget fills it in, live while it has a node, and dead when it is still *)
(* used but cwfs has let go of it.                                         *)
Filling(v) == \E p \in Procs : call[p].pc = "fill" /\ call[p].v = v

Stage ==
  [v \in Vnodes |-> CASE use[v] = 0 -> "free"
                     [] use[v] > 0 /\ Filling(v) -> "making"
                     [] use[v] > 0 /\ ~Filling(v) /\ ino[v] # NoNode -> "live"
                     [] OTHER -> "dead"]

Life == INSTANCE VnodeLife WITH stage <- Stage, users <- use

LifeSpec == Life!Spec

(* "The mount_cwfs command attaches an instance of the [...] file system   *)
(* to the global file system namespace" (mount_cwfs.8:33-35): mounting     *)
(* never brings the kernel down.                                           *)
MountNeverPanics == Alive
==============================================================================
