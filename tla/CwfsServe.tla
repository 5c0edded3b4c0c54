----------------------------- MODULE CwfsServe -----------------------------
(***************************************************************************)
(* What a mounted cwfs keeps on behalf of those it serves: the time stamps *)
(* of its nodes, that stat(2) shows, and the clients that it is exported   *)
(* to, for a file server that looks files up by their handles.             *)
(*                                                                         *)
(* Extends Cwfs, whose steps these are, with a clock that is never set     *)
(* back.  Of the three times of a node only i_atime is here: i_mtime and   *)
(* i_ctime are set together with it (cwfs_vfsops.c:375) and never again.   *)
(***************************************************************************)
EXTENDS Cwfs

CONSTANTS
  Clients,   \* clients of the file server
  NoClient,  \* not a client: a lookup by handle from this machine
  MaxNow     \* bound on the clock

ASSUME ClientAssumption == NoClient \notin Clients
ASSUME ClockAssumption == MaxNow \in Nat

VARIABLES
  now,      \* nanotime()
  atime,    \* i_atime of each node
  exports,  \* cwm_export of each mount: whom it is exported to
  req,      \* the client that each process is looking up a file for
  granted,  \* clients each mount has been exported to since it was mounted
  born,     \* when each quiet mount was mounted
  shown,    \* the latest i_atime that has been shown of each inode since
  twins     \* inodes that have had two vnodes at a time since

(* Mounts that every lookup keeps busy.                                    *)
Quiet == Mounts \ Raced

timeVars == <<now, atime>>
exportVars == <<exports, req>>
history == <<born, granted, shown, twins>>
serveVars == <<vars, timeVars, exportVars, history>>

ServeInit ==
  /\ Init
  /\ now = 0
  /\ atime = [v \in Vnodes |-> 0]
  /\ exports = [m \in Mounts |-> {}]
  /\ req = [p \in Procs |-> NoClient]
  /\ granted = [m \in Mounts |-> {}]
  /\ born = [m \in Quiet |-> 0]
  /\ shown = [m \in Quiet |-> [i \in Inos |-> 0]]
  /\ twins = [m \in Quiet |-> {}]

ClockTick ==
  /\ now < MaxNow
  /\ now' = now + 1
  /\ UNCHANGED <<vars, atime, exportVars, history>>

-----------------------------------------------------------------------------
(* Mounting and exporting.                                                 *)

(* History begins anew with each mount.                                    *)
Begin(m) ==
  /\ granted' = [granted EXCEPT ![m] = {}]
  /\ born' = [q \in Quiet |-> IF q = m THEN now ELSE born[q]]
  /\ shown' = [q \in Quiet |-> IF q = m THEN [i \in Inos |-> 0] ELSE shown[q]]
  /\ twins' = [q \in Quiet |-> IF q = m THEN {} ELSE twins[q]]

(* Faulty variant: the new cwfs_mnt is not cleared, and happens to be in   *)
(* the memory of the old one.                                              *)
ServeMountfsDirty(m) ==
  /\ CwfsMountfs(m)
  /\ Begin(m)
  /\ UNCHANGED <<timeVars, exportVars>>

(* cwfs_mountfs() clears the whole of its new cwfs_mnt.                    *)
ServeMountfs(m) ==
  /\ CwfsMountfs(m)
  /\ exports' = [exports EXCEPT ![m] = {}]
  /\ Begin(m)
  /\ UNCHANGED <<timeVars, req>>

(* mount(2) with MNT_UPDATE and no device name: vfs_export() adds a client *)
(* or takes all of them away.                                              *)
ExportTo(m, clients) ==
  /\ Alive
  /\ mnt[m] = "mounted"
  /\ exports' = [exports EXCEPT ![m] = clients]
  /\ granted' = [granted EXCEPT ![m] = @ \cup clients]
  /\ UNCHANGED <<vars, timeVars, req, born, shown, twins>>

Export(m, c) == ExportTo(m, exports[m] \cup {c})
Unexport(m) == ExportTo(m, {})

-----------------------------------------------------------------------------
(* The file server asks cwfs_check_export() whether the client may use the *)
(* mount, and then for the file that the client's handle names.            *)

(* Faulty variant: whoever asks is let in.                                 *)
CheckExportAnybody(m, c) == TRUE

CwfsCheckExport(m, c) == c \in exports[m]

ServeFhtovp(p, m, i, c) ==
  /\ CwfsCheckExport(m, c)
  /\ CwfsFhtovp(p, m, i)
  /\ req' = [req EXCEPT ![p] = c]
  /\ UNCHANGED <<timeVars, exports, history>>

(* Other lookups: of the root, or by a handle without a client.            *)
ServeVgetStart(p, m) ==
  /\ CwfsRoot(p, m) \/ \E i \in Inos : CwfsFhtovp(p, m, i)
  /\ UNCHANGED <<timeVars, exportVars, history>>

ServeVget(p) ==
  /\ \/ \E v \in Vnodes : VgetNewVnode(p, v)
     \/ VgetFillStale(p)
  /\ UNCHANGED <<timeVars, exportVars, history>>

ServeVgetFails(p) ==
  /\ VgetFails(p)
  /\ req' = [req EXCEPT ![p] = NoClient]
  /\ UNCHANGED <<timeVars, exports, history>>

(* One more vnode has been made of inode i of a quiet mount.               *)
Twin(m, i) ==
  twins' = [q \in Quiet |->
    IF q = m /\ \E v \in Vnodes : vmount[v] = m /\ ino[v] = i
    THEN twins[q] \cup {i} ELSE twins[q]]

(* Faulty variant: the time of a node is what is left of the one that its  *)
(* memory held before.                                                     *)
NodeTimesLeft(v) == UNCHANGED atime

(* A new node is as old as the call that makes it.                         *)
NodeTimes(v) == atime' = [atime EXCEPT ![v] = now]

ServeVgetFill(p) ==
  /\ VgetFill(p)
  /\ NodeTimes(call[p].v)
  /\ Twin(call[p].m, call[p].i)
  /\ req' = [req EXCEPT ![p] = NoClient]
  /\ UNCHANGED <<now, exports, born, granted, shown>>

-----------------------------------------------------------------------------
(* Time stamps.                                                            *)

(* cwfs_read(), with the vnode locked, of at least a byte and from an      *)
(* offset that is not negative; any other read changes nothing.            *)
CwfsRead(v) ==
  /\ Alive
  /\ owner[v] # NoProc
  /\ atime' = [atime EXCEPT ![v] = now]
  /\ UNCHANGED <<vars, now, exportVars, history>>

Later(a, b) == IF a > b THEN a ELSE b

CwfsGetattr(v) ==
  /\ Alive
  /\ Returned(v)
  /\ ino[v] # NoNode
  /\ vmount[v] \in Quiet
  /\ shown' = [shown EXCEPT ![vmount[v]][ino[v]] = Later(@, atime[v])]
  /\ UNCHANGED <<vars, timeVars, exportVars, born, granted, twins>>

(* The steps of Cwfs that have to do with neither clients nor times.       *)
ServeOther ==
  /\ \/ \E m \in Mounts :
          \/ CwfsMount(m) \/ MountfsNullDevice(m)
          \/ \E force \in BOOLEAN : CwfsUnmount(m, force)
          \/ FlushRawVnode(m) \/ CwfsUnmountDone(m)
     \/ \E v \in Vnodes : VnodeOps(v)
  /\ UNCHANGED <<timeVars, exportVars, history>>

ServeNext ==
  \/ ClockTick
  \/ \E m \in Mounts :
       \/ ServeMountfs(m)
       \/ Unexport(m)
       \/ \E c \in Clients : Export(m, c)
  \/ \E p \in Procs :
       \/ \E m \in Mounts : ServeVgetStart(p, m)
       \/ \E m \in Mounts, i \in Inos, c \in Clients : ServeFhtovp(p, m, i, c)
       \/ ServeVget(p) \/ ServeVgetFails(p) \/ ServeVgetFill(p)
  \/ \E v \in Vnodes : CwfsRead(v) \/ CwfsGetattr(v)
  \/ ServeOther

ServeSpec == ServeInit /\ [][ServeNext]_serveVars

-----------------------------------------------------------------------------
(* Properties.                                                             *)

(* A file server's lookup that still has a mount to look in is for a       *)
(* client that the mount has been exported to since it was mounted: no     *)
(* right survives an unmount and a mount of something else in its place,   *)
(* whenever the lookup and the unmount meet.                               *)
RightsOfThisMount ==
  \A p \in Procs : req[p] # NoClient /\ call[p].cwmp =>
    req[p] \in granted[call[p].m]

(* Of a mount that every lookup keeps busy: no node is accessed before the *)
(* mount or in the future, so none that an earlier mount has left behind,  *)
(* in memory or on the mount's list, is ever served.                       *)
TimesSane ==
  \A v \in Vnodes : ino[v] # NoNode /\ vmount[v] \in Quiet =>
    born[vmount[v]] <= atime[v] /\ atime[v] <= now

(* Of such a mount: the access time of an inode never goes back, though    *)
(* its vnode may be thrown away and made again any number of times, unless *)
(* it has had two vnodes at a time.                                        *)
TimesNeverGoBack ==
  \A v \in Vnodes :
    ino[v] # NoNode /\ vmount[v] \in Quiet
    /\ ino[v] \notin twins[vmount[v]]
      => shown[vmount[v]][ino[v]] <= atime[v]
=============================================================================
