------------------------------ MODULE CwfsRoot ------------------------------
(***************************************************************************)
(* The root of a mounted cwfs as its callers see it: what cwfs_mount()     *)
(* makes of the arguments of mount(2), and what the vnode operations of    *)
(* cwfs/cwfs_vnops.c that keep no state of their own answer.               *)
(*                                                                         *)
(* The kernel is taken to mount on a device (cwfs_vfsops.c:108; without,   *)
(* no mount gets past line 194, see Cwfs).  mount_cwfs names no device, so *)
(* a mount is made by some other program that does; mount_cwfs may run     *)
(* before and after.  One mount is followed.  Each operation here runs     *)
(* without sleeping.  What it answered, and to what request, is kept in    *)
(* one variable until the next one.                                        *)
(***************************************************************************)
EXTENDS MountCwfs, FiniteSets

CONSTANTS
  Creds,    \* credentials of the callers
  Blocks,   \* block numbers asked for
  MaxRun    \* MAXBSIZE >> DEV_BSHIFT: the most blocks in one transfer

ASSUME CredAssumption == Creds \subseteq [uid : Nat, gids : SUBSET Nat]
ASSUME BlockAssumption == Blocks \subseteq Nat /\ MaxRun \in Nat \ {0}

VARIABLES
  mountInfo,  \* mnt_stat.mount_info.cwfs_args, or NoArgs: nothing is mounted
  asked,      \* history: the arguments that the mount was made with
  answer      \* the last request and what was answered

rootVars == <<mountInfo, asked, answer>>

Ok == "ok"
Perms == {"read", "write", "exec"}
Classes == {"user", "group", "other"}

(* The node as cwfs_vget_internal() leaves it, allocated with M_ZERO: no   *)
(* code ever fills in the mode, the owner, the size, or a type.            *)
Node == [mode |-> {}, uid |-> 0, gid |-> 0, size |-> 0, type |-> "VNON"]

RootInit ==
  /\ Init
  /\ mountInfo = NoArgs
  /\ asked = NoArgs
  /\ answer = [op |-> "none"]

-----------------------------------------------------------------------------
(* Mounting.                                                               *)

(* What cwfs_mount() makes of a device name: no name at all, one that      *)
(* names nothing, no block device, one without a driver, or a good one.    *)
MountError ==
  [null |-> "EFAULT", missing |-> "ENOENT", notblock |-> "ENOTBLK",
   nodriver |-> "ENXIO", device |-> Ok]

(* The first mount: the arguments are remembered, if the device is good.   *)
CwfsMount(by, a, fspec) ==
  /\ MountError[fspec] = Ok => mountInfo = NoArgs
  /\ mountInfo' = IF MountError[fspec] = Ok THEN a ELSE mountInfo
  /\ answer' = [op |-> "mount", by |-> by, error |-> MountError[fspec]]

Mounted == mountInfo # NoArgs

(* Faulty variant: the arguments of an update replace those of the mount.  *)
CwfsMountUpdateCopies(a) ==
  /\ Mounted
  /\ mountInfo' = a
  /\ answer' = [op |-> "update", error |-> Ok]
  /\ UNCHANGED asked

(* mount(2) with MNT_UPDATE, with any arguments: cwfs_mount() looks at     *)
(* nothing but the exports (99-105).                                       *)
CwfsMountUpdate(a) ==
  /\ Mounted
  /\ a \in [Kinds -> Nat]
  /\ answer' = [op |-> "update", error |-> Ok]
  /\ UNCHANGED <<mountInfo, asked>>

(* mount_cwfs's own call, with arguments that it has cleared and in which  *)
(* it sets no device name.                                                 *)
CommandMount ==
  /\ dir # NoDir
  /\ ~update
  /\ MountFails
  /\ CwfsMount("mount_cwfs", args, "null")
  /\ UNCHANGED asked

CommandUpdate ==
  /\ update
  /\ Mount
  /\ CwfsMountUpdate(args)

(* Any other program's.                                                    *)
OtherMount(a, fspec) ==
  /\ CwfsMount("other", a, fspec)
  /\ asked' = IF MountError[fspec] = Ok THEN a ELSE asked
  /\ UNCHANGED vars

OtherUpdate(a) == CwfsMountUpdate(a) /\ UNCHANGED vars

-----------------------------------------------------------------------------
(* Requests.                                                               *)

Answer(a) == Mounted /\ answer' = a /\ UNCHANGED <<vars, mountInfo, asked>>

CwfsStatfs ==
  Answer([op |-> "statfs", error |-> Ok, info |-> mountInfo])

(* vaccess(9).  The superuser lacks only the permission to execute what    *)
(* nobody may.                                                             *)
Class(cred, uid, gid) ==
  IF cred.uid = uid THEN "user" ELSE IF gid \in cred.gids THEN "group" ELSE "other"

Vaccess(type, mode, uid, gid, want, cred) ==
  IF cred.uid = 0
  THEN "exec" \in want => type = "VDIR" \/ \E c \in Classes : <<c, "exec">> \in mode
  ELSE \A w \in want : <<Class(cred, uid, gid), w>> \in mode

(* Faulty variant: the mode's bits are added to, not taken from, ALLPERMS. *)
AccessAllPerms(want, cred) ==
  Vaccess(Node.type, Node.mode \cup Classes \X Perms, Node.uid, Node.gid, want, cred)

Access(want, cred) ==
  Vaccess(Node.type, Node.mode, Node.uid, Node.gid, want, cred)

CwfsAccess(want, cred) ==
  Answer([op |-> "access", want |-> want, cred |-> cred,
          error |-> IF Access(want, cred) THEN Ok ELSE "EACCES"])

(* The attributes that are told: 0755, owned by user and group 0.          *)
Getattr ==
  [mode |-> {"user"} \X Perms \cup {"group", "other"} \X {"read", "exec"},
   uid |-> 0, gid |-> 0, size |-> 0, type |-> Node.type]

CwfsGetattr ==
  Answer([op |-> "getattr", error |-> Ok, attr |-> Getattr])

(* A change of some attributes, of the size alone, or of nothing.          *)
SetattrError(changed) ==
  CASE changed \ {"size"} # {} -> "EROFS"
    [] changed = {"size"} /\ Node.type = "VDIR" -> "EISDIR"
    [] changed = {"size"} /\ Node.type \in {"VLNK", "VREG"} -> "EROFS"
    [] changed = {"size"} /\ Node.type \in {"VCHR", "VBLK", "VSOCK", "VFIFO"} -> Ok
    [] OTHER -> "EINVAL"

CwfsSetattr(changed) ==
  Answer([op |-> "setattr", error |-> SetattrError(changed)])

(* Faulty variant: what lies before the block is counted.                  *)
RunBefore(bn) ==
  LET nblk == ToInt((bn + 1) - Node.size) IN
  IF nblk <= 0 THEN 0 ELSE IF nblk >= MaxRun THEN MaxRun - 1 ELSE nblk

(* The readahead after block bn: 64-bit arithmetic, then cut to an int.    *)
Run(bn) ==
  LET nblk == ToInt(Node.size - (bn + 1)) IN
  IF nblk <= 0 THEN 0 ELSE IF nblk >= MaxRun THEN MaxRun - 1 ELSE nblk

(* Every block of a file is block 0 of the device.                         *)
CwfsBmap(bn) ==
  Answer([op |-> "bmap", error |-> Ok, asked |-> bn, block |-> 0, run |-> Run(bn)])

CwfsPathconf(limit) ==
  Answer([op |-> "pathconf",
          error |-> IF limit \in {"LINK_MAX", "NAME_MAX", "CHOWN_RESTRICTED",
                                  "NO_TRUNC", "TIMESTAMP_RESOLUTION"}
                    THEN Ok ELSE "EINVAL"])

(* Every event that has to do with reading or writing has happened.        *)
CwfsPoll(events) ==
  Answer([op |-> "poll", error |-> Ok, ready |-> events \cap {"in", "out"}])

(* Operations that do nothing...                                           *)
Idle == [o \in {"open", "close", "seek", "fsync", "readdir", "readlink"} |-> Ok]

(* ... that the table of operations does not have, ...                     *)
Unsupported ==
  [o \in {"create", "mknod", "write", "remove", "rename", "mkdir", "rmdir", "advlock"}
     |-> "EOPNOTSUPP"]

(* ... that would change a directory, ...                                  *)
ReadOnlyDirs == [o \in {"link", "symlink"} |-> "EROFS"]

(* ... and that make no sense here.                                        *)
Senseless == [ioctl |-> "ENOTTY", mmap |-> "EINVAL"]

CwfsStub(table, op) ==
  Answer([op |-> op, error |-> table[op]])

-----------------------------------------------------------------------------
Request ==
  \/ CwfsStatfs \/ CwfsGetattr
  \/ \E cred \in Creds, want \in (SUBSET Perms) \ {{}} : CwfsAccess(want, cred)
  \/ \E changed \in SUBSET {"mode", "owner", "times", "size"} : CwfsSetattr(changed)
  \/ \E bn \in Blocks : CwfsBmap(bn)
  \/ \E limit \in {"NAME_MAX", "PATH_MAX"} : CwfsPathconf(limit)
  \/ \E events \in SUBSET {"in", "hup"} : CwfsPoll(events)
  \/ \E op \in DOMAIN Idle : CwfsStub(Idle, op)
  \/ \E op \in DOMAIN Unsupported : CwfsStub(Unsupported, op)
  \/ \E op \in DOMAIN ReadOnlyDirs : CwfsStub(ReadOnlyDirs, op)
  \/ \E op \in DOMAIN Senseless : CwfsStub(Senseless, op)

RootNext ==
  \/ BeforeMount /\ UNCHANGED rootVars
  \/ CommandMount \/ CommandUpdate
  \/ \E a \in Attrs :
       OtherUpdate(a) \/ \E fspec \in DOMAIN MountError : OtherMount(a, fspec)
  \/ Request

RootSpec == RootInit /\ [][RootNext]_<<vars, rootVars>>

-----------------------------------------------------------------------------
(* Properties.                                                             *)

(* What statfs tells of the mount, which is all that the kernel keeps of   *)
(* the arguments, is what the program that made it has passed, however     *)
(* often it is updated afterwards, by mount_cwfs or another program, with  *)
(* other arguments.                                                        *)
AskedIsTold == answer.op = "statfs" => answer.info = asked

(* Nobody is granted more than the mode and owner that stat(2) shows would *)
(* give him: access and getattr, which take the mode from two different    *)
(* places, disagree only on the safe side.                                 *)
GrantsWithinMode ==
  answer.op = "access" /\ answer.error = Ok =>
    Vaccess(Getattr.type, Getattr.mode, Getattr.uid, Getattr.gid, answer.want, answer.cred)

(* No more blocks are announced for reading ahead than the file has after  *)
(* the block asked for, as long as its number fits an int.                 *)
ReadaheadInFile ==
  answer.op = "bmap" /\ answer.asked < IntHalf =>
    answer.run = 0 \/ answer.asked + answer.run < Node.size
=============================================================================
