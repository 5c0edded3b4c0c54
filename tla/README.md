# Formal models of the course-work skeleton

TLA+ models of the OpenBSD course-work skeleton of this repository, the TLC
runs that check them and the TLAPS proofs about them. The code is an empty but
complete kernel extension that students fill in: a pseudo network interface
(`cwnet`), a character device (`cw`) and an in-memory file system (`cwfs`)
with its mount command, and the make files that fetch the system's sources,
add the skeleton and build it.

References of the form `file:line` are to `kmmo-X-21/skel-kernel` and
`kmmo-X-21/skel-base` under the repository's root; the skeletons of
`kmmo-X-20` are byte for byte the same. The repository has no tests; the
documents are `README.md`, `kernelfs.md` and the manual page `mount_cwfs.8`.
What the skeleton calls in the kernel (timeouts, task queues, interface
queues, the vnode layer, kqueue, descriptor tables, sockets) is not in the
repository: it is modelled from how the skeleton uses it and marked external
in `PROJECT.json`.

## 1. Inventory

| Component | Source | State it keeps | Operations | Modelled in |
|---|---|---|---|---|
| cwnet interface | `net/if_cwnet.c` | a softc per clone: flags, link state, transmit queue, timeout, task | create, destroy, ioctl, start routine, timeout callback, task | `Cwnet`, `CwnetRate` |
| cw message buffer | `dev/cw.c` 261-314 | one static buffer and its length, shared by all opens | read, write | `CwEcho` |
| cw open and close | `dev/cw.c` 60-259 | a static descriptor number; descriptors, files and a socket of the opening process | open, close | `CwOpen` |
| cwfs mounts and vnodes | `cwfs/cwfs_vfsops.c`, `cwfs_vnops.c`, `cwfs_var.h` | mounts, vnodes and their nodes with their time stamps, export lists, references to the device vnode, name cache entries, inode locks | mount, update, unmount, root, fhtovp, check_export, vget, lock, unlock, lookup, read, getattr, inactive, reclaim | `Cwfs`, `CwfsServe` |
| cwfs event filters | `cwfs/cwfs_vnops.c` 766-881 | the list of knotes of a vnode, the knotes' flags | kqfilter, detach, three filters | `CwfsKnote` |
| cwfs operations without state | `cwfs/cwfs_vnops.c`, `cwfs_vfsops.c` 278-296 | none: they answer from the node, constants and the mount's arguments | access, getattr, setattr, bmap, pathconf, poll, statfs and stubs that only return an error | `CwfsRoot` |
| mount_cwfs | `sbin/mount_cwfs/mount_cwfs.c`, `mount_cwfs.8` | the command line and the arguments of one mount | option parsing, conversions, inheritance, mount(2) | `MountCwfs` |
| build | `Makefile.inc`, `OpenBSD/OpenBSD.mk` | source and object trees, cookies | fetch, extract, skel, patch, configure, build, unpatch, install, distclean | not modelled |
| patches | `OpenBSD/*/cw-*.patch` | - | register the three in the kernel's tables | not modelled |

How they interact. The three kernel parts do not call each other: each is
entered by the kernel through a table of functions, and what its entries share
is its own static or allocated state. `mount_cwfs` reaches `cwfs` only by
mount(2); the arguments it passes are copied in by `cwfs_mount()`, told by
`cwfs_statfs()` and used by nothing else (`cwfs_vnops.c:137-141`). It names no
device, so none of its mounts succeeds (section 6); `CwfsRoot` has another
program mount, and follows both programs' arguments into the kernel and to the
answers of the root. `Cwfs` and `CwfsKnote` meet at one point, the reclaiming of a vnode: in
`Cwfs` it returns references and purges names, in `CwfsKnote` it takes away the
node that filters look at. A file server enters `cwfs` by `cwfs_check_export()`
and `cwfs_fhtovp()`, one after the other; `CwfsServe` is `Cwfs` with them.

Concurrency. Everything but cwnet's start routine and its timeout runs under
the kernel lock, which is given up exactly where the code may sleep. The models
make one action of each stretch between two such points, so all that other
processes may do while one sleeps is explored. cwnet's start routine runs
without the lock (`IFXF_MPSAFE`), so its loop is an action per packet. The
timeout's callback is a soft interrupt, which the kernel lock does not keep out
and `pgen_destroy()` does not mask: it may come between any two calls that the
code makes, those of `pgen_destroy()` (178, 179) included.

What is hard in each part, and what makes it correct:

* **cwnet**: three actors (timeout, task, start routine) restart one another
  and a fourth destroys what they use. Correct means: no packet is left on the
  queue; the generator never stops and never speeds up; it never starts before
  configuration; after destruction nothing refers to the softc.
* **cw buffer**: `uiomove()` sleeps inside a read-modify-write of shared data.
  Correct means: no copy leaves the buffer, the message stays terminated, and
  it has no holes.
* **cw open**: four ways out, each undoing part of what has been done, with
  the table unlocked. Correct means: every reference is accounted for and no
  open clears another's descriptor.
* **cwfs**: a vnode is on its mount's list before it has a node; reclaiming
  happens on last use or by force. Correct means: device references balance,
  dead vnodes are forgotten, an unmounted file system has no vnodes, and each
  vnode is made, shared, killed and freed in that order, once.
* **cwfs and a file server**: the right to a mount is checked, then the lookup
  sleeps twice; nodes come and go while their times are being shown. Correct
  means: no right outlives the mount it was given for, and no time goes back.
* **requests of the root**: what was asked for, what statfs and getattr tell and
  what access grants come from four places. Correct means: statfs tells what
  was passed, whatever updates follow; access grants no more than getattr shows;
  block numbers keep to the file. (That getattr shows what was asked for would
  be correct too, and is not so; see section 6.)
* **event filters**: the node is gone before waiters are told. Correct means:
  they are told, once, and nothing looks for the node meanwhile.
* **mount_cwfs**: conversions of numbers, last option wins, the directory
  changes between stat and mount. Correct means: what is passed to mount(2) is
  what the last option for each attribute stands for and one state of the mount
  point for the rest, and nothing is passed when something was not understood.

`PROJECT.json` lists each hazard at the line where it bites, with the
properties that cover it or the reason why none does.

## 2. Plan

Modules, in the order in which they matter.

| Step | Module | What it is | State |
|---|---|---|---|
| 1 | `Cwnet` | the interfaces and all their actors | modelled, checked, proved |
| 2 | `CwnetRate` over `PacketSource` | clock and counters; refinement of "at most one packet a second" | modelled, checked, proved |
| 3 | `Cwfs` over `VnodeLife` | mounts, vnodes, device references; refinement of "made, shared, killed, freed" | modelled, checked, proved |
| 4 | `CwEcho` over `Echo` | the message buffer; refinement of "starts afresh or grows" | modelled, checked, proved |
| 5 | `CwOpen` | opening the device | modelled, checked, proved |
| 6 | `CwfsKnote` over `WatchLife` | event filters and revocation; refinement of "watched, told at the end, dropped" | modelled, checked, proved |
| 7 | `CwfsServe`, extends `Cwfs` | exports, a file server's lookups, time stamps | modelled, checked, proved |
| 8 | `MountCwfs` | the command | modelled, checked, proved |
| 9 | `CwfsRoot`, extends `MountCwfs` | what the kernel makes of mount(2), and the requests of a mounted root | modelled, checked, proved |
| 10 | reclaiming seen by `Cwfs` and `CwfsKnote` at once: that a vnode's end is told to those who wait on it, whoever causes it | composes both | left |
| 11 | that a thread asleep in one of cwfs's allocations ends its lookup, under the fairness of the allocator | liveness of `Cwfs` | left |

Each component has its module `X`, its small instances in `MCX`, one `.cfg`
per run, and its theorems in `XProofs`; `MountCwfs` is run and proved about as
part of `CwfsRoot`. No module declares a RECURSIVE
operator. Definitions marked "Faulty variant" are plausible bugs of the code,
used to see that each property would notice them; no specification uses them.

## 3. The models

**Cwnet** (`net/if_cwnet.c`). `phase` follows a softc from `malloc()` to
`free()`; `left` is the timeout, `taskq` and `current` the task on the system
queue and the one its single thread is in, `qlen` the transmit queue,
`startReq` and `draining` the calls of the start routine that the stack owes
and that are running. `CloneCreate`/`CloneAttach` are `cwnet_clone_create()`
around `if_attach()`, which may sleep; `PgenTaskDel`, `PgenTimeoutDel`,
`CloneDetach`, `CloneFree` are `cwnet_clone_destroy()`; `SetAddr` and
`SetFlags` are `cwnetioctl()`; `Cwnetqstart*` the start routine;
`PgenGenPacks`, `PgenGenPack`, `PgenInput` the generator, split where
`MCLGETL(M_WAITOK)` may sleep. `Late` and `Sleepy` name the interfaces in a
raw environment: those whose output may overlap their destruction, and those
whose allocations may really sleep. `missed` is history: the interfaces whose
timeout has fired between `task_del()` and `timeout_del()`, which nothing
prevents on any interface. All others are "quiet". Both kinds live in one run,
so that what is claimed of quiet ones holds beside the others.

**CwnetRate** adds a clock and counters that only record; **PacketSource**
says what the stack may expect of a generator, at most one packet per second
of time.

**Cwfs** (`cwfs/`). A mount goes "none", "naming" (device found,
`cwfs_mountfs()` asleep), "mounted", "flushed" (asleep in `VOP_CLOSE`). A vget
is split at `getnewvnode()` and at its `malloc()`; `cwmp` records whether the
`cwfs_mnt` read at entry is still allocated. `devUse`, `specmp` are the device
vnode's references and mark. `CwfsMount` stands for the way of
`cwfs_mount()` up to its sleep; its error returns (113-129) come before any
state is kept and give back the reference they took. `realDevice` chooses
between the code as it is built (device block `#if`-ed out at 108, NULL device) and with the block.
`Raced` are mounts whose lookups by file handle do not keep them busy; on
those a lookup or a forced unmount may fault (`VgetFillStale`,
`FlushRawVnode`), on the others nothing may. **VnodeLife** is
the promise: a vnode is made by one process, shared, perhaps killed while its
users survive, and free when the last of them leaves; `Life` in `Cwfs` maps
the state of each vnode to a stage of it. `CwfsLookup` leaves open who may
search a directory: in this version nobody may (see `CwfsRoot`), but a node
whose author has given it a mode must be forgotten all the same.

**CwfsServe** extends `Cwfs`. Its steps are those of `Cwfs` (`ServesAsCwfs`)
with a clock, the export list of each mount, the client a lookup is for, and
the access time of each node. `ServeFhtovp` is `cwfs_check_export()` followed
by the start of `cwfs_fhtovp()`, which the file server calls one after the
other without sleeping; the lookup then sleeps twice. `Export` and `Unexport`
are the update mount (`cwfs_vfsops.c:99-105`). `granted`, `born`, `shown` and
`twins` are history that no step looks at: to whom a mount has been exported
since it was mounted, when that was, the latest time shown of an inode, and
which inodes have had two vnodes at a time. The other two times of a node are
set with the access time and never again.

**CwfsKnote** (`cwfs_vnops.c` 766-881). A knote is named by its file and
filter; its record holds the hook, `EV_EOF`, `EV_ONESHOT`, `NOTE_REVOKE` asked
and seen, and whether it is queued. `CwfsKqfilter` is registration; `Modify`,
`Delete`, `Deliver`, `DeliverLast`, `Close`, `Revoke` are what kqueue and the
vnode layer do, calling `FiltCwfsdetach`, `Answers` (the filters with no hint)
and `Revoked` (the filters with `NOTE_REVOKE`). The size of a file and the
offset of a reader are abstracted to "an event or none". **WatchLife** is the
promise to those who wait: when a vnode ends, all of its watches and no others
are told, a watch that is told stays so until it is dropped, and a vnode comes
back only once nobody watches it. A knote is told by `EV_EOF`, and a reader or
writer by a queued last event as well.

**CwEcho** (`dev/cw.c` 261-314). `CwRead`/`CwWrite` are the code before
`uiomove()`; `CopyIn`/`CopyOut` move one byte, the last one running also the
code after `uiomove()`; `CopyInFails` ends a write early, which the code
treats as a normal end at the offset reached. **Echo** is the promise: the
text starts afresh or grows at its end.

**CwOpen** (`dev/cw.c` 60-259). `Falloc`, `SocreateFails`, `Socreate`,
`ConnectFails`, `Soconnect`, `OpenReturns` are the stretches of `cwopen()`
between its sleeps, and `Mysockargs` the allocation of the address, whose
copying is commented out (`cw.c:85`) so that nothing but its length is known.
`lost` counts references that nobody can drop any more, `leaked` addresses
that nobody points at any more; `early` records that a descriptor was closed
while being connected.

**MountCwfs** (`mount_cwfs.c`). `argv` is a sequence of options, `next` is
`optind`, `given` what options have set, `args` what goes to mount(2).
`update` is the one flag of `-o` that matters, `dir` the mount point and `held`
all that it has been meanwhile. `Strtol`, `ToInt`, `ANum`, `AId` are the
conversions; `IntHalf` and `LongHalf` are 2^31 and 2^63, smaller in the runs and any such numbers in the proofs.
`BeforeMount` is all of it but the mount(2) call.

**CwfsRoot** extends `MountCwfs` with what the kernel makes of mount(2) and one
action per request. The kernel is taken to have the device block; as built, the
mount faults (`Cwfs_builtin`). `MountError` is what `cwfs_mount()` answers to a
device name (113-129). `mount_cwfs` clears its arguments and sets no name, so
its own mounts (`CommandMount`) end in EFAULT; what is mounted, another program
has mounted (`OtherMount`). Updates, `mount_cwfs`'s too, look at nothing but
the exports and succeed (`CommandUpdate`, `OtherUpdate`). `mountInfo` is what
the kernel keeps of the arguments, `asked` what the program that mounted had
passed, `answer` the last request and what came of it. The requests are
`CwfsStatfs`, `CwfsAccess`, `CwfsGetattr`, `CwfsSetattr`, `CwfsBmap`,
`CwfsPathconf`, `CwfsPoll` and `CwfsStub` for those that return a constant;
no property depends on the last three and on setattr, which are there because
they are in the table of operations. `Node` is what `cwfs_vget_internal()`
leaves in a node: zeros, and type VNON. `Vaccess` is vaccess(9), `Run` the
readahead of `cwfs_bmap()`, 64-bit arithmetic cut to an int. Lookup, which has
state, is in `Cwfs`.

## 4. The runs

| Run | Instance | Distinct states | Shows |
|---|---|---|---|
| `Cwnet_core` | 2 softcs, one raw and one quiet, `Hz` 2, queue 1, clock to 4 | 1112796 | types; the queue is always drained; silence until configured; teardown of a quiet interface leaves nothing and never faults, late output, sleeping tasks and a timeout within `pgen_destroy()` being set aside; every packet paid for; the generator never dies; refinement of `PacketSource` |
| `Cwnet_live` | 2 softcs with sleeping allocations, `Hz` 1 | 64796 | a pending timeout leads to a packet, under fairness |
| `Cwnet_destroy` | 1 softc, output during destroy | violation | the timeout survives `free()` |
| `Cwfs_core` | 2 mounts (one raced), 2 vnodes, 2 processes, use count 2, both builds | 37888 | device references balance, dead vnodes forgotten, no node without user, mark is live; unmounted means empty and no faults, for mounts that lookups keep busy; refinement of `VnodeLife` |
| `CwfsServe_handles` | 2 mounts (one raced), 2 vnodes, 1 process, 1 client, use count 1, clock to 1, both builds | 773098 | no lookup has a right of an earlier mount; times are neither older than the mount nor in the future, and do not go back unless an inode has had two vnodes |
| `Cwfs_builtin` | 1 of each, as built | violation | the first mount follows NULL |
| `CwfsKnote_revoke` | 2 vnodes, 2 files, 3 filters | 107044 | lists match hooks and files; readers and writers of a lost file are told; waiting never faults; refinement of `WatchLife` |
| `CwfsKnote_modify` | the same | violation | re-registering a knote of a lost file follows NULL |
| `CwEcho_shared` | 2 writers, who also read, 2 bytes, buffer 3, requests to 4 | 68054 | copies stay in the buffer; the message is terminated; no gaps, and refinement of `Echo`, until writes mix |
| `CwEcho_gaps` | 2 writers, 1 byte | violation | mixed writes leave a gap |
| `CwOpen_shared` | 3 threads, 3 files, 2 descriptors | 2215 | reference counts and addresses account for everything; no open clears another's descriptor unless one is closed early |
| `CwfsRoot_mount` | up to 2 options of 5 letters with 6 texts, int of 3 bits, long of 5, 3 credentials, 6 blocks | 212412 | what is passed to mount(2) is what the options stand for, numbers by their low bits, and one state of the mount point; nothing is passed after an error; statfs tells what the mount was made with; access grants no more than getattr shows; below 2^31 readahead stays in the file |

Why the bounds are enough. Two softcs because they share nothing but the one
system task thread and the lock, which one softc can hold up for another; a
queue of one packet is full and empty in turn, and the drain loop still sees
arrivals during its run; `Hz` 2 has a tick at which a timeout is pending and
partly run down, so restarting it differs from starting it, and four ticks are
two full periods. Two mounts of one device, because the mark on the device is
what they contend for; two vnodes so that one mount can lose one while the
other keeps its own, and a vnode structure can be used again. A buffer of
three bytes has a beginning, an inside and an end; requests of four exceed it.
Three threads on two descriptors make one of them find the table full while
the others race. In `CwfsServe_handles` one process looking up is enough,
since unmounting, exporting, reading and sharing go on beside it whoever does
them; two ticks of the clock tell a node made before a moment from one made
after it; two vnodes let one inode have both. In `CwfsRoot_mount` two options
are the least in which a later one replaces an earlier or errs after it; the
widths are small enough that one text is beyond an int, another beyond a long;
the blocks are the first, the ends of the range of an int and beyond; the
callers are the superuser, a member of the root's group and a stranger.
An action constraint (`RequestsBesideEmptyLine`) lets requests, and mounts of
other programs that fail, happen only beside an empty command line: they neither
read nor change what the command keeps, so the states left out differ from
those kept only in pairing the same answer with another command line.

Other bounds: `QMax` is `IFQ_MAXLEN`, on which `Output` is blocked; `MaxUse`
caps use counts in `Vref`; `MaxNow` the clock in `ClockTick`; `MaxResid` the
size of a request; `MaxOptions` the length of a command line. `MaxRun` is no
bound of the model but the code's (`MAXBSIZE` in blocks). None is a bound
on how often something may be repeated, except the clock and that a softc is
used once.

Deadlock is checked for the device (`CwEcho_*`, `CwOpen_shared`). It is not
where the system may rightly stop: a kernel that has faulted (`Cwnet_*`,
`Cwfs_*`, `CwfsServe_*`, `CwfsKnote_*`), all softcs used up, a command that has
exited.

Symmetry is declared where values are interchangeable and what is checked is
about states or single steps, and itself symmetric: vnodes and processes of
`Cwfs_core` and `CwfsServe_handles` (not their mounts, one of which is raced),
files and vnodes of `CwfsKnote_*`, threads, files and descriptors of
`CwOpen_shared`.

Fairness, in `Cwnet_live` only. Weak fairness of the clock, of softclock, of
the start routine's calls and steps, of a sleeping allocation and of
`timeout_del()` after `task_del()`: each goes on by itself once possible, and a
soft interrupt waits for nobody. Strong fairness of the system task thread: it
needs the kernel lock, which others take again and again, but it is handed out
in order of arrival, and the task queue is first-in first-out. Nobody is obliged to configure, to transmit
or to destroy. `GeneratorProgress` excuses a timeout that the start routine
pushes ahead: an interface with constant output really may never generate
(each start of the routine is a fresh second), and the property says so.

## 5. What is proved

Each theorem holds for every value of the constants that the named
assumptions of its module allow, any number of interfaces, files, vnodes,
threads and so on.

* `CwnetProofs`. `TypeCorrect` is inductive alone, and so is
  `NoStrandedPackets` (`PacketsAreDrained`). `SilentUntilConfigured`
  (`ConfiguredFirst`) needs `ConfiguredInv`: not only activity but the
  `running` flag and an owed start call imply configuration, else output could
  start the generator. `GeneratorNeverDies` (`GeneratorGoesOn`) is proved step
  by step from the type invariant. `TeardownReleases` and `NeverFaults`
  (`TeardownSafe`, `FaultFree`) follow from `QuietInv`: from its task_del on, a
  quiet interface is idle and off the task queue and thread, and from its
  timeout_del on its timeout is off. In between the timeout may fire on any
  interface; `missed` remembers on which, and takes it out of the quiet ones. `OnlySleepersOutlive` (inductive with the
  types) says what remains of that for interfaces that are not quiet.
  `OnlyOutputPutsOff` and `ChainApproaches` are the safety half of
  `GeneratorProgress`. `Distance` counts how far the next packet is off: a
  running task, a queued one, a timeout by its remaining ticks, an idle
  generator. On an interface that stays attached no step increases it, but for
  an output's start and a delivery, which put it to at most a second; ticks,
  the firing of the timeout and the taking up of the task decrease it.
* `CwnetRateProofs`. `PaidFor` (`PacketsArePaidFor`) is inductive with the
  types: a packet, queued or under way, is paid by a firing, a firing by a
  second. `Implements`: every step of the interfaces is a step or a stutter of
  `PacketSource`; a delivery has its second by `PaidFor`. `NeverFaster` draws
  the bound in ticks, with the packet that is being made counted as made.
  `RateIsCwnet`: every behaviour of `CwnetRate` is one of `Cwnet`, so all of
  the theorems above hold of it.
* `CwfsProofs`. `TypeCorrect`. `FillIsPrivate` (the vnode being filled in is
  nobody else's, stated there for the proofs only), `NoUnusedNodes` and
  `DeadIsForgotten` are inductive only together (`VnodeInv`): that a node
  appears on a vnode in use needs the vnode being filled to be nobody else's.
  `DevRefsAccounted` (`DeviceRefs`) rests on `ReclaimCounts`, what reclaiming
  a set of vnodes does to the count, and on `NoDeviceInv`: without a device no
  mount gets far enough to make a node.
  `MarkIsLive` is inductive with the types. `UnmountedIsEmpty` and
  `NeverFaults` need `KeptBusy`: a mount that every lookup keeps busy is mounted
  while a lookup or a vnode of it is about, and a vnode of it without a node is
  being filled in on its behalf. `Implements` maps every step to a step or stutter of
  `VnodeLife`, each by what it does to the stage of the vnodes it touches
  (`StageFunction`, `StagesStay`); that nobody shares or leaves a vnode in the
  making is `ReturnedIsMade`. `IdentityIsKept`, an action theorem from
  `VnodeInv`, says what a lock on a vnode is worth: one step leaves its inode
  number, mount point and users as they are, or reclaims it as a whole while
  nobody has it locked. `NodesAreListed` needs besides that a vnode being
  filled in is on the mount point that its lookup is on, a forced unmount or
  not; neither follows from the other.
* `CwfsServeProofs`. `ServesAsCwfs`: `CwfsServe` has no step that `Cwfs` does
  not have, so each theorem of `CwfsProofs` holds of it; the proofs take its
  invariants over. `RightsOfThisMount` needs `RightsInv`: whatever a mount is
  exported to now has been granted since it was mounted, and a lookup that
  still has its `cwfs_mnt` is on a mount that is not just being mounted.
  `TimesSane` and `TimesNeverGoBack` are inductive with `TimeInv`: births and
  shown times are in the past, and two vnodes of one inode make it a twin
  (`TwinsKnown`), without which the times of one would be held against the
  other's. `NodesOnlyAge` is the step by step version that needs no busy mount:
  from `IdentityIsKept`, taken over, and from all times being in the past.
* `CwEchoProofs`. The types (`TypeCorrect`). `CopiesInBuffer` and `Terminated` are inductive with the
  types. `NoGapsUnmixed` needs `UnmixedInv`: at most one writer, whose bytes
  so far lie beyond a length that stays at its start. From it
  `UnmixedImplementsEcho`, the refinement. `OneWriterImplementsEcho` is the
  same of the message itself in place of the history up to the first mixing:
  with one writer, writes never mix.
* `CwOpenProofs`. `RefsAccounted` is inductive with the shape of the state;
  that counts are never negative is its consequence, not an assumption. Its
  part about addresses (`AddressInv`) is inductive alone.
  `DescriptorsOwned` needs besides that a filled slot is a taken descriptor.
  `NothingDangles` draws from the counts what they are for: whatever refers to
  a file, a lost reference included, keeps it from being given out again.
  `LeaksAreForGood`, an action theorem, is the other side: no step gives a
  lost reference or a leaked address back.
* `CwfsKnoteProofs`. `ListsMatch`, `GoneIsTold`, `ScanNeverFaults` and the
  types are inductive with `Hooked`: a knote is hooked to the vnode its file is
  open on, and only a hooked knote is queued. Without it, a knote left behind
  by a closed file would seem to be missing from its list once the file is
  opened again. `ScanNeverFaults` then comes from `GoneIsTold`: a knote whose
  node is gone is a last event, and those are delivered without asking.
  `LastEventIsKept`, an action theorem, follows that last event: it stays until
  it is delivered or its knote dropped, since a vnode that knotes are hooked to
  is in use (`ListedInUse`) and is not made anew under them. `Implements` maps
  every step to one of `WatchLife` or a stutter. It needs `TellInv`: the
  end-of-file flag is only on knotes in use, and on a reader's or writer's only
  together with a queued last event, so that who has been told can be read off
  the flag (`ToldIsFlag`).
* `CwfsRootProofs`. `TypeCorrect` is about values: what goes to mount(2) is an
  id or mode of its type, whatever the widths. `RootIsAsAsked` and
  `NothingOnError` follow from `CommandInv`: what the options read so far have
  set is what they stand for (`ReadInv`), and what is passed is that, or what the
  mount point had when it was looked at (`ArgsInv`); the lemmas on `ToInt` and
  `Strtol` say when a conversion is exact, and `NumbersBeyondInt` what becomes
  of a number when it is not: beyond a long it is refused above zero and is 0
  below, and in between it is refused or off by a multiple of 2^32
  (`ToIntWraps`; that there is only one such int is `ToIntIsUnique`, from the
  uniqueness of remainders). `RootIsMountCwfs`: requests and other programs'
  mounts add nothing to the behaviours of the command. `AskedIsTold` is part of
  `MountInv`: the kernel keeps the arguments that the mount was made with.
  `OnlyUpdatesSucceed` says what becomes of the command on such a kernel: it ends
  well only with `-o update`. `GrantsWithinMode` and `ReadaheadInFile` rest on
  one lemma each: that access grants a stranger nothing (`AccessIsWithin`), and
  that the readahead is 0 below 2^31 (`RunIsZero`).

Where the code breaks a property, a theorem says under which condition it does
not, for instances of any size, and another what holds without the condition:

| Finding | Holds | Without that |
|---|---|---|
| 1, `TasksAreCancelled` | when no output overlaps a destroy, no allocation sleeps and no timeout has fired between `task_del()` and `timeout_del()`: `CancelledUnlessLateSleepyOrMissed` | a task that has begun outlives its softc only by sleeping: `OnlySleepersOutlive` |
| 2, `MountNeverPanics` | when the block of line 108 is compiled in and every vget keeps its mount busy: `MountsIfBuilt` | with the block left out, no mount, lookup or node ever comes about: `NeverMountedAsBuilt` |
| 3, `GoneIsLeftAlone` | until a read knote is registered anew while its last event waits: `OnlyTheToldFault` | that event is not lost: `LastEventIsKept` |
| 4, `NoGaps` | when at most one process writes: `OneWriterLeavesNoGaps` | no gaps until two writes mix: `UnmixedLeavesNoGaps` |

The hypotheses are conditions that the constants, or for the timeout the
behaviour, can meet, not assumptions of the modules: the runs of the findings show that the properties fail without
them.

Only model-checked: that `GeneratorProgress` does make progress, since
liveness under fairness and ENABLED are out of the prover's reach; its safety
half is proved as above. Every other property of a passing run is a theorem.
No result depends on induction over data: no module recurses, and what is said
of messages and command lines of any length is said of each position.

## 6. Findings

Four disagreements between the code and what it says of itself, each a run.

1. `Cwnet_destroy`: `pgen_destroy()`, "release of resources"
   (`if_cwnet.c:173`, in Russian), cancels the timeout before `if_detach()`
   has stopped output; a start routine in between arms it again (118), and the
   softc is freed with its timeout pending.
2. `Cwfs_builtin`: `cwfs_mountfs()` (`cwfs_vfsops.c:194`) stores through a
   device vnode that is always NULL, since the block that names it (108) is
   compiled out. The manual says the command attaches a file system.
3. `CwfsKnote_modify`: `filt_cwfsread()` (`cwfs_vnops.c:843`) follows the NULL
   node of a file that is gone when its knote is registered again before it
   has been delivered, although "filesystem is gone, so set the EOF flag and
   schedule the knote for deletion" (834-837).
4. `CwEcho_gaps`: two overlapping writes leave a null character inside the
   message, although the comment at `cw.c:291-294` says "do not allow random
   access". One write has copied the first of its two bytes from the beginning;
   a second one, of no bytes at the beginning, puts its terminator over that
   byte and records length 0; the first goes on, copies its second byte and
   records length 2.

Two more are in the models, and set aside by the properties that a run checks:

* `if_cwnet.c:178-179`: the task is cancelled before the timeout that queues it.
  Softclock may interrupt between the two lines, and the softc is then freed with
  its task queued, even if nothing is late and nothing sleeps (`missed`). The
  other order would not have this. And `task_del()` does not wait for a task that
  has begun: one asleep in its allocation (148-150) goes on after `free()`.
  `TasksAreCancelled` is false for both reasons also without late output, and
  `CancelledUnlessLateSleepyOrMissed` says that, late output apart, there is no third.
* `cwfs_vfsops.c:323-371`: a lookup by a file handle does not keep the mount
  busy. It reads the mount's `cwfs_mnt` (356) and sleeps in `getnewvnode()`; an
  unmount frees the `cwfs_mnt` (245), and the node is made from it (370):
  `VgetFillStale`. Or a forced unmount meets its vnode before it has a node
  (364) and follows the NULL `v_data`: `FlushRawVnode`. The comment at 305-312
  says "Have to be really careful about stale file handles". Both set `fault`;
  `NeverFaults` leaves out the mounts in `Raced`.

Observed while reading, without a run:

* `cwfs_vfsops.c:305-312`: the comment asks a file handle lookup to return a
  locked inode with number and generation checked; it is returned unlocked and
  unchecked, and `cwfs_vget_internal()` makes a second vnode for an inode that
  has one. `Cwfs` does the same, each vnode with a lock of its own, so that two
  processes may hold the lock of one inode; `CwfsServe` counts such inodes
  (`twins`): their times may go back.
* `cwfs_vfsops.c:194, 240`: a second mount of a device overwrites the mark of
  what is mounted on it, and the unmount of either clears it, so that a live
  mount may be without one. `MarkIsLive` says only that no mark outlives its
  mount.
* `cwfs_vnops.c:506-508`: a lookup that finds nothing should "return error";
  the last lines return 0 with no vnode (564) and enter a negative name. They
  are never reached: a node has no mode and no type, so no lookup gets past
  the permission check (540), although getattr shows mode 0755. The comment at
  112-113 says "The super user is granted all permissions", but vaccess() does
  not let him search what has no execute bit and is no directory. An author who
  gives the node a mode meets the lines after 540; `Cwfs` leaves open who may
  search, and follows them.
* `cwfs_vnops.c:464-478`: the readahead is computed without a sign in 64 bits
  and cut to an int; for block numbers from 2^31 on it announces blocks of an
  empty file. `cwfs_readdir()` (236-271) sets the offset back to 0 and never
  reports the end of the directory. `cwfs_strategy()` is unreachable, there
  being no buffers of cwfs files.
* `cwfs_vfsops.c:144`: on an update, `error` would be read unset, but updates
  return at 104. `cwfs_vfsops.c:385`: the case of a FIFO would give up its
  vnode with references held, but a node's type is VNON (377).
* `cw.c:276-277`: how much a read copies depends on the offset, what it copies
  does not: it always starts at the beginning of the message.
* `cw.c:147`: `fdpunlock()` without the lock, whose taking is commented out;
  `cw.c:223`: an open returns 0 whatever became of the connection, and keeps a
  reference to the file and the mbuf of the address for ever (`lost` and
  `leaked` in `CwOpen`). `cw.c:85`: the address is never copied into that mbuf,
  so what the device connects to is whatever the memory held.
* `if_cwnet.c:256-259`: the start routine "only need[s] to discard the
  packets", but also restarts the generator.
* `mount_cwfs.c:73, 149`: the command clears its arguments and names no device.
  With the device block compiled in, `copyinstr()` is given NULL
  (`cwfs_vfsops.c:113`) and every mount ends in EFAULT, although `mount_cwfs.8:37-39`
  says that the name "is ignored" (`OnlyUpdatesSucceed`); without the block the
  mount faults (finding 2).
* `mount_cwfs.c:103, 132`: options `-n` and `-s` are advertised and parsed but
  end in the usage text. `mount_cwfs.c:189`: an id is read as a long and cut
  to an int, so 4294967296 is user 0, as is -4294967296 and any number below
  -2^63, 4294967297 is user 1, and ids from 2147483648 to 4294967295 are refused
  (`NumbersBeyondInt`). `RootIsAsAsked` and `NothingOnError` are about the low
  bits.
* `mount_cwfs.8:47-63` says that the options specify the mode, owner and group of
  the root. They reach statfs only (`AskedIsTold`): `cwfs_vnops.c:137-141` shows
  mode 0755, user 0 and group 0 whatever was asked for.
* `Makefile.inc:91`: the list of installed skeleton files uses `${c}` for
  `${_c}` and is empty, so the skeleton step has no target and the patch step
  no prerequisite; `make`, that is `patch build` (63), patches first.
  `Makefile.inc:93, 125`: the fetch directory is prefixed twice, in a pipeline
  whose status is that of its last command. `README.md:24-26` runs `make` at
  the root of the repository, where there is no make file. A step interrupted
  between its work and its cookie is done twice.

## 7. What is not modelled

* **The build.** What its steps do is what `ftp`, `pax`, `patch`, `config` and
  the compiler do; what is left is an order of targets, in which the defects
  above were found by reading.
* **Patches, documentation.** No behaviour of their own.
* **The skeletons of kmmo-X-20.** Byte for byte those of kmmo-X-21, which the
  models cite; all that is said of one holds of the other.
* **In what is modelled:** contents of packets, wording, debugging output;
  modification and change times apart from the access time (all three are set
  together); media types and the ioctls that change nothing; the flags that
  `-o` collects; sizes and offsets in event filters; the contents of a
  device's address and what happens to a connection once made; `cwfs_start`,
  `cwfs_sync`, `cwfs_quotactl`, `cwfs_vptofh` and `cwfs_print`, which change no
  state and answer nothing that depends on any. A clock that is set back is
  left out of `CwfsServe`: times would go back with it, by no fault of cwfs.
