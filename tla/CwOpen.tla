------------------------------- MODULE CwOpen -------------------------------
(***************************************************************************)
(* Opening the cw device, skel-kernel/dev/cw.c: cwopen() makes a socket,   *)
(* enters it in the descriptor table of the process that opens the device, *)
(* and connects it.  The threads of a process share that table.            *)
(*                                                                         *)
(* cwopen() runs under the kernel lock and sleeps in socreate(), in        *)
(* mysockargs(), in soconnect() and while the connection is made           *)
(* (sosleep_nsec): the stretches between these points are the actions.     *)
(* The lock of the descriptor table is not held at any of them: taking it  *)
(* is commented out at lines 122, 134 and 137.                             *)
(***************************************************************************)
EXTENDS Integers, FiniteSets

CONSTANTS
  Threads,     \* threads of the process
  Files,       \* file structures
  NoFile,      \* an empty slot
  Fds          \* descriptors

ASSUME SentinelAssumption == NoFile \notin Files
ASSUME FiniteAssumption == IsFiniteSet(Threads) /\ IsFiniteSet(Fds)

VARIABLES
  table,     \* fd_ofiles: the file of each descriptor
  used,      \* fd_lomap: the descriptors that are taken or reserved
  refs,      \* f_count of each file
  call,      \* the cwopen() each thread is in
  mbufs,     \* mbufs with addresses, allocated and not freed
  leaked,    \* history: those of them that nobody points at any more
  lost,      \* history: references to a file that nobody can drop any more
  early      \* history: a descriptor was closed while being connected

bufVars == <<mbufs, leaked>>
vars == <<table, used, refs, call, bufVars, lost, early>>

Calls == [pc : {"create", "address", "connect", "wait"}, fd : Fds, fp : Files]
Idle == [pc |-> "idle"]

Init ==
  /\ table = [fd \in Fds |-> NoFile]
  /\ used = {}
  /\ refs = [f \in Files |-> 0]
  /\ call = [t \in Threads |-> Idle]
  /\ mbufs = 0 /\ leaked = 0
  /\ lost = [f \in Files |-> 0]
  /\ early = FALSE

(* The threads that are past a point of cwopen(), with a given file.       *)
At(pc, f) == {t \in Threads : call[t].pc = pc /\ call[t].fp = f}
Slots(f) == {fd \in Fds : table[fd] = f}

(* The reference a slot stood for, when the slot is cleared or overwritten *)
(* without dropping it.                                                    *)
LostWith(fd) == [f \in Files |-> IF f = table[fd] THEN lost[f] + 1 ELSE lost[f]]

-----------------------------------------------------------------------------
(* falloc(): a reserved descriptor and a new file, with a reference for    *)
(* the slot it will fill and one for the caller.                           *)
Falloc(t, fd, f) ==
  /\ call[t] = Idle
  /\ fd \notin used
  /\ refs[f] = 0
  /\ used' = used \cup {fd}
  /\ refs' = [refs EXCEPT ![f] = 2]
  /\ call' = [call EXCEPT ![t] = [pc |-> "create", fd |-> fd, fp |-> f]]
  /\ UNCHANGED <<table, bufVars, lost, early>>

FallocFails(t) ==
  /\ call[t] = Idle
  /\ used = Fds \/ \A f \in Files : refs[f] # 0
  /\ UNCHANGED vars

(* Faulty variant: the reference of falloc() is also released by hand,     *)
(* although closef() drops it.                                             *)
SocreateFailsTwice(t) ==
  /\ call[t].pc = "create"
  /\ table' = [table EXCEPT ![call[t].fd] = NoFile]
  /\ used' = used \ {call[t].fd}
  /\ refs' = [refs EXCEPT ![call[t].fp] = @ - 3]
  /\ lost' = LostWith(call[t].fd)
  /\ call' = [call EXCEPT ![t] = Idle]
  /\ UNCHANGED <<bufVars, early>>

(* socreate() fails: fdremove() frees the descriptor, closef() drops the   *)
(* reference of the slot and the caller's.                                 *)
SocreateFails(t) ==
  /\ call[t].pc = "create"
  /\ table' = [table EXCEPT ![call[t].fd] = NoFile]
  /\ used' = used \ {call[t].fd}
  /\ refs' = [refs EXCEPT ![call[t].fp] = @ - 2]
  /\ lost' = LostWith(call[t].fd)
  /\ call' = [call EXCEPT ![t] = Idle]
  /\ UNCHANGED <<bufVars, early>>

(* fdinsert() fills the slot, FRELE() drops the reference of falloc(), and *)
(* getsock() takes another through the static socketfd, which no other     *)
(* thread can have changed in between.                                     *)
Socreate(t) ==
  /\ call[t].pc = "create"
  /\ table' = [table EXCEPT ![call[t].fd] = call[t].fp]
  /\ lost' = LostWith(call[t].fd)
  /\ call' = [call EXCEPT ![t].pc = "address"]
  /\ UNCHANGED <<used, refs, bufVars, early>>

(* mysockargs() allocates an mbuf for the address, and puts nothing into   *)
(* it but its length.  An address this short cannot make it fail.          *)
Mysockargs(t) ==
  /\ call[t].pc = "address"
  /\ mbufs' = mbufs + 1
  /\ call' = [call EXCEPT ![t].pc = "connect"]
  /\ UNCHANGED <<table, used, refs, leaked, lost, early>>

(* Faulty variant: the path of a failed connection ends as that of a       *)
(* failed socreate() does, dropping the reference of the slot unseen.      *)
ConnectFailsClosef(t) ==
  /\ call[t].pc = "connect"
  /\ table' = [table EXCEPT ![call[t].fd] = NoFile]
  /\ used' = used \ {call[t].fd}
  /\ refs' = [refs EXCEPT ![call[t].fp] = @ - 2]
  /\ call' = [call EXCEPT ![t] = Idle]
  /\ mbufs' = mbufs - 1
  /\ UNCHANGED <<leaked, lost, early>>

(* Label bad: FRELE() drops the reference of getsock() and m_freem() frees *)
(* the address.  fdremove() clears the slot, whatever is in it by now, and *)
(* leaves it its reference.                                                *)
ConnectFails(t) ==
  /\ call[t].pc = "connect"
  /\ table' = [table EXCEPT ![call[t].fd] = NoFile]
  /\ used' = used \ {call[t].fd}
  /\ refs' = [refs EXCEPT ![call[t].fp] = @ - 1]
  /\ lost' = LostWith(call[t].fd)
  /\ call' = [call EXCEPT ![t] = Idle]
  /\ mbufs' = mbufs - 1
  /\ UNCHANGED <<leaked, early>>

(* soconnect() has started the connection.                                 *)
Soconnect(t) ==
  /\ call[t].pc = "connect"
  /\ call' = [call EXCEPT ![t].pc = "wait"]
  /\ UNCHANGED <<table, used, refs, bufVars, lost, early>>

(* Faulty variant: an error of the connection ends like one of soconnect(). *)
OpenReturnsBad(t) ==
  /\ call[t].pc = "wait"
  /\ table' = [table EXCEPT ![call[t].fd] = NoFile]
  /\ used' = used \ {call[t].fd}
  /\ refs' = [refs EXCEPT ![call[t].fp] = @ - 1]
  /\ lost' = LostWith(call[t].fd)
  /\ call' = [call EXCEPT ![t] = Idle]
  /\ mbufs' = mbufs - 1
  /\ UNCHANGED <<leaked, early>>

(* The connection is made, refused or interrupted.  In each case cwopen()  *)
(* returns 0, and keeps the reference of getsock(), and the address that   *)
(* it has allocated, without a use for them.                               *)
OpenReturns(t) ==
  /\ call[t].pc = "wait"
  /\ lost' = [lost EXCEPT ![call[t].fp] = @ + 1]
  /\ leaked' = leaked + 1
  /\ call' = [call EXCEPT ![t] = Idle]
  /\ UNCHANGED <<table, used, refs, mbufs, early>>

(* close(2) of one of the process's descriptors, by a thread that is not   *)
(* in cwopen().                                                            *)
Close(t, fd) ==
  /\ call[t] = Idle
  /\ table[fd] # NoFile
  /\ table' = [table EXCEPT ![fd] = NoFile]
  /\ used' = used \ {fd}
  /\ refs' = [refs EXCEPT ![table[fd]] = @ - 1]
  /\ early' = (early \/ \E u \in Threads : /\ call[u].pc \in {"address", "connect"}
                                          /\ call[u].fd = fd
                                          /\ call[u].fp = table[fd])
  /\ UNCHANGED <<call, bufVars, lost>>

Cwopen(t) ==
  \/ \E fd \in Fds, f \in Files : Falloc(t, fd, f)
  \/ FallocFails(t)
  \/ SocreateFails(t) \/ Socreate(t)
  \/ Mysockargs(t)
  \/ ConnectFails(t) \/ Soconnect(t) \/ OpenReturns(t)

Next == \E t \in Threads : Cwopen(t) \/ \E fd \in Fds : Close(t, fd)

Spec == Init /\ [][Next]_vars

-----------------------------------------------------------------------------
(* Properties.                                                             *)

TypeOK ==
  /\ table \in [Fds -> Files \cup {NoFile}]
  /\ used \subseteq Fds
  /\ refs \in [Files -> Nat]
  /\ call \in [Threads -> Calls \cup {Idle}]
  /\ mbufs \in Nat /\ leaked \in Nat
  /\ lost \in [Files -> Nat]
  /\ early \in BOOLEAN

(* The reference count of a file is what refers to it: the slots, two for  *)
(* a file being made, one for an open that connects it, and what earlier   *)
(* opens have lost.  So no descriptor and no open ever refers to a file    *)
(* that has been freed, however opens, failures and closes interleave.     *)
(* Likewise the addresses: those of the opens that connect, and those that *)
(* earlier opens have leaked.                                              *)
Connecting == {t \in Threads : call[t].pc \in {"connect", "wait"}}

RefsAccounted ==
  /\ \A f \in Files :
       refs[f] = Cardinality(Slots(f)) + 2 * Cardinality(At("create", f))
                 + Cardinality(At("address", f)) + Cardinality(At("connect", f))
                 + Cardinality(At("wait", f)) + lost[f]
  /\ mbufs = Cardinality(Connecting) + leaked

(* Until somebody closes a descriptor that is still being connected, the   *)
(* descriptor an open has reserved or filled is its own: fdremove(), which *)
(* clears a slot by its number, never clears somebody else's.              *)
Owns(t) ==
  /\ call[t].fd \in used
  /\ table[call[t].fd] = IF call[t].pc = "create" THEN NoFile ELSE call[t].fp
  /\ \A u \in Threads \ {t} :
       call[u].pc \in {"create", "address", "connect"} => call[u].fd # call[t].fd

DescriptorsOwned ==
  early \/ \A t \in Threads : call[t].pc \in {"create", "address", "connect"} => Owns(t)
==============================================================================
