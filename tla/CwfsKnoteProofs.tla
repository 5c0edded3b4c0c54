-------------------------- MODULE CwfsKnoteProofs --------------------------
(***************************************************************************)
(* Proofs about CwfsKnote, for any sets of vnodes and of files.            *)
(***************************************************************************)
EXTENDS CwfsKnote, TLAPS

(* A knote is hooked to the vnode its file is open on, and only a hooked   *)
(* knote is queued.  ListsMatch alone allows a knote left hooked to the    *)
(* vnode of a file since closed, which opening the file again would make   *)
(* look as if it were missing from its list.                               *)
Hooked ==
  \A k \in Knotes :
    /\ kn[k].hook \in {NoVnode, file[k[1]]}
    /\ kn[k].queued => kn[k].hook # NoVnode

Inv == TypeOK /\ Hooked /\ ListsMatch /\ GoneIsTold /\ ScanNeverFaults

-----------------------------------------------------------------------------
(* What the state of a knote is made of, and what revoking its vnode does. *)

LEMMA KnoteFields ==
  ASSUME NEW r \in KnoteStates
  PROVE  /\ r.hook \in Vnodes \cup {NoVnode}
         /\ r.eof \in BOOLEAN /\ r.once \in BOOLEAN
         /\ r.wants \in BOOLEAN /\ r.hit \in BOOLEAN /\ r.queued \in BOOLEAN
BY DEF KnoteStates

LEMMA RevokedKnote ==
  ASSUME NEW k \in Knotes, NEW r \in KnoteStates
  PROVE  /\ Revoked(k, r) \in KnoteStates
         /\ Revoked(k, r).hook = r.hook
         /\ Revoked(k, r).eof
         /\ Revoked(k, r).queued
         /\ FilterOf(k) # "vnode" => Revoked(k, r).once
BY DEF Revoked, KnoteStates

LEMMA NoKnoteTyped == /\ NoKnote \in KnoteStates
                      /\ NoKnote.hook = NoVnode
                      /\ NoKnote.queued = FALSE
BY DEF NoKnote, KnoteStates

(* Detaching knotes whose state is then dropped leaves the lists and the   *)
(* hooks in agreement.                                                     *)
LEMMA Detaching ==
  ASSUME Inv, NEW ks \in SUBSET Knotes,
         klist' = FiltCwfsdetach(ks),
         kn' = [k \in Knotes |-> IF k \in ks THEN NoKnote ELSE kn[k]]
  PROVE  /\ klist' \in [Vnodes -> SUBSET (Files \X Filters)]
         /\ kn' \in [Knotes -> KnoteStates]
         /\ \A k \in ks : kn'[k] = NoKnote /\ \A v \in Vnodes : k \notin klist'[v]
         /\ \A k \in Knotes \ ks :
              kn'[k] = kn[k] /\ \A v \in Vnodes : k \in klist'[v] <=> k \in klist[v]
<1>1. klist' \in [Vnodes -> SUBSET (Files \X Filters)]
  BY DEF Inv, TypeOK, FiltCwfsdetach
<1>2. kn' \in [Knotes -> KnoteStates]
  BY NoKnoteTyped DEF Inv, TypeOK
<1>3. ASSUME NEW k \in ks, NEW v \in Vnodes
      PROVE  k \notin klist'[v]
  <2>1. k \in klist[v] => kn[k].hook = v
    BY DEF Inv, ListsMatch
  <2> QED BY <2>1 DEF FiltCwfsdetach
<1>4. ASSUME NEW k \in Knotes \ ks, NEW v \in Vnodes
      PROVE  k \in klist'[v] <=> k \in klist[v]
  BY DEF FiltCwfsdetach
<1> QED BY <1>1, <1>2, <1>3, <1>4

(* What Inv says of one knote.                                             *)
Fits(k) ==
  /\ kn[k].hook \in {NoVnode, file[k[1]]}
  /\ kn[k].queued => kn[k].hook # NoVnode
  /\ \A v \in Vnodes : k \in klist[v] <=> kn[k].hook = v /\ file[k[1]] = v
  /\ kn[k].hook \in Vnodes \ node /\ FilterOf(k) # "vnode"
       => kn[k].eof /\ kn[k].once /\ kn[k].queued

LEMMA InvIsFits ==
  Inv <=> TypeOK /\ ScanNeverFaults /\ \A k \in Knotes : Fits(k)
BY DEF Inv, Hooked, ListsMatch, GoneIsTold, Fits

-----------------------------------------------------------------------------
(* One lemma per kind of step.                                             *)

LEMMA OpenStep ==
  ASSUME Inv, NEW f \in Files, NEW v \in Vnodes, Open(f, v)
  PROVE  Inv'
<1>1. TypeOK' /\ ScanNeverFaults'
  BY DEF Inv, TypeOK, ScanNeverFaults, Open
<1>2. ASSUME NEW k \in Knotes
      PROVE  Fits(k)'
  <2>1. k[1] \in Files /\ Fits(k)
    BY InvIsFits DEF Knotes
  <2>2. file' = [file EXCEPT ![f] = v] /\ file[f] = NoVnode
    BY DEF Open
  <2>3. kn' = kn /\ klist' = klist /\ node \subseteq node'
    BY DEF Open
  <2>4. CASE k[1] = f
    <3>1. kn[k].hook = NoVnode
      BY <2>1, <2>2, <2>4 DEF Fits
    <3>2. \A w \in Vnodes : k \notin klist[w]
      BY <2>1, <3>1, SentinelAssumption DEF Fits
    <3> QED BY <2>1, <2>3, <3>1, <3>2, SentinelAssumption DEF Fits
  <2>5. CASE k[1] # f
    <3>1. file'[k[1]] = file[k[1]]
      BY <2>1, <2>2, <2>5 DEF Inv, TypeOK
    <3> QED BY <2>1, <2>3, <3>1 DEF Fits
  <2> QED BY <2>4, <2>5
<1> QED BY <1>1, <1>2 DEF Inv, Hooked, ListsMatch, GoneIsTold, Fits

LEMMA CloseStep ==
  ASSUME Inv, NEW f \in Files, Close(f)
  PROVE  Inv'
<1>1. /\ klist' = FiltCwfsdetach(Of(f))
      /\ kn' = [k \in Knotes |-> IF k \in Of(f) THEN NoKnote ELSE kn[k]]
  BY SentinelAssumption DEF Close, FiltCwfsdetach, Of
<1>2. /\ klist' \in [Vnodes -> SUBSET (Files \X Filters)]
      /\ kn' \in [Knotes -> KnoteStates]
      /\ \A k \in Of(f) : kn'[k] = NoKnote /\ \A v \in Vnodes : k \notin klist'[v]
      /\ \A k \in Knotes \ Of(f) :
           kn'[k] = kn[k] /\ \A v \in Vnodes : k \in klist'[v] <=> k \in klist[v]
  <2>1. Of(f) \in SUBSET Knotes
    BY DEF Of
  <2> QED BY <1>1, <2>1, Detaching
<1>3. TypeOK' /\ ScanNeverFaults'
  BY <1>2 DEF Inv, TypeOK, ScanNeverFaults, Close
<1>4. ASSUME NEW k \in Knotes
      PROVE  Fits(k)'
  <2>1. CASE k \in Of(f)
    <3>1. kn'[k] = NoKnote /\ \A v \in Vnodes : k \notin klist'[v]
      BY <1>2, <2>1
    <3> QED BY <3>1, NoKnoteTyped, SentinelAssumption DEF Fits
  <2>2. CASE k \notin Of(f)
    <3>1. kn'[k] = kn[k] /\ \A v \in Vnodes : k \in klist'[v] <=> k \in klist[v]
      BY <1>2, <2>2
    <3>2. k[1] \in Files \ {f}
      BY <2>2 DEF Of, Knotes
    <3>3. file'[k[1]] = file[k[1]]
      BY <3>2 DEF Close, Inv, TypeOK
    <3>4. kn[k].hook \in Vnodes \ node' => kn[k].hook \in Vnodes \ node
      <4>1. kn[k].hook \in Vnodes => kn[k].hook = file[k[1]]
        BY SentinelAssumption DEF Inv, Hooked
      <4>2. kn[k].hook \in Vnodes /\ kn[k].hook \in node => kn[k].hook \in node'
        BY <3>2, <4>1 DEF Close
      <4> QED BY <4>2
    <3> QED BY <3>1, <3>3, <3>4, InvIsFits DEF Fits
  <2> QED BY <2>1, <2>2
<1> QED BY <1>3, <1>4 DEF Inv, Hooked, ListsMatch, GoneIsTold, Fits

LEMMA RevokeStep ==
  ASSUME Inv, NEW v \in Vnodes, Revoke(v)
  PROVE  Inv'
<1>1. ASSUME NEW k \in Knotes
      PROVE  /\ kn[k] \in KnoteStates
             /\ kn'[k] = IF k \in klist[v] THEN Revoked(k, kn[k]) ELSE kn[k]
  BY DEF Inv, TypeOK, Revoke
<1>2. kn' \in [Knotes -> KnoteStates]
  BY RevokedKnote DEF Inv, TypeOK, Revoke
<1>3. TypeOK' /\ ScanNeverFaults'
  BY <1>2 DEF Inv, TypeOK, ScanNeverFaults, Revoke
<1>4. ASSUME NEW k \in Knotes
      PROVE  Fits(k)'
  <2>1. Fits(k)
    BY InvIsFits
  <2>2. file' = file /\ klist' = klist /\ node' = node \ {v}
    BY DEF Revoke
  <2>3. CASE k \in klist[v]
    <3>1. kn'[k].hook = v /\ kn'[k].eof /\ kn'[k].queued
          /\ (FilterOf(k) # "vnode" => kn'[k].once)
      BY <1>1, <2>1, <2>3, RevokedKnote DEF Fits
    <3>2. kn[k].hook = v
      BY <2>1, <2>3 DEF Fits
    <3> QED BY <2>1, <2>2, <3>1, <3>2, SentinelAssumption DEF Fits
  <2>4. CASE k \notin klist[v]
    <3>1. kn'[k] = kn[k]
      BY <1>1, <2>4
    <3>2. kn[k].hook # v
      BY <2>1, <2>4, SentinelAssumption DEF Fits
    <3> QED BY <2>1, <2>2, <3>1, <3>2 DEF Fits
  <2> QED BY <2>3, <2>4
<1> QED BY <1>3, <1>4 DEF Inv, Hooked, ListsMatch, GoneIsTold, Fits

LEMMA RegisterStep ==
  ASSUME Inv, NEW f \in Files, NEW filter \in AnyFilters,
         NEW once \in BOOLEAN, NEW wants \in BOOLEAN, NEW answer \in BOOLEAN,
         CwfsKqfilter(f, filter, once, wants, answer)
  PROVE  Inv'
<1> DEFINE n == <<f, filter>>
           r == [hook |-> file[f], eof |-> FALSE, once |-> once,
                 wants |-> wants, hit |-> FALSE, queued |-> answer]
<1>1. /\ n \in Knotes /\ n \in Files \X Filters
      /\ file[f] \in node /\ file[f] \in Vnodes
      /\ klist' = [klist EXCEPT ![file[f]] = @ \cup {n}]
      /\ kn' = [kn EXCEPT ![n] = r]
      /\ node' = node /\ file' = file /\ fault' = fault
  BY DEF CwfsKqfilter, Knotes, Inv, TypeOK
<1>2. r \in KnoteStates /\ r.hook = file[f]
  BY <1>1 DEF KnoteStates
<1>3. TypeOK' /\ ScanNeverFaults'
  <2> HIDE DEF n, r
  <2>1. kn' \in [Knotes -> KnoteStates]
    BY <1>1, <1>2 DEF Inv, TypeOK
  <2>2. klist' \in [Vnodes -> SUBSET (Files \X Filters)]
    BY <1>1 DEF Inv, TypeOK
  <2> QED BY <1>1, <2>1, <2>2 DEF Inv, TypeOK, ScanNeverFaults
<1>4. ASSUME NEW k \in Knotes
      PROVE  Fits(k)'
  <2>1. Fits(k)
    BY InvIsFits
  <2>2. CASE k = n
    <3>1. kn'[k] = r /\ k[1] = f
      BY <1>1, <2>2 DEF Inv, TypeOK
    <3>2. kn[k].hook = NoVnode
      BY <2>2 DEF CwfsKqfilter
    <3>3. \A v \in Vnodes : k \in klist'[v] <=> v = file[f]
      BY <1>1, <2>1, <2>2, <3>2, SentinelAssumption DEF Fits, Inv, TypeOK
    <3> HIDE DEF r
    <3> QED BY <1>1, <1>2, <3>1, <3>3, SentinelAssumption DEF Fits
  <2>3. CASE k # n
    <3>1. kn'[k] = kn[k] /\ \A v \in Vnodes : k \in klist'[v] <=> k \in klist[v]
      BY <1>1, <2>3 DEF Inv, TypeOK
    <3> QED BY <1>1, <2>1, <3>1 DEF Fits
  <2> QED BY <2>2, <2>3
<1> QED BY <1>3, <1>4 DEF Inv, Hooked, ListsMatch, GoneIsTold, Fits

(* EV_DELETE, and the delivery of a last event.                            *)
LEMMA DropStep ==
  ASSUME Inv, NEW n \in Knotes, Delete(n) \/ DeliverLast(n)
  PROVE  Inv'
<1>1. /\ klist' = FiltCwfsdetach({n})
      /\ kn' = [k \in Knotes |-> IF k \in {n} THEN NoKnote ELSE kn[k]]
      /\ node' = node /\ file' = file /\ fault' = fault
  BY DEF Delete, DeliverLast, Inv, TypeOK
<1>2. /\ klist' \in [Vnodes -> SUBSET (Files \X Filters)]
      /\ kn' \in [Knotes -> KnoteStates]
      /\ kn'[n] = NoKnote /\ \A v \in Vnodes : n \notin klist'[v]
      /\ \A k \in Knotes \ {n} :
           kn'[k] = kn[k] /\ \A v \in Vnodes : k \in klist'[v] <=> k \in klist[v]
  <2>1. {n} \in SUBSET Knotes
    OBVIOUS
  <2> QED BY <1>1, <2>1, Detaching
<1>3. TypeOK' /\ ScanNeverFaults'
  BY <1>1, <1>2 DEF Inv, TypeOK, ScanNeverFaults
<1>4. ASSUME NEW k \in Knotes
      PROVE  Fits(k)'
  <2>1. CASE k = n
    BY <1>2, <2>1, NoKnoteTyped, SentinelAssumption DEF Fits
  <2>2. CASE k # n
    <3>1. kn'[k] = kn[k] /\ \A v \in Vnodes : k \in klist'[v] <=> k \in klist[v]
      BY <1>2, <2>2
    <3>2. Fits(k)
      BY InvIsFits
    <3> QED BY <1>1, <3>1, <3>2 DEF Fits
  <2> QED BY <2>1, <2>2
<1> QED BY <1>3, <1>4 DEF Inv, Hooked, ListsMatch, GoneIsTold, Fits

(* Asking the filter of a hooked knote, which may queue it.                *)
LEMMA AskedKnote ==
  ASSUME Inv, NEW n \in Knotes, NEW wants \in BOOLEAN, NEW queued \in BOOLEAN,
         kn[n].hook # NoVnode,
         ~FollowsNull(n),
         kn[n].once /\ kn[n].queued => queued,
         kn' = [kn EXCEPT ![n].wants = wants, ![n].queued = queued],
         UNCHANGED <<node, file, klist, fault>>
  PROVE  Inv'
<1>1. /\ kn'[n].hook = kn[n].hook /\ kn'[n].eof = kn[n].eof
      /\ kn'[n].once = kn[n].once /\ kn'[n].queued = queued
      /\ kn' \in [Knotes -> KnoteStates]
      /\ \A k \in Knotes \ {n} : kn'[k] = kn[k]
  BY DEF Inv, TypeOK, KnoteStates
<1>2. TypeOK' /\ ScanNeverFaults'
  BY <1>1 DEF Inv, TypeOK, ScanNeverFaults
<1>3. ASSUME NEW k \in Knotes
      PROVE  Fits(k)'
  <2>1. Fits(k)
    BY InvIsFits
  <2>2. CASE k = n
    BY <1>1, <2>1, <2>2 DEF Fits
  <2>3. CASE k # n
    BY <1>1, <2>1, <2>3 DEF Fits
  <2> QED BY <2>2, <2>3
<1> QED BY <1>2, <1>3 DEF Inv, Hooked, ListsMatch, GoneIsTold, Fits

LEMMA PanicStep ==
  ASSUME Inv, Panic("modify")
  PROVE  Inv'
BY DEF Inv, Panic, TypeOK, Hooked, ListsMatch, GoneIsTold, ScanNeverFaults

-----------------------------------------------------------------------------
(* A filter may be asked about a vnode that is gone when its knote is set  *)
(* anew, which panics, but not when it is delivered: by GoneIsTold such a  *)
(* knote is a last event.                                                  *)
LEMMA ModifyStep ==
  ASSUME Inv, NEW k \in Knotes, NEW wants \in BOOLEAN, NEW answer \in BOOLEAN,
         Modify(k, wants, answer)
  PROVE  Inv'
<1>1. CASE FollowsNull(k)
  BY <1>1, PanicStep DEF Modify
<1>2. CASE ~FollowsNull(k)
  <2> DEFINE q == kn[k].queued \/ answer
  <2>1. kn[k] \in KnoteStates
    BY DEF Inv, TypeOK
  <2>2. q \in BOOLEAN
    OBVIOUS
  <2>3. kn' = [kn EXCEPT ![k].wants = wants, ![k].queued = q]
    BY <1>2, <2>1 DEF Modify
  <2>4. kn[k].once /\ kn[k].queued => q
    OBVIOUS
  <2> QED BY <1>2, <2>2, <2>3, <2>4, AskedKnote DEF Modify
<1> QED BY <1>1, <1>2

LEMMA DeliverStep ==
  ASSUME Inv, NEW k \in Knotes, NEW answer \in BOOLEAN, Deliver(k, answer)
  PROVE  Inv'
<1>1. kn[k].hook # NoVnode /\ ~kn[k].once
  BY DEF Deliver, Inv, Hooked
<1>2. ~FollowsNull(k)
  <2>1. SUFFICES ASSUME FilterOf(k) = "read", kn[k].hook \notin node PROVE FALSE
    BY DEF FollowsNull
  <2>2. kn[k].hook \in Vnodes \ node
    BY <1>1, <2>1, KnoteFields DEF Inv, TypeOK
  <2> QED BY <1>1, <2>1, <2>2 DEF Inv, GoneIsTold
<1>3. kn[k] \in KnoteStates
  BY DEF Inv, TypeOK
<1>4. kn' = [kn EXCEPT ![k].wants = kn[k].wants, ![k].queued = answer]
  <2>1. kn' = [kn EXCEPT ![k].queued = answer]
    BY <1>2 DEF Deliver
  <2> QED BY <1>3, <2>1 DEF KnoteStates, Inv, TypeOK
<1> QED BY <1>1, <1>2, <1>3, <1>4, KnoteFields, AskedKnote DEF Deliver

-----------------------------------------------------------------------------
(* The theorems.                                                           *)

(* The inductive invariant: kqfilter, detaching, revocation and delivery   *)
(* all keep it.                                                            *)
THEOREM Invariant == Spec => []Inv
<1>1. Init => Inv
  BY NoKnoteTyped, SentinelAssumption
     DEF Init, Inv, TypeOK, Hooked, ListsMatch, GoneIsTold, ScanNeverFaults
<1>2. Inv /\ [Next]_vars => Inv'
  <2> SUFFICES ASSUME Inv, [Next]_vars PROVE Inv'
    OBVIOUS
  <2>1. CASE \E f \in Files, v \in Vnodes : Open(f, v)
    BY <2>1, OpenStep
  <2>2. CASE \E f \in Files : Close(f)
    BY <2>2, CloseStep
  <2>3. CASE \E f \in Files : Registering(f)
    BY <2>3, RegisterStep DEF Registering
  <2>4. CASE \E v \in Vnodes : Revoke(v)
    BY <2>4, RevokeStep
  <2>5. CASE \E k \in Knotes : Kevent(k)
    <3>1. PICK k \in Knotes : Kevent(k)
      BY <2>5
    <3>2. CASE \E wants, answer \in BOOLEAN : Modify(k, wants, answer)
      BY <3>2, ModifyStep
    <3>3. CASE Delete(k) \/ DeliverLast(k)
      BY <3>3, DropStep
    <3>4. CASE \E answer \in BOOLEAN : Deliver(k, answer)
      BY <3>4, DeliverStep
    <3> QED BY <3>1, <3>2, <3>3, <3>4 DEF Kevent
  <2>6. CASE UNCHANGED vars
    BY <2>6 DEF vars, Inv, TypeOK, Hooked, ListsMatch, GoneIsTold, ScanNeverFaults,
                FilterOf
  <2> QED BY <2>1, <2>2, <2>3, <2>4, <2>5, <2>6 DEF Next
<1> QED BY <1>1, <1>2, PTL DEF Spec

(* No list ever holds a knote whose file is not open on that vnode, for    *)
(* any number of files and vnodes, whatever is unmounted by force.         *)
THEOREM ListsAgree == Spec => []ListsMatch
<1>1. Inv => ListsMatch
  BY DEF Inv
<1> QED BY <1>1, Invariant, PTL

(* Whoever waits on a vnode that is gone has the end of file queued as the *)
(* last event of its knote.                                                *)
THEOREM EndIsTold == Spec => []GoneIsTold
<1>1. Inv => GoneIsTold
  BY DEF Inv
<1> QED BY <1>1, Invariant, PTL

(* kqueue_scan() never has the read filter follow a NULL node.             *)
THEOREM ScanIsSafe == Spec => []ScanNeverFaults
<1>1. Inv => ScanNeverFaults
  BY DEF Inv
<1> QED BY <1>1, Invariant, PTL

(* Every reachable state is well typed; in particular no list holds a      *)
(* knote of a filter that is not for vnodes.                               *)
THEOREM TypeCorrect == Spec => []TypeOK
<1>1. Inv => TypeOK
  BY DEF Inv
<1> QED BY <1>1, Invariant, PTL

-----------------------------------------------------------------------------
(* What stops the kernel, when GoneIsLeftAlone does not hold.              *)

(* A knote whose last event is waiting: its vnode has been reclaimed.      *)
LastWaits(k) ==
  /\ kn[k].hook \in Vnodes \ node
  /\ kn[k].eof /\ kn[k].once /\ kn[k].queued

CauseInv ==
  fault # "none" =>
    fault = "modify" /\ \E k \in Knotes : FilterOf(k) = "read" /\ LastWaits(k)

LEMMA CauseStep == Inv /\ CauseInv /\ [Next]_vars => CauseInv'
<1> SUFFICES ASSUME Inv, CauseInv, [Next]_vars PROVE CauseInv'
  OBVIOUS
<1>1. CASE UNCHANGED vars
  BY <1>1 DEF vars, CauseInv, LastWaits
<1>2. CASE UNCHANGED fault /\ fault = "none"
  BY <1>2 DEF CauseInv
<1>3. ASSUME NEW k \in Knotes, FollowsNull(k), kn[k].hook # NoVnode,
             Panic("modify")
      PROVE  CauseInv'
  <2>1. kn[k].hook \in Vnodes \ node /\ FilterOf(k) = "read"
    BY <1>3, KnoteFields DEF FollowsNull, Inv, TypeOK
  <2>2. kn[k].eof /\ kn[k].once /\ kn[k].queued
    BY <2>1 DEF Inv, GoneIsTold
  <2> QED BY <1>3, <2>1, <2>2 DEF Panic, CauseInv, LastWaits
<1>4. ASSUME NEW k \in Knotes, NEW wants \in BOOLEAN, NEW answer \in BOOLEAN,
             Modify(k, wants, answer)
      PROVE  CauseInv'
  BY <1>2, <1>3, <1>4 DEF Modify, Alive
<1>5. ASSUME NEW k \in Knotes, NEW answer \in BOOLEAN, Deliver(k, answer)
      PROVE  CauseInv'
  <2>1. kn[k].hook # NoVnode /\ ~kn[k].once
    BY <1>5 DEF Deliver, Inv, Hooked
  <2>2. ~FollowsNull(k)
    BY <2>1, KnoteFields DEF FollowsNull, Inv, TypeOK, GoneIsTold
  <2> QED BY <1>2, <1>5, <2>2 DEF Deliver, Alive
<1>6. CASE \/ \E f \in Files, v \in Vnodes : Open(f, v)
           \/ \E f \in Files : Close(f) \/ Registering(f)
           \/ \E v \in Vnodes : Revoke(v)
           \/ \E k \in Knotes : Delete(k) \/ DeliverLast(k)
  BY <1>2, <1>6 DEF Open, Close, Registering, CwfsKqfilter, Revoke, Delete,
                    DeliverLast, Alive
<1> QED BY <1>1, <1>4, <1>5, <1>6 DEF Next, Kevent

(* The kernel stops only when a read knote that is already told of the end *)
(* (cwfs_vnops.c:834-837), and only waits for that to be delivered, is set *)
(* anew by its owner.  Nothing else, and no other filter, does it.         *)
THEOREM OnlyTheToldFault == Spec => []CauseInv
<1>1. Init => CauseInv
  BY DEF Init, CauseInv
<1> QED BY <1>1, CauseStep, Invariant, PTL DEF Spec

-----------------------------------------------------------------------------
(* What becomes of a knote's last event.                                   *)

LastKept ==
  /\ \A k \in Knotes : LastWaits(k) => LastWaits(k)' \/ kn'[k] = NoKnote
  /\ \A v \in node' \ node : klist[v] = {}

(* A vnode with a knote is in use, so Open does not make it anew.          *)
LEMMA ListedInUse ==
  ASSUME Inv, NEW v \in Vnodes
  PROVE  /\ klist[v] # {} => InUse(v)
         /\ \A k \in Knotes : kn[k].hook = v => InUse(v)
<1>1. ASSUME NEW k \in klist[v] PROVE InUse(v)
  <2>1. k \in Knotes /\ k[1] \in Files
    BY DEF Inv, TypeOK, Knotes, AnyFilters
  <2>2. file[k[1]] = v
    BY <2>1 DEF Inv, ListsMatch
  <2> QED BY <2>1, <2>2 DEF InUse
<1>2. ASSUME NEW k \in Knotes, kn[k].hook = v PROVE InUse(v)
  <2>1. k[1] \in Files
    BY DEF Knotes
  <2>2. file[k[1]] = v
    BY <1>2, SentinelAssumption DEF Inv, Hooked
  <2> QED BY <2>1, <2>2 DEF InUse
<1> QED BY <1>1, <1>2

LEMMA LastStep == Inv /\ [Next]_vars => LastKept
<1> SUFFICES ASSUME Inv, [Next]_vars PROVE LastKept
  OBVIOUS
<1>1. ASSUME NEW f \in Files, NEW v \in Vnodes, Open(f, v) PROVE LastKept
  <2>1. kn' = kn /\ node' = node \cup {v} /\ (v \in node \/ ~InUse(v))
    BY <1>1 DEF Open
  <2>2. v \in node \/ (klist[v] = {} /\ \A k \in Knotes : kn[k].hook # v)
    BY <2>1, ListedInUse
  <2> QED BY <2>1, <2>2 DEF LastKept, LastWaits
<1>2. ASSUME NEW f \in Files, Close(f) PROVE LastKept
  <2>1. node' \subseteq node
    BY <1>2 DEF Close
  <2>2. \A k \in Knotes : kn'[k] = kn[k] \/ kn'[k] = NoKnote
    BY <1>2 DEF Close
  <2> QED BY <2>1, <2>2 DEF LastKept, LastWaits
<1>3. ASSUME NEW v \in Vnodes, Revoke(v) PROVE LastKept
  <2>1. node' = node \ {v}
    BY <1>3 DEF Revoke
  <2>2. ASSUME NEW k \in Knotes, LastWaits(k) PROVE LastWaits(k)'
    <3>1. k \notin klist[v]
      BY <1>3, <2>2 DEF Inv, ListsMatch, LastWaits, Revoke
    <3>2. kn'[k] = kn[k]
      BY <1>3, <3>1 DEF Revoke
    <3> QED BY <2>1, <2>2, <3>2 DEF LastWaits
  <2> QED BY <2>1, <2>2 DEF LastKept
<1>4. ASSUME NEW f \in Files, Registering(f) PROVE LastKept
  <2>1. node' = node
    BY <1>4 DEF Registering, CwfsKqfilter
  <2>2. ASSUME NEW k \in Knotes, LastWaits(k) PROVE kn'[k] = kn[k]
    <3>1. kn[k].hook # NoVnode
      BY <2>2, SentinelAssumption DEF LastWaits
    <3> QED BY <1>4, <3>1 DEF Registering, CwfsKqfilter, Inv, TypeOK
  <2> QED BY <2>1, <2>2 DEF LastKept, LastWaits
<1>5. ASSUME NEW n \in Knotes, Kevent(n) PROVE LastKept
  <2>1. node' = node
    BY <1>5 DEF Kevent, Modify, Delete, DeliverLast, Deliver, Panic
  <2>2. \A k \in Knotes \ {n} : kn'[k] = kn[k]
    BY <1>5 DEF Kevent, Modify, Delete, DeliverLast, Deliver, Panic, Inv, TypeOK
  <2>3. ASSUME LastWaits(n)
        PROVE  LastWaits(n)' \/ kn'[n] = NoKnote
    <3>0. kn[n] \in KnoteStates
      BY DEF Inv, TypeOK
    <3>1. ASSUME NEW wants \in BOOLEAN, NEW answer \in BOOLEAN,
                 Modify(n, wants, answer)
          PROVE  LastWaits(n)'
      <4>1. /\ kn'[n].hook = kn[n].hook /\ kn'[n].eof = kn[n].eof
            /\ kn'[n].once = kn[n].once
            /\ kn[n].queued => kn'[n].queued
        BY <3>0, <3>1 DEF Modify, Panic, KnoteStates, Inv, TypeOK
      <4> QED BY <2>1, <2>3, <4>1 DEF LastWaits
    <3>2. CASE Delete(n) \/ DeliverLast(n)
      BY <3>2 DEF Delete, DeliverLast, Inv, TypeOK
    <3>3. ASSUME NEW answer \in BOOLEAN, Deliver(n, answer) PROVE FALSE
      BY <2>3, <3>3 DEF Deliver, LastWaits
    <3> QED BY <1>5, <3>1, <3>2, <3>3 DEF Kevent
  <2> QED BY <2>1, <2>2, <2>3 DEF LastKept, LastWaits
<1>6. CASE UNCHANGED vars
  BY <1>6 DEF vars, LastKept, LastWaits
<1> QED BY <1>1, <1>2, <1>3, <1>4, <1>5, <1>6 DEF Next

(* Once told of the end, a knote stays so, whatever is opened, registered  *)
(* or unmounted meanwhile, until it is delivered or dropped: its vnode is  *)
(* not made anew under it, and a vnode that is made anew has no knotes.    *)
THEOREM LastEventIsKept == Spec => [][LastKept]_vars
<1>1. Inv /\ [Next]_vars => [LastKept]_vars
  BY LastStep
<1> QED BY <1>1, Invariant, PTL DEF Spec

-----------------------------------------------------------------------------
(* The knotes implement WatchLife.  The end-of-file flag alone tells which *)
(* have been told, since all the rest comes with it, and it is never on a  *)
(* knote that is not in use.                                               *)

TellInv ==
  \A k \in Knotes : kn[k].eof =>
    /\ kn[k].hook # NoVnode
    /\ FilterOf(k) # "vnode" => kn[k].once /\ kn[k].queued

LEMMA ToldIsFlag == TellInv => Told = {k \in Knotes : kn[k].eof}
BY DEF TellInv, Told

(* What each kind of step does to knotes.                                  *)
LEMMA KeventKnote ==
  ASSUME Inv, NEW n \in Knotes, Kevent(n)
  PROVE  /\ node' = node
         /\ \A k \in Knotes \ {n} : kn'[k] = kn[k]
         /\ \/ kn'[n] = NoKnote
            \/ /\ kn'[n].hook = kn[n].hook
               /\ kn'[n].eof = kn[n].eof
               /\ kn'[n].once = kn[n].once
               /\ kn[n].once /\ kn[n].queued => kn'[n].queued
<1> USE DEF Panic, Inv, TypeOK
<1>0. kn[n] \in KnoteStates
  OBVIOUS
<1>1. ASSUME NEW wants \in BOOLEAN, NEW answer \in BOOLEAN,
             Modify(n, wants, answer)
      PROVE  /\ node' = node
             /\ \A k \in Knotes \ {n} : kn'[k] = kn[k]
             /\ kn'[n].hook = kn[n].hook
             /\ kn'[n].eof = kn[n].eof
             /\ kn'[n].once = kn[n].once
             /\ kn[n].once /\ kn[n].queued => kn'[n].queued
  BY <1>0, <1>1 DEF Modify, KnoteStates
<1>2. CASE Delete(n) \/ DeliverLast(n)
  BY <1>2 DEF Delete, DeliverLast
<1>3. ASSUME NEW answer \in BOOLEAN, Deliver(n, answer)
      PROVE  /\ node' = node
             /\ \A k \in Knotes \ {n} : kn'[k] = kn[k]
             /\ kn'[n].hook = kn[n].hook
             /\ kn'[n].eof = kn[n].eof
             /\ kn'[n].once = kn[n].once
             /\ kn[n].once /\ kn[n].queued => kn'[n].queued
  BY <1>0, <1>3 DEF Deliver, KnoteStates
<1> QED BY <1>1, <1>2, <1>3 DEF Kevent

LEMMA RegisteredKnote ==
  ASSUME Inv, NEW f \in Files, Registering(f)
  PROVE  /\ node' = node
         /\ \E n \in Knotes :
              /\ kn[n].hook = NoVnode
              /\ kn'[n].hook = file[f] /\ ~kn'[n].eof
              /\ file[f] \in node
              /\ \A k \in Knotes \ {n} : kn'[k] = kn[k]
<1>1. PICK filter \in AnyFilters, once \in BOOLEAN, wants \in BOOLEAN,
           answer \in BOOLEAN : CwfsKqfilter(f, filter, once, wants, answer)
  BY DEF Registering
<1>2. <<f, filter>> \in Knotes
  BY DEF Knotes
<1> QED BY <1>1, <1>2 DEF CwfsKqfilter, Inv, TypeOK

LEMMA TellStep == Inv /\ TellInv /\ [Next]_vars => TellInv'
<1> SUFFICES ASSUME Inv, TellInv, [Next]_vars PROVE TellInv'
  OBVIOUS
<1> USE DEF TellInv
<1>1. ASSUME NEW f \in Files, NEW v \in Vnodes, Open(f, v) PROVE TellInv'
  BY <1>1 DEF Open
<1>2. ASSUME NEW f \in Files, Close(f) PROVE TellInv'
  BY <1>2 DEF Close, NoKnote
<1>3. ASSUME NEW v \in Vnodes, Revoke(v) PROVE TellInv'
  <2>1. \A k \in Knotes :
          kn'[k] = IF k \in klist[v] THEN Revoked(k, kn[k]) ELSE kn[k]
    BY <1>3 DEF Revoke
  <2>2. ASSUME NEW k \in klist[v], k \in Knotes
        PROVE  /\ kn'[k].hook # NoVnode /\ kn'[k].queued
               /\ FilterOf(k) # "vnode" => kn'[k].once
    <3>1. kn[k].hook = v /\ kn[k] \in KnoteStates
      BY <2>2 DEF Inv, TypeOK, ListsMatch
    <3> QED BY <2>1, <2>2, <3>1, RevokedKnote, SentinelAssumption
  <2> QED BY <2>1, <2>2
<1>4. ASSUME NEW f \in Files, Registering(f) PROVE TellInv'
  BY <1>4, RegisteredKnote
<1>5. ASSUME NEW n \in Knotes, Kevent(n) PROVE TellInv'
  BY <1>5, KeventKnote DEF NoKnote
<1>6. CASE UNCHANGED vars
  BY <1>6 DEF vars
<1> QED BY <1>1, <1>2, <1>3, <1>4, <1>5, <1>6 DEF Next

Hook == [k \in Knotes |-> kn[k].hook]

LEMMA WatchStep ==
  Inv /\ Inv' /\ TellInv /\ TellInv' /\ [Next]_vars
    => [Watching!Next]_<<node, Hook, Told>>
<1> SUFFICES ASSUME Inv, Inv', TellInv, TellInv', [Next]_vars
             PROVE  Watching!Next \/ UNCHANGED <<node, Hook, Told>>
  OBVIOUS
<1> DEFINE Flagged == {k \in Knotes : kn[k].eof}
<1>0. Told = Flagged /\ Told' = Flagged'
  BY ToldIsFlag DEF TellInv, Told
<1>00. /\ Hook' \in [Knotes -> Vnodes \cup {NoVnode}]
       /\ \A k \in Knotes : Hook[k] = kn[k].hook /\ Hook'[k] = kn'[k].hook
  BY KnoteFields DEF Inv, TypeOK, Hook
<1>1. ASSUME NEW f \in Files, NEW v \in Vnodes, Open(f, v)
      PROVE  Watching!Begin(v) \/ UNCHANGED <<node, Hook, Told>>
  <2>1. kn' = kn /\ node' = node \cup {v} /\ (v \in node \/ ~InUse(v))
    BY <1>1 DEF Open
  <2>2. UNCHANGED <<Hook, Told>>
    BY <2>1 DEF Hook, Told
  <2>3. CASE v \notin node
    <3>1. \A k \in Knotes : kn[k].hook # v
      BY <2>1, <2>3, ListedInUse
    <3>2. Watching!Of(v) = {}
      BY <3>1 DEF Watching!Of
    <3> QED BY <2>1, <2>2, <2>3, <3>2 DEF Watching!Begin, Hook
  <2>4. CASE v \in node
    BY <2>1, <2>2, <2>4
  <2> QED BY <2>3, <2>4
<1>2. ASSUME node' \subseteq node,
             \A k \in Knotes :
               \/ kn'[k] = NoKnote
               \/ kn'[k].hook = kn[k].hook /\ kn'[k].eof = kn[k].eof,
             \A v \in node \ node', k \in Knotes : kn'[k].hook # v
      PROVE  Watching!Drop
  <2>1. \A k \in Knotes : Hook'[k] \in {Hook[k], NoVnode}
    BY <1>00, <1>2 DEF NoKnote
  <2>2. Told' = {k \in Told : Hook'[k] # NoVnode}
    BY <1>0, <1>00, <1>2 DEF NoKnote, TellInv
  <2> QED BY <1>00, <1>2, <2>1, <2>2 DEF Watching!Drop, Hook
<1>3. ASSUME NEW f \in Files, Close(f) PROVE Watching!Drop
  <2>1. /\ node' \subseteq node
        /\ \A k \in Knotes : kn'[k] = IF k \in Of(f) THEN NoKnote ELSE kn[k]
    BY <1>3 DEF Close
  <2>2. ASSUME NEW v \in node \ node', NEW k \in Knotes, kn'[k].hook = v
        PROVE  FALSE
    <3>1. v = file[f] /\ v \in Vnodes
          /\ \A g \in Files \ {f} : file[g] # v
      BY <1>3 DEF Close, Inv, TypeOK
    <3>2. k \notin Of(f)
      BY <2>1, <2>2, <3>1, SentinelAssumption DEF NoKnote
    <3>3. k[1] \in Files \ {f}
      BY <3>2 DEF Of, Knotes
    <3>4. kn[k].hook = v
      BY <2>1, <2>2, <3>2
    <3> QED BY <3>1, <3>3, <3>4, SentinelAssumption DEF Inv, Hooked
  <2> QED BY <1>2, <2>1, <2>2
<1>4. ASSUME NEW v \in Vnodes, Revoke(v) PROVE Watching!End(v)
  <2>1. \A k \in Knotes : k \in klist[v] <=> kn[k].hook = v
    BY SentinelAssumption DEF Inv, ListsMatch, Hooked
  <2>2. \A k \in Knotes :
          kn'[k] = IF k \in klist[v] THEN Revoked(k, kn[k]) ELSE kn[k]
    BY <1>4 DEF Revoke
  <2>3. \A k \in Knotes : /\ kn'[k].hook = kn[k].hook
                          /\ k \in klist[v] => kn'[k].eof
                          /\ k \notin klist[v] => kn'[k] = kn[k]
    BY <2>2, RevokedKnote DEF Inv, TypeOK
  <2>4. UNCHANGED Hook
    BY <2>3 DEF Hook
  <2>5. Told' = Told \cup {k \in Knotes : Hook[k] = v}
    BY <1>0, <1>00, <2>1, <2>3
  <2> QED BY <1>4, <2>4, <2>5 DEF Revoke, Watching!End, Watching!Of, Hook
<1>5. ASSUME NEW f \in Files, Registering(f)
      PROVE  \E k \in Knotes, v \in Vnodes : Watching!Watch(k, v)
  <2>1. PICK n \in Knotes :
          /\ kn[n].hook = NoVnode
          /\ kn'[n].hook = file[f] /\ ~kn'[n].eof
          /\ file[f] \in node
          /\ \A k \in Knotes \ {n} : kn'[k] = kn[k]
    BY <1>5, RegisteredKnote
  <2>2. node' = node /\ file[f] \in Vnodes
    BY <1>5, <2>1, RegisteredKnote DEF Inv, TypeOK
  <2>3. Told' = Told
    BY <1>0, <2>1 DEF TellInv
  <2>4. PICK v \in Vnodes : v = file[f]
    BY <2>2
  <2>5. Hook' = [Hook EXCEPT ![n] = v]
    BY <2>1, <2>4 DEF Hook
  <2>6. Watching!Watch(n, v)
    BY <1>00, <2>1, <2>2, <2>3, <2>4, <2>5 DEF Watching!Watch, Hook
  <2> QED BY <2>6
<1>6. ASSUME NEW n \in Knotes, Kevent(n) PROVE Watching!Drop
  BY <1>2, <1>6, KeventKnote
<1>7. CASE UNCHANGED vars
  BY <1>7 DEF vars, Hook, Told
<1> QED BY <1>1, <1>3, <1>4, <1>5, <1>6, <1>7 DEF Next, Watching!Next

(* The knotes of cwfs keep the promise of WatchLife: all of a vnode's are  *)
(* told of its end, and only they; who is told stays told; and no vnode    *)
(* comes back under a knote.                                               *)
THEOREM Implements == Spec => WatchSpec
<1>1. Init => TellInv
  BY DEF Init, TellInv, NoKnote
<1>2. Init => Watching!Init
  BY DEF Init, Watching!Init, Told, NoKnote
<1>3. Spec => []TellInv
  BY <1>1, Invariant, TellStep, PTL DEF Spec
<1>4. Inv /\ Inv' /\ TellInv /\ TellInv' /\ [Next]_vars
        => [Watching!Next]_Watching!watchVars
  BY WatchStep DEF Watching!watchVars, Hook
<1> QED BY <1>2, <1>3, <1>4, Invariant, PTL DEF Spec, WatchSpec, Watching!Spec
=============================================================================
