---------------------------- MODULE CwOpenProofs ----------------------------
(***************************************************************************)
(* Proofs about CwOpen, for any finite sets of threads and descriptors and *)
(* any set of files.                                                       *)
(***************************************************************************)
EXTENDS CwOpen, FiniteSetTheorems, TLAPS

(* TypeOK without the sign of the reference counts, which RefsAccounted    *)
(* gives.                                                                  *)
Shape ==
  /\ table \in [Fds -> Files \cup {NoFile}]
  /\ used \subseteq Fds
  /\ refs \in [Files -> Int]
  /\ call \in [Threads -> Calls \cup {Idle}]
  /\ lost \in [Files -> Nat]
  /\ early \in BOOLEAN

-----------------------------------------------------------------------------
(* How the counts change with one slot and with one call.                  *)

LEMMA Counted ==
  ASSUME Shape, NEW f \in Files
  PROVE  /\ Cardinality(Slots(f)) \in Nat
         /\ \A pc : Cardinality(At(pc, f)) \in Nat
<1>1. IsFiniteSet(Slots(f))
  BY FiniteAssumption, FS_Subset DEF Slots
<1>2. ASSUME NEW pc PROVE IsFiniteSet(At(pc, f))
  BY FiniteAssumption, FS_Subset DEF At
<1> QED BY <1>1, <1>2, FS_CardinalityType

LEMMA SlotSet ==
  ASSUME Shape, NEW fd \in Fds, NEW g \in Files \cup {NoFile}, NEW f \in Files,
         table' = [table EXCEPT ![fd] = g]
  PROVE  Cardinality(Slots(f)') =
           Cardinality(Slots(f)) - (IF table[fd] = f THEN 1 ELSE 0) + (IF g = f THEN 1 ELSE 0)
<1> DEFINE S == Slots(f)
<1>1. IsFiniteSet(S)
  BY FiniteAssumption, FS_Subset DEF Slots
<1>2. /\ IsFiniteSet(S \ {fd})
      /\ Cardinality(S \ {fd}) = Cardinality(S) - (IF table[fd] = f THEN 1 ELSE 0)
      /\ Cardinality(S) \in Nat
  <2>1. fd \in S <=> table[fd] = f
    BY DEF Slots
  <2> HIDE DEF S
  <2>2. /\ IsFiniteSet(S \ {fd})
        /\ Cardinality(S \ {fd}) =
             IF fd \in S THEN Cardinality(S) - 1 ELSE Cardinality(S)
    BY <1>1, FS_RemoveElement, Zenon
  <2> QED BY <1>1, <2>1, <2>2, FS_CardinalityType
<1>3. CASE g = f
  <2>1. Slots(f)' = (S \ {fd}) \cup {fd}
    BY <1>3 DEF Slots, Shape
  <2> HIDE DEF S
  <2>2. Cardinality((S \ {fd}) \cup {fd}) = Cardinality(S \ {fd}) + 1
    <3>1. fd \notin S \ {fd}
      OBVIOUS
    <3> DEFINE R == S \ {fd}
    <3>2. IsFiniteSet(R) /\ fd \notin R
      BY <1>2, <3>1
    <3> HIDE DEF R
    <3>3. Cardinality(R \cup {fd}) =
            IF fd \in R THEN Cardinality(R) ELSE Cardinality(R) + 1
      BY <3>2, FS_AddElement, Zenon
    <3> QED BY <3>2, <3>3 DEF R
  <2> QED BY <1>2, <1>3, <2>1, <2>2 DEF S
<1>4. CASE g # f
  <2>1. Slots(f)' = S \ {fd}
    BY <1>4 DEF Slots, Shape
  <2> QED BY <1>2, <1>4, <2>1
<1> QED BY <1>3, <1>4

LEMMA CallSet ==
  ASSUME Shape, NEW t \in Threads, NEW r \in Calls \cup {Idle},
         NEW f \in Files,
         call' = [call EXCEPT ![t] = r]
  PROVE  \A pc :
           Cardinality(At(pc, f)') =
             Cardinality(At(pc, f)) - (IF call[t].pc = pc /\ call[t].fp = f THEN 1 ELSE 0)
                                    + (IF r.pc = pc /\ r.fp = f THEN 1 ELSE 0)
<1> TAKE pc
<1> DEFINE S == At(pc, f)
<1>1. IsFiniteSet(S)
  BY FiniteAssumption, FS_Subset DEF At
<1>2. /\ IsFiniteSet(S \ {t})
      /\ Cardinality(S \ {t}) =
           Cardinality(S) - (IF call[t].pc = pc /\ call[t].fp = f THEN 1 ELSE 0)
      /\ Cardinality(S) \in Nat
  <2>1. t \in S <=> (call[t].pc = pc /\ call[t].fp = f)
    BY DEF At
  <2> HIDE DEF S
  <2>2. /\ IsFiniteSet(S \ {t})
        /\ Cardinality(S \ {t}) =
             IF t \in S THEN Cardinality(S) - 1 ELSE Cardinality(S)
    BY <1>1, FS_RemoveElement, Zenon
  <2> QED BY <1>1, <2>1, <2>2, FS_CardinalityType
<1>3. CASE r.pc = pc /\ r.fp = f
  <2>1. At(pc, f)' = (S \ {t}) \cup {t}
    BY <1>3 DEF At, Shape
  <2> HIDE DEF S
  <2> DEFINE R == S \ {t}
  <2>2. IsFiniteSet(R) /\ t \notin R
    BY <1>2
  <2> HIDE DEF R
  <2>3. Cardinality(R \cup {t}) =
          IF t \in R THEN Cardinality(R) ELSE Cardinality(R) + 1
    BY <2>2, FS_AddElement, Zenon
  <2> QED BY <1>2, <1>3, <2>1, <2>2, <2>3 DEF R, S
<1>4. CASE ~(r.pc = pc /\ r.fp = f)
  <2>1. At(pc, f)' = S \ {t}
    BY <1>4 DEF At, Shape
  <2> QED BY <1>2, <1>4, <2>1
<1> QED BY <1>3, <1>4

(* What the opens hold of a file, and what one of them does.               *)
Held(f) ==
  2 * Cardinality(At("create", f)) + Cardinality(At("address", f))
    + Cardinality(At("connect", f)) + Cardinality(At("wait", f))

Weight(c, f) ==
  2 * (IF c.pc = "create" /\ c.fp = f THEN 1 ELSE 0) + (IF c.pc = "address" /\ c.fp = f THEN 1 ELSE 0)
    + (IF c.pc = "connect" /\ c.fp = f THEN 1 ELSE 0) + (IF c.pc = "wait" /\ c.fp = f THEN 1 ELSE 0)

LEMMA HeldBy ==
  ASSUME Shape, NEW t \in Threads, NEW r \in Calls \cup {Idle},
         NEW f \in Files,
         call' = [call EXCEPT ![t] = r]
  PROVE  /\ Held(f) \in Nat
         /\ Held(f)' = Held(f) - Weight(call[t], f) + Weight(r, f)
<1>1. \A pc : Cardinality(At(pc, f)) \in Nat
  BY Counted
<1>2. \A pc :
        Cardinality(At(pc, f)') =
          Cardinality(At(pc, f)) - (IF call[t].pc = pc /\ call[t].fp = f THEN 1 ELSE 0)
                                 + (IF r.pc = pc /\ r.fp = f THEN 1 ELSE 0)
  BY CallSet
<1> QED BY <1>1, <1>2 DEF Held, Weight

(* No thread but t is counted twice: the weight of a call is what its pc   *)
(* says, for its file.                                                     *)
LEMMA Weights ==
  ASSUME NEW f \in Files
  PROVE  /\ Weight(Idle, f) = 0
         /\ \A c \in Calls :
              Weight(c, f) = IF c.fp # f THEN 0
                             ELSE IF c.pc = "create" THEN 2 ELSE 1
BY DEF Weight, Idle, Calls

-----------------------------------------------------------------------------
(* Reference counts.                                                       *)

Accounted(f) == refs[f] = Cardinality(Slots(f)) + Held(f) + lost[f]

RefsInv == Shape /\ \A f \in Files : Accounted(f)

LEMMA RefsInit == Init => RefsInv
<1> SUFFICES ASSUME Init PROVE RefsInv
  OBVIOUS
<1>1. Shape
  <2>1. early \in BOOLEAN
    BY DEF Init
  <2>2. call \in [Threads -> Calls \cup {Idle}]
    BY DEF Init
  <2> QED BY <2>1, <2>2 DEF Init, Shape
<1>2. ASSUME NEW f \in Files PROVE Accounted(f)
  <2>1. Slots(f) = {}
    BY SentinelAssumption DEF Init, Slots
  <2>2. ASSUME NEW pc \in {"create", "address", "connect", "wait"} PROVE At(pc, f) = {}
    BY DEF Init, At, Idle
  <2>3. Cardinality({}) = 0
    BY FS_EmptySet
  <2>4. refs[f] = 0 /\ lost[f] = 0
    BY DEF Init
  <2> QED BY <2>1, <2>2, <2>3, <2>4 DEF Accounted, Held
<1> QED BY <1>1, <1>2 DEF RefsInv

LEMMA LostLoses ==
  ASSUME Shape, NEW fd \in Fds, lost' = LostWith(fd)
  PROVE  /\ lost' \in [Files -> Nat]
         /\ \A f \in Files : lost'[f] = lost[f] + (IF table[fd] = f THEN 1 ELSE 0)
BY DEF Shape, LostWith

LEMMA RefsStep == RefsInv /\ [Next]_vars => RefsInv'
<1> SUFFICES ASSUME RefsInv, [Next]_vars PROVE RefsInv'
  OBVIOUS
<1> USE DEF RefsInv
<1>0. ASSUME NEW f \in Files
      PROVE  /\ Cardinality(Slots(f)) \in Nat /\ Held(f) \in Nat
             /\ refs[f] \in Int /\ lost[f] \in Nat
             /\ Accounted(f)
  BY Counted DEF Held, Shape
<1>1. ASSUME NEW t \in Threads, NEW fd \in Fds, NEW g \in Files,
             Falloc(t, fd, g)
      PROVE  RefsInv'
  <2> DEFINE r == [pc |-> "create", fd |-> fd, fp |-> g]
  <2>1. r \in Calls /\ call' = [call EXCEPT ![t] = r] /\ call[t] = Idle
    BY <1>1 DEF Falloc, Calls
  <2>2. Shape'
    BY <1>1, <2>1 DEF Falloc, Shape
  <2>3. ASSUME NEW f \in Files PROVE Accounted(f)'
    <3>1. Held(f)' = Held(f) + (IF f = g THEN 2 ELSE 0)
      <4>1. Held(f)' = Held(f) - Weight(call[t], f) + Weight(r, f)
        BY <2>1, HeldBy
      <4>2. /\ Weight(call[t], f) = 0
            /\ Weight(r, f) = IF f = g THEN 2 ELSE 0
        BY <1>0, <2>1, Weights
      <4> QED BY <1>0, <4>1, <4>2
    <3>2. Slots(f)' = Slots(f) /\ lost' = lost
      BY <1>1 DEF Falloc, Slots
    <3>3. refs'[f] = IF f = g THEN refs[f] + 2 ELSE refs[f]
      BY <1>1 DEF Falloc, Shape
    <3> QED BY <1>0, <3>1, <3>2, <3>3 DEF Accounted
  <2> QED BY <2>2, <2>3
<1>2. ASSUME NEW t \in Threads, SocreateFails(t) \/ ConnectFails(t)
      PROVE  RefsInv'
  <2> DEFINE fd == call[t].fd
  <2> DEFINE g == call[t].fp
  <2> DEFINE k == IF call[t].pc = "create" THEN 2 ELSE 1
  <2>1. call[t] \in Calls /\ fd \in Fds /\ g \in Files
    BY <1>2 DEF SocreateFails, ConnectFails, Shape, Idle, Calls
  <2>2. /\ table' = [table EXCEPT ![fd] = NoFile]
        /\ call' = [call EXCEPT ![t] = Idle]
        /\ lost' = LostWith(fd)
        /\ refs' = [refs EXCEPT ![g] = @ - k]
        /\ used' \subseteq used
        /\ UNCHANGED early
    BY <1>2 DEF SocreateFails, ConnectFails
  <2>3. Shape'
    <3>1. lost' \in [Files -> Nat]
      BY <2>1, <2>2, LostLoses
    <3> QED BY <2>1, <2>2, <3>1 DEF Shape
  <2>4. ASSUME NEW f \in Files PROVE Accounted(f)'
    <3>1. Held(f)' = Held(f) - (IF f = g THEN k ELSE 0)
      <4>1. Held(f)' = Held(f) - Weight(call[t], f) + Weight(Idle, f)
        BY <2>1, <2>2, HeldBy
      <4>2. /\ Weight(call[t], f) = IF f = g THEN k ELSE 0
            /\ Weight(Idle, f) = 0
        BY <1>0, <2>1, <2>2, Weights
      <4> QED BY <1>0, <4>1, <4>2
    <3>2. Cardinality(Slots(f)') = Cardinality(Slots(f)) - (IF table[fd] = f THEN 1 ELSE 0)
      <4>1. f # NoFile
        BY SentinelAssumption
      <4>2. Cardinality(Slots(f)') =
              Cardinality(Slots(f)) - (IF table[fd] = f THEN 1 ELSE 0) + (IF NoFile = f THEN 1 ELSE 0)
        BY <2>1, <2>2, SlotSet
      <4> QED BY <1>0, <4>1, <4>2
    <3>3. lost'[f] = lost[f] + (IF table[fd] = f THEN 1 ELSE 0)
      BY <2>1, <2>2, LostLoses
    <3>4. refs'[f] = refs[f] - (IF f = g THEN k ELSE 0)
      BY <1>0, <2>1, <2>2 DEF Shape
    <3> QED BY <1>0, <3>1, <3>2, <3>3, <3>4 DEF Accounted
  <2> QED BY <2>3, <2>4
<1>3. ASSUME NEW t \in Threads, Socreate(t) PROVE RefsInv'
  <2> DEFINE fd == call[t].fd
  <2> DEFINE g == call[t].fp
  <2> DEFINE r == [call[t] EXCEPT !.pc = "address"]
  <2>1. /\ call[t] \in Calls /\ fd \in Fds /\ g \in Files
        /\ call[t].pc = "create"
    BY <1>3 DEF Socreate, Shape, Idle, Calls
  <2>2. r \in Calls /\ r.pc = "address" /\ r.fp = g
    BY <2>1 DEF Calls
  <2>3. /\ table' = [table EXCEPT ![fd] = g]
        /\ call' = [call EXCEPT ![t] = r]
        /\ lost' = LostWith(fd)
        /\ UNCHANGED <<used, refs, early>>
    BY <1>3 DEF Socreate
  <2>4. Shape'
    <3>1. lost' \in [Files -> Nat]
      BY <2>1, <2>3, LostLoses
    <3> QED BY <2>1, <2>2, <2>3, <3>1 DEF Shape
  <2>5. ASSUME NEW f \in Files PROVE Accounted(f)'
    <3>1. Held(f)' = Held(f) - (IF f = g THEN 1 ELSE 0)
      <4>1. Held(f)' = Held(f) - Weight(call[t], f) + Weight(r, f)
        BY <2>2, <2>3, HeldBy
      <4>2. /\ Weight(call[t], f) = IF f = g THEN 2 ELSE 0
            /\ Weight(r, f) = IF f = g THEN 1 ELSE 0
        <5> HIDE DEF r
        <5> QED BY <2>1, <2>2, Weights
      <4> HIDE DEF r
      <4> QED BY <1>0, <4>1, <4>2
    <3>2. Cardinality(Slots(f)') =
            Cardinality(Slots(f)) - (IF table[fd] = f THEN 1 ELSE 0) + (IF g = f THEN 1 ELSE 0)
      BY <2>1, <2>3, SlotSet
    <3>3. lost'[f] = lost[f] + (IF table[fd] = f THEN 1 ELSE 0)
      BY <2>1, <2>3, LostLoses
    <3> QED BY <1>0, <2>3, <3>1, <3>2, <3>3 DEF Accounted
  <2> QED BY <2>4, <2>5
<1>4. ASSUME NEW t \in Threads, Mysockargs(t) \/ Soconnect(t)
      PROVE  RefsInv'
  <2> DEFINE r == [call[t] EXCEPT !.pc = IF @ = "address" THEN "connect" ELSE "wait"]
  <2>1. call[t] \in Calls /\ call[t].pc \in {"address", "connect"}
    BY <1>4 DEF Mysockargs, Soconnect, Shape, Idle, Calls
  <2>2. r \in Calls /\ r.pc \in {"connect", "wait"} /\ r.fp = call[t].fp
    BY <2>1 DEF Calls
  <2>3. /\ call' = [call EXCEPT ![t] = r]
        /\ UNCHANGED <<table, used, refs, lost, early>>
    BY <1>4, <2>1 DEF Mysockargs, Soconnect, Calls
  <2>4. Shape'
    BY <2>2, <2>3 DEF Shape
  <2>5. ASSUME NEW f \in Files PROVE Accounted(f)'
    <3>1. Held(f)' = Held(f) - Weight(call[t], f) + Weight(r, f)
      BY <2>2, <2>3, HeldBy
    <3>2. /\ Weight(call[t], f) = IF call[t].fp = f THEN 1 ELSE 0
          /\ Weight(r, f) = IF call[t].fp = f THEN 1 ELSE 0
      <4> HIDE DEF r
      <4> QED BY <2>1, <2>2, Weights
    <3>3. Slots(f)' = Slots(f)
      BY <2>3 DEF Slots
    <3> HIDE DEF r
    <3> QED BY <1>0, <2>3, <3>1, <3>2, <3>3 DEF Accounted
  <2> QED BY <2>4, <2>5
<1>5. ASSUME NEW t \in Threads, OpenReturns(t) PROVE RefsInv'
  <2> DEFINE g == call[t].fp
  <2>1. call[t] \in Calls /\ call[t].pc = "wait" /\ g \in Files
    BY <1>5 DEF OpenReturns, Shape, Idle, Calls
  <2>2. /\ call' = [call EXCEPT ![t] = Idle]
        /\ lost' = [lost EXCEPT ![g] = @ + 1]
        /\ UNCHANGED <<table, used, refs, early>>
    BY <1>5 DEF OpenReturns
  <2>3. Shape'
    BY <2>1, <2>2 DEF Shape
  <2>4. ASSUME NEW f \in Files PROVE Accounted(f)'
    <3>1. Held(f)' = Held(f) - (IF f = g THEN 1 ELSE 0)
      <4>1. Held(f)' = Held(f) - Weight(call[t], f) + Weight(Idle, f)
        BY <2>1, <2>2, HeldBy
      <4>2. /\ Weight(call[t], f) = IF f = g THEN 1 ELSE 0
            /\ Weight(Idle, f) = 0
        BY <1>0, <2>1, <2>2, Weights
      <4> QED BY <1>0, <4>1, <4>2
    <3>2. Slots(f)' = Slots(f)
      BY <2>2 DEF Slots
    <3>3. lost'[f] = lost[f] + (IF f = g THEN 1 ELSE 0)
      BY <1>0, <2>1, <2>2 DEF Shape
    <3> QED BY <1>0, <2>2, <3>1, <3>2, <3>3 DEF Accounted
  <2> QED BY <2>3, <2>4
<1>6. ASSUME NEW t \in Threads, NEW fd \in Fds, Close(t, fd) PROVE RefsInv'
  <2> DEFINE g == table[fd]
  <2>1. g \in Files
    BY <1>6 DEF Close, Shape
  <2>2. /\ table' = [table EXCEPT ![fd] = NoFile]
        /\ refs' = [refs EXCEPT ![g] = @ - 1]
        /\ used' \subseteq used
        /\ early' \in BOOLEAN
        /\ UNCHANGED <<call, lost>>
    BY <1>6 DEF Close
  <2>3. Shape'
    BY <2>1, <2>2 DEF Shape
  <2>4. ASSUME NEW f \in Files PROVE Accounted(f)'
    <3>1. Held(f)' = Held(f)
      BY <2>2 DEF Held, At
    <3>2. Cardinality(Slots(f)') = Cardinality(Slots(f)) - (IF g = f THEN 1 ELSE 0)
      <4>1. f # NoFile
        BY SentinelAssumption
      <4>2. Cardinality(Slots(f)') =
              Cardinality(Slots(f)) - (IF g = f THEN 1 ELSE 0) + (IF NoFile = f THEN 1 ELSE 0)
        BY <2>2, SlotSet
      <4> QED BY <1>0, <4>1, <4>2
    <3>3. refs'[f] = refs[f] - (IF g = f THEN 1 ELSE 0)
      BY <1>0, <2>1, <2>2 DEF Shape
    <3> QED BY <1>0, <2>2, <3>1, <3>2, <3>3 DEF Accounted
  <2> QED BY <2>3, <2>4
<1>7. CASE UNCHANGED vars
  BY <1>7 DEF vars, Shape, Accounted, Held, At, Slots
<1> QED BY <1>1, <1>2, <1>3, <1>4, <1>5, <1>6, <1>7
        DEF Next, Cwopen, FallocFails

(* The addresses: those of the opens that connect, and the leaked ones.    *)
AddressInv ==
  /\ mbufs \in Nat /\ leaked \in Nat
  /\ mbufs = Cardinality(Connecting) + leaked

LEMMA AddressInit == Init => AddressInv
<1> SUFFICES ASSUME Init PROVE AddressInv
  OBVIOUS
<1>1. Connecting = {}
  BY DEF Init, Connecting, Idle
<1> QED BY <1>1, FS_EmptySet DEF Init, AddressInv

LEMMA AddressStep ==
  Shape /\ AddressInv /\ [Next]_vars => AddressInv'
<1> SUFFICES ASSUME Shape, AddressInv, [Next]_vars PROVE AddressInv'
  OBVIOUS
<1> USE DEF AddressInv, bufVars
<1>0. IsFiniteSet(Connecting) /\ Cardinality(Connecting) \in Nat
  <2>1. IsFiniteSet(Connecting)
    BY FiniteAssumption, FS_Subset DEF Connecting
  <2> QED BY <2>1, FS_CardinalityType
<1>1. ASSUME NEW t \in Threads,
             \/ \E fd \in Fds, g \in Files : Falloc(t, fd, g)
             \/ SocreateFails(t) \/ Socreate(t) \/ Soconnect(t)
             \/ \E fd \in Fds : Close(t, fd)
      PROVE  AddressInv'
  <2>1. Connecting' = Connecting
    BY <1>1 DEF Falloc, SocreateFails, Socreate, Soconnect, Close, Connecting,
                Shape, Idle, Calls
  <2> QED BY <1>1, <2>1
          DEF Falloc, SocreateFails, Socreate, Soconnect, Close
<1>2. ASSUME NEW t \in Threads, Mysockargs(t) PROVE AddressInv'
  <2>1. Connecting' = Connecting \cup {t} /\ t \notin Connecting
    BY <1>2 DEF Mysockargs, Connecting, Shape, Idle, Calls
  <2>2. Cardinality(Connecting') = Cardinality(Connecting) + 1
    BY <1>0, <2>1, FS_AddElement
  <2> QED BY <1>0, <1>2, <2>2 DEF Mysockargs
<1>3. ASSUME NEW t \in Threads, ConnectFails(t) \/ OpenReturns(t)
      PROVE  AddressInv'
  <2>1. Connecting' = Connecting \ {t} /\ t \in Connecting
    BY <1>3 DEF ConnectFails, OpenReturns, Connecting, Shape, Idle, Calls
  <2>2. Cardinality(Connecting') = Cardinality(Connecting) - 1
    BY <1>0, <2>1, FS_RemoveElement
  <2>3. Cardinality(Connecting') \in Nat
    BY <1>0, <2>1, FS_RemoveElement, FS_CardinalityType
  <2> QED BY <1>0, <1>3, <2>2, <2>3 DEF ConnectFails, OpenReturns
<1>4. CASE UNCHANGED vars
  BY <1>4 DEF vars, Connecting
<1> QED BY <1>1, <1>2, <1>3, <1>4 DEF Next, Cwopen, FallocFails

LEMMA AllAlways == Spec => [](RefsInv /\ AddressInv)
<1>1. RefsInv => Shape
  BY DEF RefsInv
<1> QED BY <1>1, RefsInit, RefsStep, AddressInit, AddressStep, PTL DEF Spec

(* However opens, their failures and closes interleave, the reference      *)
(* count of a file is what refers to it and what has been lost, and no     *)
(* address is lost but by opens that succeed.                              *)
THEOREM ReferencesAccounted == Spec => []RefsAccounted
<1>1. RefsInv /\ AddressInv => RefsAccounted
  BY Counted DEF RefsInv, RefsAccounted, Accounted, Held, Shape, AddressInv
<1> QED BY AllAlways, <1>1, PTL

(* So a reference count is never dropped below zero.                       *)
THEOREM TypeCorrect == Spec => []TypeOK
<1>1. RefsInv /\ AddressInv => TypeOK
  <2> SUFFICES ASSUME RefsInv, AddressInv PROVE TypeOK
    OBVIOUS
  <2>1. ASSUME NEW f \in Files PROVE refs[f] \in Nat
    BY Counted DEF RefsInv, Accounted, Held, Shape
  <2> QED BY <2>1 DEF RefsInv, Shape, TypeOK, AddressInv
<1> QED BY AllAlways, <1>1, PTL

-----------------------------------------------------------------------------
(* Descriptors.  A slot that is filled is marked in use, so what falloc()  *)
(* reserves is vacant.                                                     *)

Opening(t) == call[t].pc \in {"create", "address", "connect"}

OwnedInv ==
  /\ Shape
  /\ early \/ /\ \A t \in Threads : Opening(t) => Owns(t)
              /\ \A fd \in Fds : table[fd] # NoFile => fd \in used

LEMMA OwnedStep == RefsInv /\ RefsInv' /\ OwnedInv /\ [Next]_vars => OwnedInv'
<1> SUFFICES ASSUME RefsInv, RefsInv', OwnedInv, [Next]_vars, ~early'
             PROVE  /\ \A t \in Threads : Opening(t)' => Owns(t)'
                    /\ \A fd \in Fds : table'[fd] # NoFile => fd \in used'
  BY DEF OwnedInv, RefsInv
<1>0. /\ ~early
      /\ \A t \in Threads : Opening(t) => Owns(t)
      /\ \A fd \in Fds : table[fd] # NoFile => fd \in used
  BY DEF OwnedInv, RefsInv, Shape, Next, Cwopen, vars, Falloc, FallocFails,
         SocreateFails, Socreate, Mysockargs, ConnectFails, Soconnect,
         OpenReturns, Close
<1>1. ASSUME NEW t \in Threads, NEW fd \in Fds, NEW g \in Files,
             Falloc(t, fd, g)
      PROVE  /\ \A u \in Threads : Opening(u)' => Owns(u)'
             /\ \A d \in Fds : table'[d] # NoFile => d \in used'
  BY <1>0, <1>1 DEF Falloc, Opening, Owns, RefsInv, Shape, Idle, Calls
<1>2. ASSUME NEW t \in Threads, SocreateFails(t) \/ ConnectFails(t)
      PROVE  /\ \A u \in Threads : Opening(u)' => Owns(u)'
             /\ \A d \in Fds : table'[d] # NoFile => d \in used'
  BY <1>0, <1>2 DEF SocreateFails, ConnectFails, Opening, Owns, RefsInv, Shape,
                    Idle, Calls
<1>3. ASSUME NEW t \in Threads, Socreate(t)
      PROVE  /\ \A u \in Threads : Opening(u)' => Owns(u)'
             /\ \A d \in Fds : table'[d] # NoFile => d \in used'
  BY <1>0, <1>3 DEF Socreate, Opening, Owns, RefsInv, Shape, Idle, Calls
<1>4. ASSUME NEW t \in Threads,
             Mysockargs(t) \/ Soconnect(t) \/ OpenReturns(t)
      PROVE  /\ \A u \in Threads : Opening(u)' => Owns(u)'
             /\ \A d \in Fds : table'[d] # NoFile => d \in used'
  BY <1>0, <1>4 DEF Mysockargs, Soconnect, OpenReturns, Opening, Owns, RefsInv, Shape,
                    Idle, Calls
<1>5. ASSUME NEW t \in Threads, NEW fd \in Fds, Close(t, fd)
      PROVE  /\ \A u \in Threads : Opening(u)' => Owns(u)'
             /\ \A d \in Fds : table'[d] # NoFile => d \in used'
  <2>1. \A u \in Threads : Opening(u) => call[u].fd # fd
    BY <1>0, <1>5 DEF Close, Opening, Owns, At
  <2> QED BY <1>0, <1>5, <2>1 DEF Close, Opening, Owns, RefsInv, Shape
<1>6. CASE UNCHANGED vars
  BY <1>0, <1>6 DEF vars, Opening, Owns
<1> QED BY <1>1, <1>2, <1>3, <1>4, <1>5, <1>6 DEF Next, Cwopen, FallocFails

(* Until a descriptor is closed while it is being connected, each open's   *)
(* descriptor is its own.                                                  *)
THEOREM OwnDescriptors == Spec => []DescriptorsOwned
<1>1. Init => OwnedInv
  BY RefsInit DEF Init, OwnedInv, RefsInv, Opening, Idle
<1>2. OwnedInv => DescriptorsOwned
  BY DEF OwnedInv, DescriptorsOwned, Opening
<1> QED BY <1>1, <1>2, RefsInit, RefsStep, OwnedStep, PTL DEF Spec

-----------------------------------------------------------------------------
(* What the counts are for.  Whoever refers to a file is counted, so the   *)
(* file is not free and falloc() does not give it out again.               *)

NoDangling ==
  /\ \A fd \in Fds : table[fd] # NoFile => refs[table[fd]] > 0
  /\ \A t \in Threads : call[t] # Idle => refs[call[t].fp] > 0
  /\ \A f \in Files : lost[f] > 0 => refs[f] > 0

LEMMA ReferredIsCounted == RefsInv => NoDangling
<1> SUFFICES ASSUME RefsInv PROVE NoDangling
  OBVIOUS
<1>0. ASSUME NEW f \in Files
      PROVE  /\ Cardinality(Slots(f)) \in Nat /\ Held(f) \in Nat
             /\ \A pc : Cardinality(At(pc, f)) \in Nat
             /\ lost[f] \in Nat
             /\ refs[f] = Cardinality(Slots(f)) + Held(f) + lost[f]
  BY Counted DEF RefsInv, Held, Accounted, Shape
<1>1. ASSUME NEW S, IsFiniteSet(S), S # {} PROVE Cardinality(S) > 0
  BY <1>1, FS_EmptySet, FS_CardinalityType
<1>2. ASSUME NEW fd \in Fds, table[fd] # NoFile PROVE refs[table[fd]] > 0
  <2>1. table[fd] \in Files
    BY <1>2 DEF RefsInv, Shape
  <2>2. IsFiniteSet(Slots(table[fd])) /\ fd \in Slots(table[fd])
    BY FiniteAssumption, FS_Subset DEF Slots
  <2>3. Cardinality(Slots(table[fd])) > 0
    BY <1>1, <2>2
  <2> QED BY <1>0, <2>1, <2>3
<1>3. ASSUME NEW t \in Threads, call[t] # Idle PROVE refs[call[t].fp] > 0
  <2> DEFINE f == call[t].fp
  <2>1. call[t] \in Calls /\ f \in Files
    BY <1>3 DEF RefsInv, Shape, Calls
  <2>2. IsFiniteSet(At(call[t].pc, f)) /\ t \in At(call[t].pc, f)
    BY FiniteAssumption, FS_Subset DEF At
  <2>3. Cardinality(At(call[t].pc, f)) > 0
    BY <1>1, <2>2
  <2>4. call[t].pc \in {"create", "address", "connect", "wait"}
    BY <2>1 DEF Calls
  <2>5. Held(f) > 0
    BY <1>0, <2>1, <2>3, <2>4 DEF Held
  <2> QED BY <1>0, <2>1, <2>5
<1>4. ASSUME NEW f \in Files, lost[f] > 0 PROVE refs[f] > 0
  BY <1>0, <1>4
<1> QED BY <1>2, <1>3, <1>4 DEF NoDangling

(* No descriptor, open or lost reference ever refers to a file that has    *)
(* been freed and may be given out anew, however opens, their failures and *)
(* closes of descriptors that are still being connected interleave.        *)
THEOREM NothingDangles == Spec => []NoDangling
BY AllAlways, ReferredIsCounted, PTL

(* The leak of cwopen() (cw.c:223): neither a lost reference nor a leaked  *)
(* address is ever given back.                                             *)
LeaksKept ==
  /\ leaked' >= leaked /\ mbufs' >= leaked
  /\ \A f \in Files : lost'[f] >= lost[f]
  /\ \A f \in Files : lost[f] > 0 => refs'[f] > 0

LEMMA LeakStep ==
  RefsInv /\ AddressInv /\ NoDangling' /\ [Next]_vars => LeaksKept
<1> SUFFICES ASSUME RefsInv, AddressInv, NoDangling', [Next]_vars
             PROVE  LeaksKept
  OBVIOUS
<1>1. RefsInv' /\ AddressInv'
  BY RefsStep, AddressStep DEF RefsInv
<1>2. leaked' >= leaked
  BY DEF AddressInv, Next, Cwopen, Falloc, FallocFails, SocreateFails, Socreate,
         Mysockargs, ConnectFails, Soconnect, OpenReturns, Close, bufVars, vars
<1>3. mbufs' >= leaked'
  <2>1. IsFiniteSet(Connecting')
    BY FiniteAssumption, FS_Subset DEF Connecting
  <2>2. Cardinality(Connecting') \in Nat
    BY <2>1, FS_CardinalityType
  <2> QED BY <1>1, <2>2 DEF AddressInv
<1>4. ASSUME NEW f \in Files PROVE lost'[f] >= lost[f]
  <2>0. lost[f] \in Nat
    BY DEF RefsInv, Shape
  <2>1. CASE UNCHANGED lost
    BY <2>0, <2>1
  <2>2. ASSUME NEW fd \in Fds, lost' = LostWith(fd) PROVE lost'[f] >= lost[f]
    BY <2>0, <2>2, LostLoses DEF RefsInv
  <2>3. ASSUME NEW t \in Threads,
               SocreateFails(t) \/ Socreate(t) \/ ConnectFails(t)
        PROVE  lost'[f] >= lost[f]
    <3>1. call[t].fd \in Fds /\ lost' = LostWith(call[t].fd)
      BY <2>3 DEF SocreateFails, Socreate, ConnectFails, RefsInv, Shape, Idle, Calls
    <3> QED BY <2>2, <3>1
  <2>4. ASSUME NEW t \in Threads, OpenReturns(t) PROVE lost'[f] >= lost[f]
    BY <2>0, <2>4 DEF OpenReturns, RefsInv, Shape
  <2> QED BY <2>1, <2>3, <2>4
          DEF Next, Cwopen, Falloc, FallocFails, Mysockargs, Soconnect, Close,
              vars
<1>5. ASSUME NEW f \in Files, lost[f] > 0 PROVE refs'[f] > 0
  <2>1. lost'[f] > 0
    BY <1>1, <1>4, <1>5 DEF RefsInv, Shape
  <2> QED BY <2>1 DEF NoDangling
<1>6. leaked \in Nat /\ leaked' \in Nat /\ mbufs' \in Nat
  BY <1>1 DEF AddressInv
<1> QED BY <1>2, <1>3, <1>4, <1>5, <1>6 DEF LeaksKept

(* Whatever is closed afterwards, a file that an open has lost a reference *)
(* to is never free again, and its address stays allocated: every open     *)
(* that gets as far as connecting costs a file and an mbuf for good.       *)
THEOREM LeaksAreForGood == Spec => [][LeaksKept]_vars
<1>1. RefsInv /\ AddressInv /\ NoDangling' /\ [Next]_vars => [LeaksKept]_vars
  BY LeakStep
<1> QED BY <1>1, AllAlways, NothingDangles, PTL DEF Spec
==============================================================================
