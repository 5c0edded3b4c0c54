---------------------------- MODULE CwEchoProofs ----------------------------
(***************************************************************************)
(* Proofs about CwEcho: the buffer is safe for any number of readers and   *)
(* writers, and as long as no two writes mix the message implements Echo,  *)
(* for any size of the buffer and of the requests.                         *)
(***************************************************************************)
EXTENDS CwEcho, SequenceTheorems, TLAPS

-----------------------------------------------------------------------------
BufferInv == TypeOK /\ CopiesInBuffer /\ Terminated

LEMMA BufferInit == Init => BufferInv
<1> SUFFICES ASSUME Init PROVE BufferInv
  OBVIOUS
<1> USE SizeAssumption DEF Init, Positions
<1>1. Idle \in Requests
  BY DEF Idle, Requests
<1>3. mixed \in BOOLEAN
  BY DEF Init
<1>2. TypeOK
  <2>1. msg \in [Positions -> Bytes \cup {NUL}] /\ len \in Positions
    OBVIOUS
  <2>2. op \in [Procs -> Requests]
    BY <1>1
  <2> QED BY <1>3, <2>1, <2>2 DEF TypeOK
<1> QED BY <1>2 DEF BufferInv, CopiesInBuffer, Terminated, Idle

LEMMA ReadAmountBound ==
  ASSUME TypeOK, NEW off \in 0..BUFFERSIZE + 1, NEW resid \in 0..MaxResid,
         ReadAmount(off, resid) # 0
  PROVE  /\ ReadAmount(off, resid) \in 1..BUFFERSIZE + 1
         /\ off \in Positions
BY SizeAssumption DEF ReadAmount, LesserOf, TypeOK, Positions

LEMMA IdleFacts == Idle \in Requests /\ Idle.pc = "idle"
BY SizeAssumption DEF Idle, Requests, Positions

LEMMA RequestFields ==
  ASSUME NEW r \in Requests
  PROVE  /\ r.off \in Positions /\ r.amt \in 0..BUFFERSIZE + 1
         /\ r.pos \in 0..BUFFERSIZE + 1 /\ r.byte \in Bytes \cup {NUL}
BY DEF Requests

LEMMA Advance ==
  ASSUME NEW r \in Requests, r.pos < r.amt, r.pos + 1 # r.amt
  PROVE  LET next == [r EXCEPT !.pos = @ + 1]
         IN  /\ next \in Requests /\ next.pc = r.pc /\ next.off = r.off
             /\ next.amt = r.amt /\ next.byte = r.byte
             /\ next.pos = r.pos + 1 /\ next.pos < next.amt
<1>1. r.pos + 1 \in 0..BUFFERSIZE + 1 /\ r.pos + 1 < r.amt
  BY SizeAssumption, RequestFields
<1> QED BY <1>1 DEF Requests

LEMMA BufferStep == BufferInv /\ [Next]_vars => BufferInv'
<1> SUFFICES ASSUME BufferInv, [Next]_vars PROVE BufferInv'
  OBVIOUS
<1> USE SizeAssumption, NulAssumption, WritersAssumption
    DEF BufferInv, TypeOK, CopiesInBuffer, Terminated, Quiet, Positions
<1>1. ASSUME NEW p \in Procs, NEW off \in 0..BUFFERSIZE + 1,
             NEW resid \in 0..MaxResid, CwRead(p, off, resid)
      PROVE  BufferInv'
  <2>1. op'[p] \in Requests /\ op'[p].pc # "write"
        /\ (op'[p].pc # "idle" => op'[p].pos < op'[p].amt)
    BY <1>1, ReadAmountBound DEF CwRead, Idle, Requests
  <2> QED BY <1>1, <2>1 DEF CwRead
<1>2. ASSUME NEW p \in Procs, CopyOut(p) PROVE BufferInv'
  <2>1. op[p] \in Requests /\ op[p].pc = "read" /\ op[p].pos < op[p].amt
    BY <1>2 DEF CopyOut
  <2>3. UNCHANGED <<msg, len, mixed>>
    BY <1>2 DEF CopyOut
  <2>4. CASE op[p].pos + 1 = op[p].amt
    <3>1. op' = [op EXCEPT ![p] = Idle]
      BY <1>2, <2>4 DEF CopyOut
    <3> QED BY <2>1, <2>3, <3>1, IdleFacts
  <2>5. CASE op[p].pos + 1 # op[p].amt
    <3> DEFINE next == [op[p] EXCEPT !.pos = @ + 1]
    <3>1. op' = [op EXCEPT ![p] = next]
      BY <1>2, <2>5 DEF CopyOut
    <3>2. next \in Requests /\ next.pc = "read" /\ next.pos < next.amt
      BY <2>1, <2>5, Advance
    <3> HIDE DEF next
    <3> QED BY <1>2, <2>3, <3>1, <3>2 DEF CopyOut
  <2> QED BY <2>4, <2>5
<1>3. ASSUME NEW p \in Procs, CopyOutFails(p) PROVE BufferInv'
  <2>1. op'[p] \in Requests /\ op'[p].pc = "idle"
    BY <1>3 DEF CopyOutFails, Idle, Requests
  <2> QED BY <1>3, <2>1 DEF CopyOutFails
<1>4. ASSUME NEW p \in Writers, NEW off \in Positions,
             NEW resid \in 0..MaxResid, NEW byte \in Bytes,
             CwWrite(p, off, resid, byte)
      PROVE  BufferInv'
  <2> DEFINE base == IF off = 0 THEN 0 ELSE len
             amt == LesserOf(resid, BUFFERSIZE - base)
  <2>1. base = off
    <3>1. off = 0 \/ off = len
      BY <1>4 DEF CwWrite
    <3> QED BY <3>1
  <2>2. amt \in 0..BUFFERSIZE - off
    BY <2>1 DEF LesserOf
  <2>5. mixed' \in BOOLEAN
    BY <1>4 DEF CwWrite, Mixes
  <2>3. CASE amt = 0
    <3>1. Terminate(msg, off) /\ UNCHANGED op
      BY <1>4, <2>3 DEF CwWrite
    <3> QED BY <2>5, <3>1 DEF Terminate
  <2>4. CASE amt # 0
    <3>1. /\ op' = [op EXCEPT ![p] = [pc |-> "write", off |-> off,
                      amt |-> amt, pos |-> 0, byte |-> byte]]
          /\ UNCHANGED msg /\ len' = off
      BY <1>4, <2>1, <2>4 DEF CwWrite
    <3>2. op'[p] \in Requests
      BY <2>2, <3>1 DEF Requests
    <3> HIDE DEF amt, base
    <3> QED BY <2>2, <2>4, <2>5, <3>1, <3>2
  <2> QED BY <2>3, <2>4
<1>5. ASSUME NEW p \in Writers, CopyIn(p) PROVE BufferInv'
  <2>1. op[p] \in Requests /\ op[p].pc = "write"
        /\ op[p].off + op[p].amt <= BUFFERSIZE /\ op[p].pos < op[p].amt
    BY <1>5 DEF CopyIn
  <2>2. op[p].off + op[p].pos \in 0..BUFFERSIZE - 1
        /\ op[p].off + op[p].amt \in Positions
    BY <2>1 DEF Requests
  <2>3. CASE op[p].pos + 1 = op[p].amt
    <3>1. op' = [op EXCEPT ![p] = Idle]
      BY <1>5, <2>3 DEF CopyIn
    <3>2. op[p].byte \in Bytes \cup {NUL} /\ op[p].off + op[p].amt \in Nat
      BY <2>1, <2>2, RequestFields
    <3>3. /\ len' = op[p].off + op[p].amt
          /\ msg' = [msg EXCEPT ![op[p].off + op[p].pos] = op[p].byte,
                                ![op[p].off + op[p].amt] = NUL]
          /\ UNCHANGED mixed
      BY <1>5, <2>3 DEF CopyIn, Terminate
    <3>4. msg' \in [Positions -> Bytes \cup {NUL}] /\ msg'[len'] = NUL
          /\ msg'[BUFFERSIZE] = NUL
      BY <2>2, <3>2, <3>3
    <3> QED BY <2>2, <3>1, <3>3, <3>4, IdleFacts
  <2>4. CASE op[p].pos + 1 # op[p].amt
    <3> DEFINE next == [op[p] EXCEPT !.pos = @ + 1]
    <3>1. /\ op' = [op EXCEPT ![p] = next]
          /\ msg' = [msg EXCEPT ![op[p].off + op[p].pos] = op[p].byte]
          /\ UNCHANGED <<len, mixed>>
      BY <1>5, <2>4 DEF CopyIn
    <3>2. /\ next \in Requests /\ next.pc = "write" /\ next.pos < next.amt
          /\ next.off + next.amt <= BUFFERSIZE
      BY <2>1, <2>4, Advance
    <3>3. op[p].byte \in Bytes \cup {NUL}
      BY <2>1, RequestFields
    <3> HIDE DEF next
    <3>4. msg' \in [Positions -> Bytes \cup {NUL}] /\ msg'[BUFFERSIZE] = NUL
      BY <2>2, <3>1, <3>3
    <3> QED BY <3>1, <3>2, <3>4
  <2> QED BY <2>3, <2>4
<1>6. ASSUME NEW p \in Writers, NEW done \in Positions, CopyInFails(p, done)
      PROVE  BufferInv'
  <2>1. op[p] \in Requests /\ op[p].off + op[p].amt <= BUFFERSIZE
        /\ op[p].pos < op[p].amt
    BY <1>6 DEF CopyInFails
  <2>2. op[p].off + done \in Positions
    BY <1>6, <2>1 DEF CopyInFails, Requests
  <2>3. op'[p] \in Requests /\ op'[p].pc = "idle"
    BY <1>6 DEF CopyInFails, Idle, Requests
  <2> QED BY <1>6, <2>2, <2>3 DEF CopyInFails, Terminate
<1>7. CASE UNCHANGED vars
  BY <1>7 DEF vars
<1> QED BY <1>1, <1>2, <1>3, <1>4, <1>5, <1>6, <1>7
        DEF Next, Reading, Writing

LEMMA BufferAlways == Spec => []BufferInv
BY BufferInit, BufferStep, PTL DEF Spec

(* Every variable keeps its type.                                          *)
THEOREM TypeCorrect == Spec => []TypeOK
BY BufferAlways, PTL DEF BufferInv

(* No copy by any process reaches past the message buffer, however the     *)
(* writers interleave and wherever their copies fail.                      *)
THEOREM BufferSafe == Spec => []CopiesInBuffer
BY BufferAlways, PTL DEF BufferInv

(* Once all writers are done the message is terminated at its length.      *)
THEOREM MessageTerminated == Spec => []Terminated
BY BufferAlways, PTL DEF BufferInv

-----------------------------------------------------------------------------
(* Writes that do not mix.  While one copies, the recorded length stays    *)
(* where its request began, and the bytes it has copied lie beyond that.   *)

CopiedInv ==
  \A p \in Writers : op[p].pc = "write" =>
    /\ len = op[p].off
    /\ op[p].byte \in Bytes
    /\ \A i \in Positions :
         op[p].off <= i /\ i < op[p].off + op[p].pos => msg[i] = op[p].byte

NoGapsEver == \A i \in Positions : i < len => msg[i] \in Bytes

OnlyWritersWrite == \A p \in Procs : op[p].pc = "write" => p \in Writers

OneWrites ==
  \A p, q \in Procs : op[p].pc = "write" /\ op[q].pc = "write" => p = q

UnmixedInv == ~mixed => CopiedInv /\ NoGapsEver /\ OneWrites

TextInv == BufferInv /\ OnlyWritersWrite /\ UnmixedInv

LEMMA TextInit == Init => TextInv
<1> SUFFICES ASSUME Init PROVE TextInv
  OBVIOUS
<1>1. CopiedInv /\ NoGapsEver /\ OnlyWritersWrite /\ OneWrites
  BY SizeAssumption, WritersAssumption
  DEF Init, CopiedInv, NoGapsEver, OnlyWritersWrite, OneWrites, Idle, Positions
<1> QED BY <1>1, BufferInit DEF TextInv, UnmixedInv

LEMMA OthersKeep ==
  ASSUME TextInv, NEW p \in Writers, Writing(p)
  PROVE  \A q \in Procs \ {p} : op'[q] = op[q]
<1>1. op \in [Procs -> Requests]
  BY DEF TextInv, BufferInv, TypeOK
<1> QED BY <1>1 DEF Writing, CwWrite, CopyIn, CopyInFails

(* A step of a write that does not mix with another.                       *)
Alone(p) ==
  /\ ~mixed
  /\ \A q \in Procs \ {p} : op[q].pc # "write" /\ op'[q] = op[q]

LEMMA StepsAlone ==
  ASSUME TextInv, NEW p \in Writers, Writing(p), ~mixed'
  PROVE  Alone(p)
<1>1. ~mixed
  BY DEF Writing, CwWrite, CopyIn, CopyInFails, Mixes
<1>2. ASSUME NEW off, NEW resid, NEW byte, CwWrite(p, off, resid, byte)
      PROVE  \A q \in Procs \ {p} : op[q].pc # "write"
  BY <1>2 DEF CwWrite, Mixes
<1>3. ASSUME op[p].pc = "write"
      PROVE  \A q \in Procs \ {p} : op[q].pc # "write"
  <2>1. OneWrites
    BY <1>1 DEF TextInv, UnmixedInv
  <2>2. p \in Procs
    BY WritersAssumption
  <2> QED BY <1>3, <2>1, <2>2 DEF OneWrites
<1>5. CopyIn(p) \/ (\E done \in Positions : CopyInFails(p, done))
        => op[p].pc = "write"
  BY DEF CopyIn, CopyInFails
<1>4. \A q \in Procs \ {p} : op[q].pc # "write"
  BY <1>2, <1>3, <1>5 DEF Writing
<1> QED BY <1>1, <1>4, OthersKeep DEF Alone

(* The steps of such a write and what they do to the text.  Each either    *)
(* leaves it alone, or cuts it off at the request's offset, or adds bytes. *)
Extends(n) ==
  /\ len' = len + n
  /\ len' <= BUFFERSIZE
  /\ \A i \in Positions : i < len => msg'[i] = msg[i]
  /\ \A i \in Positions : len <= i /\ i < len' => msg'[i] \in Bytes

(* One more byte of a copy, without and with the terminator after it.      *)
LEMMA ByteCopied ==
  ASSUME NEW f \in [Positions -> Bytes \cup {NUL}], NEW b,
         NEW off \in Positions, NEW pos \in Nat, off + pos < BUFFERSIZE,
         \A i \in Positions : off <= i /\ i < off + pos => f[i] = b,
         NEW g, \/ g = [f EXCEPT ![off + pos] = b]
                \/ g = [f EXCEPT ![off + pos] = b, ![off + pos + 1] = NUL]
  PROVE  /\ \A i \in Positions : i < off => g[i] = f[i]
         /\ \A i \in Positions :
              off <= i /\ i < off + pos + 1 => g[i] = b
<1>1. off + pos \in Positions /\ off + pos + 1 \in Positions
  BY SizeAssumption DEF Positions
<1>2. \A i \in Positions : i # off + pos /\ i # off + pos + 1 => g[i] = f[i]
  BY <1>1
<1>3. g[off + pos] = b
  BY <1>1, SizeAssumption DEF Positions
<1> QED BY <1>1, <1>2, <1>3, SizeAssumption DEF Positions

(* What the invariant says of the lone writer's own request.               *)
LEMMA WriterFacts ==
  ASSUME TextInv, NEW p \in Writers, Alone(p)
  PROVE  /\ p \in Procs /\ op \in [Procs -> Requests]
         /\ msg \in [Positions -> Bytes \cup {NUL}] /\ len \in Positions
         /\ CopiedInv' <=> (op'[p].pc = "write" =>
              /\ len' = op'[p].off
              /\ op'[p].byte \in Bytes
              /\ \A i \in Positions :
                   op'[p].off <= i /\ i < op'[p].off + op'[p].pos
                     => msg'[i] = op'[p].byte)
<1>1. p \in Procs /\ \A q \in Writers \ {p} : op'[q].pc # "write"
  BY WritersAssumption DEF Alone
<1> QED BY <1>1 DEF TextInv, BufferInv, TypeOK, CopiedInv

LEMMA WritingFacts ==
  ASSUME TextInv, NEW p \in Writers, Alone(p), op[p].pc = "write"
  PROVE  /\ op[p] \in Requests
         /\ op[p].off \in Positions /\ op[p].amt \in Nat
         /\ op[p].pos \in Nat /\ op[p].pos < op[p].amt
         /\ op[p].off + op[p].amt <= BUFFERSIZE
         /\ len = op[p].off /\ op[p].byte \in Bytes
         /\ \A i \in Positions :
              op[p].off <= i /\ i < op[p].off + op[p].pos
                => msg[i] = op[p].byte
<1>1. p \in Procs /\ op[p] \in Requests
  BY WriterFacts
<1>2. /\ op[p].pos < op[p].amt /\ op[p].off + op[p].amt <= BUFFERSIZE
      /\ len = op[p].off /\ op[p].byte \in Bytes
      /\ \A i \in Positions :
           op[p].off <= i /\ i < op[p].off + op[p].pos
             => msg[i] = op[p].byte
  BY <1>1 DEF TextInv, BufferInv, CopiesInBuffer, UnmixedInv, CopiedInv, Alone
<1>3. op[p].off \in Positions /\ op[p].amt \in Nat /\ op[p].pos \in Nat
  BY <1>1, RequestFields
<1> QED BY <1>1, <1>2, <1>3

WriterGoal == /\ CopiedInv' /\ NoGapsEver'
              /\ len' = 0 \/ \E n \in 0..BUFFERSIZE : Extends(n)

LEMMA ExtendsKeepsText ==
  ASSUME TextInv, ~mixed, NEW n \in 0..BUFFERSIZE, Extends(n)
  PROVE  NoGapsEver'
BY SizeAssumption
DEF TextInv, UnmixedInv, BufferInv, TypeOK, NoGapsEver, Extends, Positions

LEMMA CutKeepsText == len' = 0 => NoGapsEver'
BY DEF NoGapsEver, Positions

LEMMA StartStep ==
  ASSUME TextInv, NEW p \in Writers, Alone(p), NEW off \in Positions,
         NEW resid \in 0..MaxResid, NEW byte \in Bytes,
         CwWrite(p, off, resid, byte)
  PROVE  WriterGoal
<1> DEFINE base == IF off = 0 THEN 0 ELSE len
           amt == LesserOf(resid, BUFFERSIZE - base)
<1>1. base = off /\ (off = 0 \/ off = len) /\ op[p].pc = "idle"
  <2>1. (off = 0 \/ off = len) /\ op[p].pc = "idle"
    BY DEF CwWrite
  <2> QED BY <2>1
<1>2. CASE amt = 0
  <2>1. Terminate(msg, off) /\ UNCHANGED op
    BY <1>2 DEF CwWrite
  <2>2. CopiedInv'
    BY <1>1, <2>1, WriterFacts
  <2>3. len' = off /\ (off = len => Extends(0))
    BY <2>1, WriterFacts, SizeAssumption DEF Terminate, Extends, Positions
  <2> QED BY <1>1, <2>2, <2>3, ExtendsKeepsText, CutKeepsText, SizeAssumption
          DEF WriterGoal, Alone
<1>3. CASE amt # 0
  <2>1. /\ op' = [op EXCEPT ![p] = [pc |-> "write", off |-> off,
                    amt |-> amt, pos |-> 0, byte |-> byte]]
        /\ UNCHANGED msg /\ len' = off
    BY <1>1, <1>3 DEF CwWrite
  <2> HIDE DEF amt, base
  <2>2. CopiedInv'
    BY <2>1, WriterFacts DEF Positions
  <2>3. off = len => Extends(0)
    BY <2>1, WriterFacts, SizeAssumption DEF Extends, Positions
  <2> QED BY <1>1, <2>1, <2>2, <2>3, ExtendsKeepsText, CutKeepsText,
             SizeAssumption
          DEF WriterGoal, Alone
<1> QED BY <1>2, <1>3

LEMMA CopyStep ==
  ASSUME TextInv, NEW p \in Writers, Alone(p), CopyIn(p)
  PROVE  WriterGoal
<1> DEFINE off == op[p].off
           amt == op[p].amt
           pos == op[p].pos
           byte == op[p].byte
<1>1. op[p].pc = "write"
  BY DEF CopyIn
<1>2. /\ off \in Positions /\ amt \in Nat /\ pos \in Nat /\ pos < amt
      /\ off + amt <= BUFFERSIZE /\ len = off /\ byte \in Bytes
      /\ \A i \in Positions : off <= i /\ i < off + pos => msg[i] = byte
  BY <1>1, WritingFacts
<1>3. off + pos < BUFFERSIZE
  BY <1>2, SizeAssumption DEF Positions
<1>4. msg \in [Positions -> Bytes \cup {NUL}] /\ len \in Positions
  BY WriterFacts
<1>5. CASE pos + 1 = amt
  <2>1. len' = off + amt /\ op' = [op EXCEPT ![p] = Idle]
    BY <1>5 DEF CopyIn, Terminate
  <2>2. msg' = [msg EXCEPT ![off + pos] = byte, ![off + amt] = NUL]
    BY <1>5 DEF CopyIn, Terminate
  <2>3. CopiedInv'
    BY <2>1, WriterFacts, IdleFacts
  <2> HIDE DEF off, amt, pos, byte
  <2>4. off + amt = off + pos + 1 /\ amt \in 0..BUFFERSIZE
    BY <1>2, <1>5, SizeAssumption DEF Positions
  <2>5. msg' = [msg EXCEPT ![off + pos] = byte, ![off + pos + 1] = NUL]
    BY <2>2, <2>4
  <2>6. /\ \A i \in Positions : i < off => msg'[i] = msg[i]
        /\ \A i \in Positions : off <= i /\ i < off + pos + 1 => msg'[i] = byte
    BY <1>2, <1>3, <1>4, <2>5, ByteCopied
  <2>7. Extends(amt)
    BY <1>2, <2>1, <2>4, <2>6 DEF Extends
  <2> QED BY <2>3, <2>4, <2>7, ExtendsKeepsText DEF WriterGoal, Alone
<1>6. CASE pos + 1 # amt
  <2> DEFINE next == [op[p] EXCEPT !.pos = @ + 1]
  <2>1. op' = [op EXCEPT ![p] = next] /\ len' = len
    BY <1>6 DEF CopyIn
  <2>2. msg' = [msg EXCEPT ![off + pos] = byte]
    BY <1>6 DEF CopyIn
  <2>3. next.off = off /\ next.byte = byte /\ next.pos = pos + 1
    BY <1>1, <1>2, <1>6, WritingFacts, Advance
  <2>4. op'[p] = next
    BY <2>1, WriterFacts
  <2> HIDE DEF off, amt, pos, byte, next
  <2>5. /\ \A i \in Positions : i < off => msg'[i] = msg[i]
        /\ \A i \in Positions : off <= i /\ i < off + pos + 1 => msg'[i] = byte
    BY <1>2, <1>3, <1>4, <2>2, ByteCopied
  <2>6. off + (pos + 1) = off + pos + 1
    BY <1>2 DEF Positions
  <2>7. CopiedInv'
    BY <1>2, <2>1, <2>3, <2>4, <2>5, <2>6, WriterFacts
  <2>8. Extends(0)
    BY <1>2, <1>4, <2>1, <2>5 DEF Extends, Positions
  <2> QED BY <2>7, <2>8, ExtendsKeepsText, SizeAssumption DEF WriterGoal, Alone
<1> QED BY <1>5, <1>6

LEMMA FailStep ==
  ASSUME TextInv, NEW p \in Writers, Alone(p), NEW done \in Positions,
         CopyInFails(p, done)
  PROVE  WriterGoal
<1> DEFINE off == op[p].off
           pos == op[p].pos
           byte == op[p].byte
<1>1. op[p].pc = "write" /\ done <= pos
  BY DEF CopyInFails
<1>2. /\ off \in Positions /\ pos \in Nat
      /\ off + pos < BUFFERSIZE /\ len = off /\ byte \in Bytes
      /\ \A i \in Positions : off <= i /\ i < off + pos => msg[i] = byte
  BY <1>1, WritingFacts, SizeAssumption DEF Positions
<1>3. msg \in [Positions -> Bytes \cup {NUL}]
  BY WriterFacts
<1>4. /\ len' = off + done /\ msg' = [msg EXCEPT ![off + done] = NUL]
      /\ op' = [op EXCEPT ![p] = Idle]
  BY DEF CopyInFails, Terminate
<1>5. CopiedInv'
  BY <1>4, WriterFacts, IdleFacts
<1> HIDE DEF off, pos, byte
<1>6. Extends(done)
  BY <1>1, <1>2, <1>3, <1>4, SizeAssumption DEF Extends, Positions
<1> QED BY <1>5, <1>6, ExtendsKeepsText DEF WriterGoal, Alone, Positions

LEMMA WriterStep ==
  ASSUME TextInv, NEW p \in Writers, Alone(p), Writing(p)
  PROVE  WriterGoal
BY StartStep, CopyStep, FailStep DEF Writing

LEMMA ReaderStep ==
  ASSUME TextInv, NEW p \in Procs, Reading(p)
  PROVE  /\ UNCHANGED <<msg, len, mixed>>
         /\ op'[p].pc # "write"
         /\ \A q \in Procs \ {p} : op'[q] = op[q]
<1>1. op \in [Procs -> Requests]
  BY DEF TextInv, BufferInv, TypeOK
<1>2. ASSUME NEW off \in 0..BUFFERSIZE + 1, NEW resid \in 0..MaxResid,
             CwRead(p, off, resid)
      PROVE  /\ UNCHANGED <<msg, len, mixed>> /\ op'[p].pc # "write"
             /\ \A q \in Procs \ {p} : op'[q] = op[q]
  BY <1>1, <1>2 DEF CwRead, Idle
<1>3. CASE CopyOutFails(p)
  BY <1>1, <1>3 DEF CopyOutFails, Idle
<1>4. CASE CopyOut(p)
  <2>1. CASE op[p].pos + 1 = op[p].amt
    BY <1>1, <1>4, <2>1 DEF CopyOut, Idle
  <2>2. CASE op[p].pos + 1 # op[p].amt
    <3> DEFINE next == [op[p] EXCEPT !.pos = @ + 1]
    <3>1. op' = [op EXCEPT ![p] = next] /\ UNCHANGED <<msg, len, mixed>>
      BY <1>4, <2>2 DEF CopyOut
    <3>2. next.pc = op[p].pc
      BY <1>1 DEF Requests
    <3>3. op[p].pc = "read"
      BY <1>4 DEF CopyOut
    <3> QED BY <1>1, <3>1, <3>2, <3>3
  <2> QED BY <2>1, <2>2
<1> QED BY <1>2, <1>3, <1>4 DEF Reading

(* Any step, mixing or not.                                                *)
TextGoal ==
  /\ OnlyWritersWrite' /\ UnmixedInv'
  /\ mixed => mixed'
  /\ \/ mixed'
     \/ UNCHANGED <<msg, len>>
     \/ len' = 0
     \/ \E n \in 0..BUFFERSIZE : Extends(n)

LEMMA TextStep == TextInv /\ [Next]_vars => TextInv' /\ TextGoal
<1> SUFFICES ASSUME TextInv, [Next]_vars PROVE TextGoal
  BY BufferStep DEF TextInv, TextGoal
<1>1. ASSUME NEW p \in Procs, Reading(p) PROVE TextGoal
  BY <1>1, ReaderStep, WritersAssumption
  DEF TextGoal, TextInv, UnmixedInv, CopiedInv, NoGapsEver, OnlyWritersWrite, OneWrites
<1>2. ASSUME NEW p \in Writers, Writing(p) PROVE TextGoal
  <2>1. OnlyWritersWrite'
    BY <1>2, OthersKeep, WritersAssumption DEF TextInv, OnlyWritersWrite
  <2>2. CASE mixed'
    BY <2>1, <2>2 DEF TextGoal, UnmixedInv
  <2>3. CASE ~mixed'
    <3>1. Alone(p) /\ WriterGoal
      BY <1>2, <2>3, StepsAlone, WriterStep
    <3>2. OneWrites'
      BY <3>1 DEF Alone, OneWrites
    <3>3. ~mixed
      BY <3>1 DEF Alone
    <3> QED BY <2>1, <3>1, <3>2, <3>3 DEF TextGoal, UnmixedInv, WriterGoal
  <2> QED BY <2>2, <2>3
<1>3. CASE UNCHANGED vars
  BY <1>3 DEF vars, TextGoal, TextInv, UnmixedInv, CopiedInv, NoGapsEver,
              OnlyWritersWrite, OneWrites
<1> QED BY <1>1, <1>2, <1>3 DEF Next

(* Until two writes mix, the message has no gaps.                          *)
THEOREM UnmixedLeavesNoGaps == Spec => []NoGapsUnmixed
<1>1. TextInv => NoGapsUnmixed
  BY NulAssumption, SizeAssumption
  DEF TextInv, UnmixedInv, BufferInv, TypeOK, NoGapsEver, NoGapsUnmixed, NoGaps,
      Positions
<1> QED BY <1>1, TextInit, TextStep, PTL DEF Spec

-----------------------------------------------------------------------------
(* Implementation of Echo.                                                 *)

LEMMA TextIsSeq ==
  ASSUME TextInv, ~mixed
  PROVE  Text \in Seq(Bytes) /\ Len(Text) = len
<1>1. len \in 0..BUFFERSIZE
  BY DEF TextInv, BufferInv, TypeOK, Positions
<1>2. \A i \in 1..len : msg[i - 1] \in Bytes
  BY <1>1, SizeAssumption DEF TextInv, UnmixedInv, NoGapsEver, Positions
<1> QED BY <1>1, <1>2 DEF Text

LEMMA ExtendImplements ==
  ASSUME TextInv, TextInv', ~mixed, ~mixed', NEW n \in 0..BUFFERSIZE,
         Extends(n), n # 0
  PROVE  EchoText!Extend
<1> DEFINE s == [k \in 1..n |-> msg'[len + k - 1]]
<1>1. /\ len \in 0..BUFFERSIZE /\ len' = len + n /\ len' <= BUFFERSIZE
  BY DEF TextInv, BufferInv, TypeOK, Positions, Extends
<1>2. s \in [1..n -> Bytes]
  BY <1>1, SizeAssumption DEF Extends, Positions
<1>3. Text \in Seq(Bytes) /\ Len(Text) = len /\ s \in Seq(Bytes) /\ Len(s) = n
  BY <1>2, TextIsSeq
<1>4. Text' = Text \o s
  <2>1. \A i \in 1..len : msg'[i - 1] = msg[i - 1]
    BY <1>1, SizeAssumption DEF Extends, Positions
  <2>2. Text' = [i \in 1..len + n |-> msg'[i - 1]]
    BY <1>1 DEF Text
  <2>3. Text \o s = [i \in 1..len + n |->
                      IF i <= len THEN Text[i] ELSE s[i - len]]
    <3> HIDE DEF s
    <3>1. Text \o s \in Seq(Bytes) /\ Len(Text \o s) = len + n
      BY <1>1, <1>3, ConcatProperties
    <3>2. \A i \in 1..len + n :
            (Text \o s)[i] = IF i <= len THEN Text[i] ELSE s[i - len]
      BY <1>1, <1>3, ConcatProperties
    <3> DEFINE t == [i \in 1..len + n |->
                       IF i <= len THEN Text[i] ELSE s[i - len]]
    <3>3. \A i \in 1..len + n : t[i] \in Bytes
      <4> TAKE i \in 1..len + n
      <4>1. t[i] = (Text \o s)[i]
        BY <3>2
      <4>2. (Text \o s)[i] \in Bytes
        BY <3>1, ElementOfSeq
      <4> QED BY <4>1, <4>2
    <3>4. t \in Seq(Bytes) /\ Len(t) = len + n
      BY <1>1, <3>3
    <3> HIDE DEF t
    <3>5. \A i \in 1..len + n : (Text \o s)[i] = t[i]
      BY <3>2 DEF t
    <3>6. Text \o s = t
      BY <3>1, <3>4, <3>5, SeqEqual
    <3> QED BY <3>6 DEF t
  <2>4. \A i \in 1..len + n :
          msg'[i - 1] = IF i <= len THEN Text[i] ELSE s[i - len]
    <3> TAKE i \in 1..len + n
    <3>1. CASE i <= len
      BY <1>1, <2>1, <3>1 DEF Text
    <3>2. CASE ~(i <= len)
      <4>1. i - len \in 1..n /\ len + (i - len) - 1 = i - 1
        BY <1>1, <3>2
      <4> QED BY <3>2, <4>1
    <3> QED BY <3>1, <3>2
  <2> QED BY <2>2, <2>3, <2>4
<1> HIDE DEF s
<1> QED BY <1>1, <1>2, <1>3, <1>4 DEF EchoText!Extend

(* Until two writes mix, the message is the text of Echo: it only starts   *)
(* afresh or grows at its end, wherever copies stop or fail.               *)
THEOREM UnmixedImplementsEcho == Spec => EchoSpec
<1>1. Init => EchoText!Init
  BY DEF Init, EchoText!Init, Text
<1>2. TextInv /\ TextInv' /\ [Next]_vars => [EchoText!Next]_Text
  <2> SUFFICES ASSUME TextInv, TextInv', [Next]_vars
               PROVE  EchoText!Next \/ UNCHANGED Text
    OBVIOUS
  <2>4. TextGoal
    BY TextStep
  <2>5. CASE mixed'
    BY <2>5 DEF Text, EchoText!Next, EchoText!Clear
  <2> SUFFICES ASSUME ~mixed' PROVE EchoText!Next \/ UNCHANGED Text
    BY <2>5
  <2>6. ~mixed
    BY <2>4 DEF TextGoal
  <2>1. CASE UNCHANGED <<msg, len>>
    BY <2>1, <2>6 DEF Text
  <2>2. CASE len' = 0
    BY <2>2 DEF Text, EchoText!Next, EchoText!Clear
  <2>3. ASSUME NEW n \in 0..BUFFERSIZE, Extends(n)
        PROVE  EchoText!Next \/ UNCHANGED Text
    <3>1. CASE n # 0
      BY <2>3, <2>6, <3>1, ExtendImplements DEF EchoText!Next
    <3>2. CASE n = 0
      <4>1. len' = len /\ len \in 0..BUFFERSIZE
        BY <2>3, <3>2 DEF Extends, TextInv, BufferInv, TypeOK, Positions
      <4>2. \A i \in 1..len : msg'[i - 1] = msg[i - 1]
        BY <2>3, <4>1, SizeAssumption DEF Extends, Positions
      <4> QED BY <2>6, <4>1, <4>2 DEF Text
    <3> QED BY <3>1, <3>2
  <2> QED BY <2>1, <2>2, <2>3, <2>4 DEF TextGoal
<1>3. Spec => []TextInv
  BY TextInit, TextStep, PTL DEF Spec
<1> QED BY <1>1, <1>2, <1>3, PTL DEF Spec, EchoSpec, EchoText!Spec

-----------------------------------------------------------------------------
(* What NoGaps depends on.  Mixing takes two writers: with one the history *)
(* variable never becomes true, and what holds until writes mix holds.     *)

LEMMA OneWriterStep ==
  ASSUME \A p, q \in Writers : p = q
  PROVE  TextInv /\ ~mixed /\ [Next]_vars => ~mixed'
<1> SUFFICES ASSUME TextInv, ~mixed, [Next]_vars PROVE ~mixed'
  OBVIOUS
<1>1. ASSUME NEW p \in Procs, Reading(p) PROVE ~mixed'
  BY <1>1, ReaderStep
<1>2. ASSUME NEW p \in Writers, Writing(p) PROVE ~mixed'
  <2>1. \A q \in Procs \ {p} : op[q].pc # "write"
    BY DEF TextInv, OnlyWritersWrite
  <2> QED BY <1>2, <2>1 DEF Writing, CwWrite, CopyIn, CopyInFails, Mixes
<1>3. CASE UNCHANGED vars
  BY <1>3 DEF vars
<1> QED BY <1>1, <1>2, <1>3 DEF Next

LEMMA OneWriterAlways ==
  ASSUME \A p, q \in Writers : p = q
  PROVE  Spec => [](TextInv /\ ~mixed)
<1>1. Init => ~mixed
  BY DEF Init
<1> QED BY <1>1, OneWriterStep, TextInit, TextStep, PTL DEF Spec

(* "Do not allow random access" (cw.c:291-294) is kept by any one process  *)
(* that writes, whoever reads meanwhile and wherever its copies fail: the  *)
(* gaps of NoGaps take a second writer.                                    *)
THEOREM OneWriterLeavesNoGaps ==
  ASSUME \A p, q \in Writers : p = q
  PROVE  Spec => []NoGaps
<1>1. NoGapsUnmixed /\ ~mixed => NoGaps
  BY DEF NoGapsUnmixed
<1> QED BY <1>1, OneWriterAlways, UnmixedLeavesNoGaps, PTL

(* The message as it is, whether or not writes have mixed.                 *)
Plain == [i \in 1..len |-> msg[i - 1]]

PlainText == INSTANCE Echo WITH text <- Plain, Limit <- BUFFERSIZE

(* For one writer, the buffer implements Echo without reservation.         *)
THEOREM OneWriterImplementsEcho ==
  ASSUME \A p, q \in Writers : p = q
  PROVE  Spec => PlainText!Spec
<1>1. ~mixed => Text = Plain
  BY DEF Text, Plain
<1>2. ~mixed /\ EchoText!Init => PlainText!Init
  BY <1>1 DEF EchoText!Init, PlainText!Init
<1>3. ~mixed /\ ~mixed' /\ [EchoText!Next]_Text => [PlainText!Next]_Plain
  <2> SUFFICES ASSUME ~mixed, ~mixed', [EchoText!Next]_Text
               PROVE  [PlainText!Next]_Plain
    OBVIOUS
  <2>1. Text = Plain /\ Text' = Plain'
    BY DEF Text, Plain
  <2> QED BY <2>1
          DEF EchoText!Next, EchoText!Clear, EchoText!Extend,
              PlainText!Next, PlainText!Clear, PlainText!Extend
<1> QED BY <1>2, <1>3, OneWriterAlways, UnmixedImplementsEcho, PTL
        DEF EchoSpec, EchoText!Spec, PlainText!Spec
==============================================================================
