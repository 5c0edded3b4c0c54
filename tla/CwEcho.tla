------------------------------- MODULE CwEcho -------------------------------
(***************************************************************************)
(* The message buffer of the cw device, skel-kernel/dev/cw.c: cwread() and *)
(* cwwrite() on the one static buffer that all opens of the device share.  *)
(*                                                                         *)
(* Both run under the kernel lock, but uiomove() gives it up, at every     *)
(* chunk and every page fault; so each copy proceeds byte by byte and the  *)
(* copies of different processes interleave.  What precedes uiomove() is   *)
(* one action; what follows it is part of the copy of the last byte.       *)
(***************************************************************************)
EXTENDS Integers

CONSTANTS
  Procs,        \* processes reading and writing the device
  Writers,      \* those among them that write
  Bytes,        \* what messages are made of
  NUL,          \* the terminating null character
  BUFFERSIZE,   \* length of the longest message
  MaxResid      \* bound on the size of a request

ASSUME WritersAssumption == Writers \subseteq Procs
ASSUME NulAssumption == NUL \notin Bytes
ASSUME SizeAssumption == BUFFERSIZE \in Nat \ {0} /\ MaxResid \in Nat

VARIABLES
  msg,     \* echomsg.msg: BUFFERSIZE + 1 bytes
  len,     \* echomsg.len
  op,      \* the request each process is in
  mixed    \* history: a write has started while another was being copied

vars == <<msg, len, op, mixed>>

Positions == 0..BUFFERSIZE

(* A request being copied: uio_offset at entry, bytes to copy, bytes       *)
(* copied, and, for a write, the byte it is made of.                       *)
Idle == [pc |-> "idle", off |-> 0, amt |-> 0, pos |-> 0, byte |-> NUL]

Requests ==
  [pc : {"idle", "read", "write"}, off : Positions,
   amt : 0..BUFFERSIZE + 1, pos : 0..BUFFERSIZE + 1, byte : Bytes \cup {NUL}]

LesserOf(a, b) == IF a <= b THEN a ELSE b

Init ==
  /\ msg = [i \in Positions |-> NUL]
  /\ len = 0
  /\ op = [p \in Procs |-> Idle]
  /\ mixed = FALSE

-----------------------------------------------------------------------------
(* cwread().  How much is copied depends on uio_offset; what is copied     *)
(* does not: it always comes from the start of the message.  The bytes     *)
(* themselves go to user space, out of sight.                              *)

ReadAmount(off, resid) ==
  LesserOf(resid, IF off >= len + 1 THEN 0 ELSE len + 1 - off)

CwRead(p, off, resid) ==
  /\ op[p].pc = "idle"
  /\ op' = [op EXCEPT ![p] =
              IF ReadAmount(off, resid) = 0 THEN Idle
              ELSE [pc |-> "read", off |-> off, pos |-> 0, byte |-> NUL,
                    amt |-> ReadAmount(off, resid)]]
  /\ UNCHANGED <<msg, len, mixed>>

CopyOut(p) ==
  /\ op[p].pc = "read"
  /\ op' = IF op[p].pos + 1 = op[p].amt THEN [op EXCEPT ![p] = Idle]
                                        ELSE [op EXCEPT ![p].pos = @ + 1]
  /\ UNCHANGED <<msg, len, mixed>>

(* uiomove() fails: the call returns its error.                            *)
CopyOutFails(p) ==
  /\ op[p].pc = "read"
  /\ op' = [op EXCEPT ![p] = Idle]
  /\ UNCHANGED <<msg, len, mixed>>

-----------------------------------------------------------------------------
(* cwwrite().                                                              *)

(* Faulty variant: the terminator is forgotten.                            *)
TerminateNot(text, end) ==
  /\ len' = end
  /\ msg' = text

(* The end of cwwrite(): record the length and null terminate.             *)
Terminate(text, end) ==
  /\ len' = end
  /\ msg' = [text EXCEPT ![end] = NUL]

Mixes(p) == mixed \/ \E q \in Procs \ {p} : op[q].pc = "write"

(* Faulty variant: the whole buffer is used, with no room for the null.    *)
CwWriteFull(p, off, resid, byte) ==
  LET base == IF off = 0 THEN 0 ELSE len
      amt == LesserOf(resid, BUFFERSIZE + 1 - base)
  IN
  /\ op[p].pc = "idle"
  /\ off = 0 \/ off = len
  /\ IF amt = 0
     THEN Terminate(msg, off) /\ UNCHANGED op
     ELSE /\ len' = base
          /\ op' = [op EXCEPT ![p] = [pc |-> "write", off |-> off, amt |-> amt,
                                      pos |-> 0, byte |-> byte]]
          /\ UNCHANGED msg
  /\ mixed' = Mixes(p)

(* Faulty variant: any offset is accepted.                                 *)
CwWriteAnywhere(p, off, resid, byte) ==
  LET base == IF off = 0 THEN 0 ELSE len
      amt == LesserOf(resid, BUFFERSIZE - base)
  IN
  /\ op[p].pc = "idle"
  /\ off + amt <= BUFFERSIZE
  /\ IF amt = 0
     THEN Terminate(msg, off) /\ UNCHANGED op
     ELSE /\ len' = base
          /\ op' = [op EXCEPT ![p] = [pc |-> "write", off |-> off, amt |-> amt,
                                      pos |-> 0, byte |-> byte]]
          /\ UNCHANGED msg
  /\ mixed' = Mixes(p)

CwWrite(p, off, resid, byte) ==
  LET base == IF off = 0 THEN 0 ELSE len
      amt == LesserOf(resid, BUFFERSIZE - base)
  IN
  /\ op[p].pc = "idle"
  /\ off = 0 \/ off = len
  /\ IF amt = 0
     THEN Terminate(msg, off) /\ UNCHANGED op
     ELSE /\ len' = base
          /\ op' = [op EXCEPT ![p] = [pc |-> "write", off |-> off, amt |-> amt,
                                      pos |-> 0, byte |-> byte]]
          /\ UNCHANGED msg
  /\ mixed' = Mixes(p)

CopyIn(p) ==
  LET r == op[p]
      text == [msg EXCEPT ![r.off + r.pos] = r.byte]
  IN
  /\ r.pc = "write"
  /\ IF r.pos + 1 = r.amt
     THEN /\ Terminate(text, r.off + r.amt)
          /\ op' = [op EXCEPT ![p] = Idle]
     ELSE /\ msg' = text
          /\ op' = [op EXCEPT ![p].pos = @ + 1]
          /\ UNCHANGED len
  /\ UNCHANGED mixed

(* Faulty variant: the message ends where a complete copy would have ended. *)
CopyInFailsWhole(p, done) ==
  /\ op[p].pc = "write"
  /\ done <= op[p].pos
  /\ Terminate(msg, op[p].off + op[p].amt)
  /\ op' = [op EXCEPT ![p] = Idle]
  /\ UNCHANGED mixed

(* uiomove() fails: uio_offset has advanced past the buffers copied whole, *)
(* and cwwrite() ends the message there all the same.                      *)
CopyInFails(p, done) ==
  /\ op[p].pc = "write"
  /\ done <= op[p].pos
  /\ Terminate(msg, op[p].off + done)
  /\ op' = [op EXCEPT ![p] = Idle]
  /\ UNCHANGED mixed

-----------------------------------------------------------------------------
Reading(p) ==
  \/ \E off \in 0..BUFFERSIZE + 1, resid \in 0..MaxResid : CwRead(p, off, resid)
  \/ CopyOut(p) \/ CopyOutFails(p)

Writing(p) ==
  \/ \E off \in Positions, resid \in 0..MaxResid, byte \in Bytes :
       CwWrite(p, off, resid, byte)
  \/ CopyIn(p)
  \/ \E done \in Positions : CopyInFails(p, done)

Next ==
  \/ \E p \in Procs : Reading(p)
  \/ \E p \in Writers : Writing(p)

Spec == Init /\ [][Next]_vars

-----------------------------------------------------------------------------
(* Properties.                                                             *)

TypeOK ==
  /\ msg \in [Positions -> Bytes \cup {NUL}]
  /\ len \in Positions
  /\ op \in [Procs -> Requests]
  /\ mixed \in BOOLEAN

(* However writers interleave, and although each computes its room from a  *)
(* length that others then change, no copy reaches past the buffer, and    *)
(* its last byte stays null: the "%s" of cwread() and cwwrite() ends.      *)
CopiesInBuffer ==
  /\ msg[BUFFERSIZE] = NUL
  /\ \A p \in Procs :
       /\ op[p].pc = "write" => op[p].off + op[p].amt <= BUFFERSIZE
       /\ op[p].pc # "idle" => op[p].pos < op[p].amt

Quiet == \A p \in Procs : op[p].pc # "write"

(* When nobody is writing, the message is null terminated at its recorded  *)
(* length, whoever finished last and however.                              *)
Terminated == Quiet => msg[len] = NUL

(* "We either write from the beginning or are appending -- do not allow    *)
(* random access" (cw.c:291-294): when nobody is writing, the message has  *)
(* no gap before its end.                                                  *)
NoGaps == Quiet => \A i \in 0..len - 1 : msg[i] # NUL

(* So it is as long as no write has started while another was under way,   *)
(* wherever the copies of these writes, and of any reads, stopped.         *)
NoGapsUnmixed == mixed \/ NoGaps

(* Until writes mix, the message is the text of Echo.                      *)
Text == IF mixed THEN <<>> ELSE [i \in 1..len |-> msg[i - 1]]

EchoText == INSTANCE Echo WITH text <- Text, Limit <- BUFFERSIZE

EchoSpec == EchoText!Spec
==============================================================================
