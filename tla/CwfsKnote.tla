----------------------------- MODULE CwfsKnote -----------------------------
(***************************************************************************)
(* Event filters of cwfs vnodes, skel-kernel/cwfs/cwfs_vnops.c:            *)
(* cwfs_kqfilter() and the filters filt_cwfs*.  A process registers an     *)
(* open file with its kqueue, waits for events, closes the file, while     *)
(* another forcibly unmounts the file system, which reclaims vnodes that   *)
(* are in use.                                                             *)
(*                                                                         *)
(* There is one kqueue; a knote is named by its file and its filter.       *)
(* Everything here runs under the kernel lock without sleeping, so each    *)
(* operation is one action.  What calls the filters, kqueue_register(),    *)
(* kqueue_scan(), knote_fdclose() and vclean(), is the kernel's.           *)
(***************************************************************************)
EXTENDS Integers

CONSTANTS
  Vnodes,      \* vnode structures
  NoVnode,     \* not a vnode
  Files        \* open file structures

ASSUME SentinelAssumption == NoVnode \notin Vnodes

VARIABLES
  node,     \* the vnodes that have a cwfs node at v_data
  file,     \* the vnode of each open file
  klist,    \* v_selectinfo.si_note: the knotes of each vnode
  kn,       \* the state of each knote
  fault     \* what has followed a NULL node pointer

vars == <<node, file, klist, kn, fault>>

(* The filters of vnodes, and the others that a caller can name.           *)
Filters == {"read", "write", "vnode"}
AnyFilters == Filters \cup {"other"}
Knotes == Files \X AnyFilters
FilterOf(k) == k[2]
Of(f) == {k \in Knotes : k[1] = f}

(* kn_hook, EV_EOF and EV_ONESHOT of kn_flags, NOTE_REVOKE in kn_sfflags   *)
(* and in kn_fflags, and whether the knote is queued for delivery.         *)
NoKnote == [hook |-> NoVnode, eof |-> FALSE, once |-> FALSE,
            wants |-> FALSE, hit |-> FALSE, queued |-> FALSE]

KnoteStates ==
  [hook : Vnodes \cup {NoVnode}, eof : BOOLEAN, once : BOOLEAN,
   wants : BOOLEAN, hit : BOOLEAN, queued : BOOLEAN]

Init ==
  /\ node = {}
  /\ file = [f \in Files |-> NoVnode]
  /\ klist = [v \in Vnodes |-> {}]
  /\ kn = [k \in Knotes |-> NoKnote]
  /\ fault = "none"

Alive == fault = "none"

(* An operation on knote k that evaluates its filter stops the kernel.     *)
Panic(op) == fault' = op /\ UNCHANGED <<node, file, klist, kn>>

-----------------------------------------------------------------------------
(* The filters.                                                            *)

(* With no hint.  The read filter takes the size from the node; whether    *)
(* that makes an event depends on the file's offset and the knote's flags. *)
Answers(k) ==
  CASE FilterOf(k) = "read" -> BOOLEAN
    [] FilterOf(k) = "write" -> {TRUE}
    [] OTHER -> {kn[k].hit}

FollowsNull(k) == FilterOf(k) = "read" /\ kn[k].hook \notin node

(* Faulty variant: the knote is not scheduled for deletion.                *)
RevokedNotOnce(k, r) ==
  IF FilterOf(k) = "vnode"
  THEN [r EXCEPT !.eof = TRUE, !.hit = @ \/ r.wants, !.queued = TRUE]
  ELSE [r EXCEPT !.eof = TRUE, !.queued = TRUE]

(* Faulty variant: the vnode filter looks at the hint only when its owner  *)
(* has asked for it.                                                       *)
RevokedIfAsked(k, r) ==
  IF FilterOf(k) = "vnode"
  THEN [r EXCEPT !.eof = r.wants, !.hit = @ \/ r.wants, !.queued = @ \/ r.wants]
  ELSE [r EXCEPT !.eof = TRUE, !.once = TRUE, !.queued = TRUE]

(* With NOTE_REVOKE: the end of the file, and, for reading and writing,    *)
(* the knote's last event.  All three then report an event.                *)
Revoked(k, r) ==
  IF FilterOf(k) = "vnode"
  THEN [r EXCEPT !.eof = TRUE, !.hit = @ \/ r.wants, !.queued = TRUE]
  ELSE [r EXCEPT !.eof = TRUE, !.once = TRUE, !.queued = TRUE]

(* Faulty variant: nothing is removed.                                     *)
FiltCwfsdetachKeeps(ks) == klist

(* The lists without the given knotes, each taken from the list of the     *)
(* vnode it is hooked to.                                                  *)
FiltCwfsdetach(ks) ==
  [v \in Vnodes |-> klist[v] \ {k \in ks : kn[k].hook = v}]

-----------------------------------------------------------------------------
(* Files.                                                                  *)

InUse(v) == \E f \in Files : file[f] = v

(* A file is opened on a vnode in use, or on one made anew from a vnode    *)
(* that nobody uses.                                                       *)
Open(f, v) ==
  /\ Alive
  /\ file[f] = NoVnode
  /\ v \in node \/ ~InUse(v)
  /\ file' = [file EXCEPT ![f] = v]
  /\ node' = node \cup {v}
  /\ UNCHANGED <<klist, kn, fault>>

(* knote_fdclose() detaches and drops the file's knotes before vn_close()  *)
(* drops the vnode; the last user's vnode is recycled and reclaimed.       *)
Close(f) ==
  /\ Alive
  /\ file[f] # NoVnode
  /\ file' = [file EXCEPT ![f] = NoVnode]
  /\ klist' = FiltCwfsdetach({k \in Of(f) : kn[k].hook # NoVnode})
  /\ kn' = [k \in Knotes |-> IF k \in Of(f) THEN NoKnote ELSE kn[k]]
  /\ node' = IF \E g \in Files \ {f} : file[g] = file[f]
             THEN node ELSE node \ {file[f]}
  /\ UNCHANGED fault

(* A forced unmount: vclean() reclaims a vnode that is in use, and only    *)
(* then posts NOTE_REVOKE to what is on its list.                          *)
Revoke(v) ==
  /\ Alive
  /\ v \in node
  /\ node' = node \ {v}
  /\ kn' = [k \in Knotes |-> IF k \in klist[v] THEN Revoked(k, kn[k]) ELSE kn[k]]
  /\ UNCHANGED <<file, klist, fault>>

-----------------------------------------------------------------------------
(* Registering, by kevent(2).                                              *)

(* Faulty variant: the default case of the switch is missing.              *)
CwfsKqfilterAny(f, filter, once, wants, answer) ==
  LET k == <<f, filter>> IN
  /\ Alive
  /\ file[f] \in node
  /\ kn[k].hook = NoVnode
  /\ answer \in Answers(k)
  /\ klist' = [klist EXCEPT ![file[f]] = @ \cup {k}]
  /\ kn' = [kn EXCEPT ![k] = [hook |-> file[f], eof |-> FALSE, once |-> once,
                              wants |-> wants, hit |-> FALSE, queued |-> answer]]
  /\ UNCHANGED <<node, file, fault>>

(* EV_ADD of a new knote: cwfs_kqfilter() enters it on the vnode's list,   *)
(* for one of three filters, and the filter is asked for a first event.    *)
(* A vnode without a node has the operations of a dead one instead.        *)
CwfsKqfilter(f, filter, once, wants, answer) ==
  LET k == <<f, filter>> IN
  /\ Alive
  /\ filter \in Filters
  /\ file[f] \in node
  /\ kn[k].hook = NoVnode
  /\ answer \in Answers(k)
  /\ klist' = [klist EXCEPT ![file[f]] = @ \cup {k}]
  /\ kn' = [kn EXCEPT ![k] = [hook |-> file[f], eof |-> FALSE, once |-> once,
                              wants |-> wants, hit |-> FALSE, queued |-> answer]]
  /\ UNCHANGED <<node, file, fault>>

(* EV_ADD of a knote that exists: new settings, and the filter is asked.   *)
Modify(k, wants, answer) ==
  /\ Alive
  /\ kn[k].hook # NoVnode
  /\ answer \in Answers(k)
  /\ IF FollowsNull(k)
     THEN Panic("modify")
     ELSE /\ kn' = [kn EXCEPT ![k].wants = wants, ![k].queued = @ \/ answer]
          /\ UNCHANGED <<node, file, klist, fault>>

(* EV_DELETE.                                                              *)
Delete(k) ==
  /\ Alive
  /\ kn[k].hook # NoVnode
  /\ klist' = FiltCwfsdetach({k})
  /\ kn' = [kn EXCEPT ![k] = NoKnote]
  /\ UNCHANGED <<node, file, fault>>

-----------------------------------------------------------------------------
(* Waiting: kqueue_scan() takes a queued knote.                            *)

(* A knote's last event is delivered without asking the filter again.      *)
DeliverLast(k) ==
  /\ Alive
  /\ kn[k].queued
  /\ kn[k].once
  /\ klist' = FiltCwfsdetach({k})
  /\ kn' = [kn EXCEPT ![k] = NoKnote]
  /\ UNCHANGED <<node, file, fault>>

(* Another event is delivered, and the knote stays queued, only if the     *)
(* filter, which is asked first, still says so.                            *)
Deliver(k, answer) ==
  /\ Alive
  /\ kn[k].queued
  /\ ~kn[k].once
  /\ answer \in Answers(k)
  /\ IF FollowsNull(k)
     THEN Panic("scan")
     ELSE /\ kn' = [kn EXCEPT ![k].queued = answer]
          /\ UNCHANGED <<node, file, klist, fault>>

Registering(f) ==
  \E filter \in AnyFilters, once, wants, answer \in BOOLEAN :
    CwfsKqfilter(f, filter, once, wants, answer)

Kevent(k) ==
  \/ \E wants, answer \in BOOLEAN : Modify(k, wants, answer)
  \/ Delete(k) \/ DeliverLast(k)
  \/ \E answer \in BOOLEAN : Deliver(k, answer)

Next ==
  \/ \E f \in Files, v \in Vnodes : Open(f, v)
  \/ \E f \in Files : Close(f) \/ Registering(f)
  \/ \E v \in Vnodes : Revoke(v)
  \/ \E k \in Knotes : Kevent(k)

Spec == Init /\ [][Next]_vars

-----------------------------------------------------------------------------
(* Properties.                                                             *)

TypeOK ==
  /\ node \subseteq Vnodes
  /\ file \in [Files -> Vnodes \cup {NoVnode}]
  /\ klist \in [Vnodes -> SUBSET (Files \X Filters)]
  /\ kn \in [Knotes -> KnoteStates]
  /\ fault \in {"none", "modify", "scan"}

(* A vnode's list holds the knotes hooked to it, whose files are open on   *)
(* it: none outlives its file, or is left on the list of a vnode that has  *)
(* been given to another file, and none is taken from the wrong list.      *)
ListsMatch ==
  \A k \in Knotes, v \in Vnodes :
    k \in klist[v] <=> kn[k].hook = v /\ file[k[1]] = v

(* "filesystem is gone, so set the EOF flag and schedule the knote for     *)
(* deletion" (cwfs_vnops.c:834-837, 858-861): whoever waits to read or     *)
(* write a vnode that has been reclaimed has that event queued, until it   *)
(* is delivered and the knote with it is gone.                             *)
GoneIsTold ==
  \A k \in Knotes :
    /\ kn[k].hook \in Vnodes \ node
    /\ FilterOf(k) # "vnode"
    => kn[k].eof /\ kn[k].once /\ kn[k].queued

(* Waiting for events never makes the read filter look for the size of a   *)
(* file that is gone.                                                      *)
ScanNeverFaults == fault # "scan"

(* The knotes keep the promise of WatchLife: those of a vnode are told of  *)
(* its end together, by the flag that stays on, and readers and writers by *)
(* an event besides that stays queued as their last; and a vnode does not  *)
(* come back under them.                                                   *)
Told ==
  {k \in Knotes : /\ kn[k].eof
                  /\ FilterOf(k) # "vnode" => kn[k].once /\ kn[k].queued}

Watching ==
  INSTANCE WatchLife WITH Watches <- Knotes, alive <- node,
    watched <- [k \in Knotes |-> kn[k].hook], told <- Told

WatchSpec == Watching!Spec

(* What the same comment promises of the filters: a knote of a file system *)
(* that is gone is only deleted, and nothing looks at its node any more.   *)
GoneIsLeftAlone == fault = "none"
=============================================================================
