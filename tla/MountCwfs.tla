----------------------------- MODULE MountCwfs -----------------------------
(***************************************************************************)
(* The mount_cwfs command, sbin/mount_cwfs/mount_cwfs.c: its command line, *)
(* the attributes of the root that it takes from options or inherits from  *)
(* the mount point, and the one mount(2) call.                             *)
(*                                                                         *)
(* What the kernel makes of that call is left open here (see CwfsRoot).    *)
(* Another process may change the mount point at any time.  The argument   *)
(* of an option is a text that may name a user or a group and may read as  *)
(* a number, in any base by strtol(,, 0) or in octal by strtol(,, 8).      *)
(***************************************************************************)
EXTENDS Integers, Sequences

CONSTANTS
  Texts,       \* arguments of options
  Passwd,      \* getpwnam(): the ids of those texts that name a user
  Group,       \* getgrnam(): the ids of those texts that name a group
  Number,      \* the values of those texts that read as a number
  Octal,       \* the values of those texts that read as an octal number
  IntHalf,     \* half the number of values of an int, 2^31
  LongHalf,    \* half the number of values of a long, 2^63
  MaxOptions,  \* bound on the number of options
  Attrs        \* attributes the mount point may have

Kinds == {"u", "g", "m"}

ASSUME TableAssumption ==
  /\ DOMAIN Passwd \subseteq Texts /\ DOMAIN Group \subseteq Texts
  /\ DOMAIN Number \subseteq Texts /\ DOMAIN Octal \subseteq Texts
ASSUME ValueAssumption ==
  /\ Passwd \in [DOMAIN Passwd -> Nat] /\ Group \in [DOMAIN Group -> Nat]
  /\ Number \in [DOMAIN Number -> Int] /\ Octal \in [DOMAIN Octal -> Int]
  /\ Attrs \subseteq [Kinds -> Nat]
ASSUME WidthAssumption ==
  IntHalf \in Nat \ {0} /\ LongHalf \in Nat \ {0} /\ IntHalf <= LongHalf
ASSUME BoundAssumption == MaxOptions \in Nat

VARIABLES
  argv,      \* the options of the command line
  operands,  \* how many arguments follow them
  next,      \* optind: the next option to look at
  given,     \* the attributes set by options so far, and their values
  update,    \* mntflags: whether MNT_UPDATE is set
  dir,       \* attributes of the mount point, or NoDir
  held,      \* history: all attributes it has had since the command started
  args,      \* what is passed to mount(2)
  pc

vars == <<argv, operands, next, given, update, dir, held, args, pc>>

NoDir == <<>>
NoArgs == <<>>

Options == [ch : Kinds, arg : Texts] \cup [ch : {"o", "n", "s", "other"}]

-----------------------------------------------------------------------------
(* Conversions.  strtol() keeps to the bounds of a long when the number is *)
(* beyond them; the assignment to an int keeps the low bits.               *)

Strtol(n) ==
  IF n >= LongHalf THEN LongHalf - 1 ELSE IF n < -LongHalf THEN -LongHalf ELSE n

ToInt(n) == ((n + IntHalf) % (2 * IntHalf)) - IntHalf

Unknown == -1

(* Faulty variant: a negative number is not refused.                       *)
ANumUnchecked(s, numbers) ==
  IF s \in DOMAIN numbers THEN ToInt(Strtol(numbers[s])) ELSE Unknown

(* a_num() and a_mask(): errx() unless all of the text is a number and the *)
(* int is not negative.                                                    *)
ANum(s, numbers) ==
  IF s \in DOMAIN numbers /\ ToInt(Strtol(numbers[s])) >= 0
  THEN ToInt(Strtol(numbers[s])) ELSE Unknown

(* a_uid() and a_gid(): a name is looked up before it is read as a number. *)
AId(s, names) == IF s \in DOMAIN names THEN names[s] ELSE ANum(s, Number)

Convert(o) ==
  CASE o.ch = "u" -> AId(o.arg, Passwd)
    [] o.ch = "g" -> AId(o.arg, Group)
    [] o.ch = "m" -> ANum(o.arg, Octal)

-----------------------------------------------------------------------------
Init ==
  /\ \E n \in 0..MaxOptions : argv \in [1..n -> Options]
  /\ operands \in 1..2
  /\ next = 1
  /\ given = [k \in {} |-> 0]
  /\ update = FALSE
  /\ dir \in Attrs \cup {NoDir}
  /\ held = {dir}
  /\ args = NoArgs
  /\ pc = "options"

Here == argv[next]
AtOption == pc = "options" /\ next <= Len(argv)

pointVars == <<dir, held>>

Exit ==
  /\ pc' = "failed"
  /\ UNCHANGED <<argv, operands, next, given, update, pointVars, args>>

(* Faulty variant: an option that was given before is not replaced.        *)
AttributeOptionFirst ==
  /\ AtOption
  /\ Here.ch \in Kinds
  /\ Convert(Here) # Unknown
  /\ given' = [k \in DOMAIN given \cup {Here.ch} |->
                 IF k \in DOMAIN given THEN given[k] ELSE Convert(Here)]
  /\ next' = next + 1
  /\ UNCHANGED <<argv, operands, update, pointVars, args, pc>>

(* Options g, m and u.                                                     *)
AttributeOption ==
  /\ AtOption
  /\ Here.ch \in Kinds
  /\ Convert(Here) # Unknown
  /\ given' = [k \in DOMAIN given \cup {Here.ch} |->
                 IF k = Here.ch THEN Convert(Here) ELSE given[k]]
  /\ next' = next + 1
  /\ UNCHANGED <<argv, operands, update, pointVars, args, pc>>

(* Faulty variant: an unknown name is passed over.                         *)
UnknownAttributeIgnored ==
  /\ AtOption
  /\ Here.ch \in Kinds
  /\ Convert(Here) = Unknown
  /\ next' = next + 1
  /\ UNCHANGED <<argv, operands, given, update, pointVars, args, pc>>

UnknownAttribute ==
  /\ AtOption
  /\ Here.ch \in Kinds
  /\ Convert(Here) = Unknown
  /\ Exit

(* Option o: getmntopts() collects flags, or exits.  "update" is the one   *)
(* on which the rest depends; "noupdate" takes it back.                    *)
MountOptions ==
  /\ AtOption
  /\ Here.ch = "o"
  /\ next' = next + 1
  /\ update' \in BOOLEAN
  /\ UNCHANGED <<argv, operands, given, pointVars, args, pc>>

MountOptionsFail ==
  /\ AtOption
  /\ Here.ch = "o"
  /\ Exit

(* Options n and s are in the getopt() string and in the usage text, but   *)
(* have no case of their own: usage() exits, as for any other letter.      *)
OtherOption ==
  /\ AtOption
  /\ Here.ch \in {"n", "s", "other"}
  /\ Exit

(* After the options come the file system, ignored, and the mount point.   *)
WrongOperands ==
  /\ pc = "options"
  /\ next > Len(argv)
  /\ operands # 2
  /\ Exit

(* realpath() and stat() fail.                                             *)
NoMountPoint ==
  /\ pc = "options"
  /\ next > Len(argv)
  /\ operands = 2
  /\ dir = NoDir
  /\ Exit

(* Faulty variant: an id of 0 is taken for one that was not given.         *)
InheritZero ==
  /\ pc = "options"
  /\ next > Len(argv)
  /\ operands = 2
  /\ dir # NoDir
  /\ args' = [k \in Kinds |->
                IF k \in DOMAIN given /\ given[k] # 0 THEN given[k] ELSE dir[k]]
  /\ pc' = "mount"
  /\ UNCHANGED <<argv, operands, next, given, update, pointVars>>

(* Attributes that no option has set are the mount point's at this time.   *)
Inherit ==
  /\ pc = "options"
  /\ next > Len(argv)
  /\ operands = 2
  /\ dir # NoDir
  /\ args' = [k \in Kinds |-> IF k \in DOMAIN given THEN given[k] ELSE dir[k]]
  /\ pc' = "mount"
  /\ UNCHANGED <<argv, operands, next, given, update, pointVars>>

(* mount(2) succeeds only while there is a directory to mount on.          *)
Mount ==
  /\ pc = "mount"
  /\ dir # NoDir
  /\ pc' = "done"
  /\ UNCHANGED <<argv, operands, next, given, update, pointVars, args>>

MountFails ==
  /\ pc = "mount"
  /\ Exit

(* Somebody changes or removes the mount point meanwhile.                  *)
ChangeDir(d) ==
  /\ pc \in {"options", "mount"}
  /\ dir' = d
  /\ held' = held \cup {d}
  /\ UNCHANGED <<argv, operands, next, given, update, args, pc>>

BeforeMount ==
  \/ AttributeOption \/ UnknownAttribute
  \/ MountOptions \/ MountOptionsFail \/ OtherOption
  \/ WrongOperands \/ NoMountPoint \/ Inherit \/ MountFails
  \/ \E d \in Attrs \cup {NoDir} : ChangeDir(d)

Next == BeforeMount \/ Mount

Spec == Init /\ [][Next]_vars

-----------------------------------------------------------------------------
(* Properties.                                                             *)

TypeOK ==
  /\ argv \in Seq(Options) /\ operands \in 1..2
  /\ next \in 1..Len(argv) + 1
  /\ DOMAIN given \subseteq Kinds /\ given \in [DOMAIN given -> Nat]
  /\ update \in BOOLEAN
  /\ dir \in Attrs \cup {NoDir} /\ held \subseteq Attrs \cup {NoDir}
  /\ args \in [Kinds -> Nat] \cup {NoArgs}
  /\ pc \in {"options", "mount", "done", "failed"}

Asked(k) == {i \in 1..Len(argv) : argv[i].ch = k}
LastAsked(k) == CHOOSE i \in Asked(k) : \A j \in Asked(k) : j <= i

(* An argument is a user or group of that name, or a number.               *)
Named(o) == CASE o.ch = "u" -> Passwd [] o.ch = "g" -> Group [] o.ch = "m" -> <<>>
Numbers(o) == IF o.ch = "m" THEN Octal ELSE Number

(* What an argument may stand for: the id of a name, or the one int that   *)
(* is not negative and has the low bits of what strtol(3) reads, which is  *)
(* the number itself when an int can hold it.                              *)
StandsFor(o, v) ==
  IF o.arg \in DOMAIN Named(o) THEN v = Named(o)[o.arg]
  ELSE /\ o.arg \in DOMAIN Numbers(o)
       /\ v \in 0..IntHalf - 1
       /\ (Strtol(Numbers(o)[o.arg]) - v) % (2 * IntHalf) = 0

(* An attribute that is asked for is passed to mount(2) as what the last   *)
(* option for it stands for, whatever other options come before or after   *)
(* it.  All others are inherited, and from one moment: the mount point has *)
(* had all of them together since the command started, although it may     *)
(* have others by now (120-122).  This is what is passed: the kernel keeps *)
(* it for statfs and gives the root other attributes (CwfsRoot's Getattr). *)
RootIsAsAsked ==
  args # NoArgs =>
    /\ \A k \in Kinds : Asked(k) # {} => StandsFor(argv[LastAsked(k)], args[k])
    /\ \E d \in held \ {NoDir} :
         \A k \in Kinds : Asked(k) = {} => args[k] = d[k]

(* Nothing is passed to mount(2), with whatever attributes, unless every   *)
(* option on the command line, those that a later one replaces included,   *)
(* has a case of its own in the code and stands for something: a name, or  *)
(* a number whose low bits make an int that is not negative.  The number   *)
(* itself may be negative, or too large: -2^32 passes for 0, 2^32+1 for 1. *)
NothingOnError ==
  args # NoArgs =>
    /\ operands = 2
    /\ \A i \in 1..Len(argv) :
         /\ argv[i].ch \in Kinds \cup {"o"}
         /\ argv[i].ch \in Kinds =>
              \/ argv[i].arg \in DOMAIN Named(argv[i])
              \/ \E v \in 0..IntHalf - 1 : StandsFor(argv[i], v)
=============================================================================
