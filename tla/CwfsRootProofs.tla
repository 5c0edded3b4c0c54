--------------------------- MODULE CwfsRootProofs ---------------------------
(***************************************************************************)
(* Proofs about MountCwfs and CwfsRoot, for command lines of any length,   *)
(* any tables of users, groups and numbers, any widths of int and long,    *)
(* and any credentials and block numbers.                                  *)
(***************************************************************************)
EXTENDS CwfsRoot, SequenceTheorems, TLAPS

-----------------------------------------------------------------------------
(* Conversions.                                                            *)

(* The low bits of a number that an int can hold are the number.           *)
LEMMA ToIntIsExact ==
  ASSUME NEW n \in Int, n \in -IntHalf..IntHalf - 1
  PROVE  ToInt(n) = n
<1> DEFINE H == IntHalf
<1>1. H \in Nat /\ H > 0
  BY WidthAssumption
<1>2. n + H \in 0..2 * H - 1
  BY <1>1
<1>3. ASSUME NEW x \in Nat, NEW y \in Nat, x < y PROVE x % y = x
  BY <1>3
<1>4. (n + H) % (2 * H) = n + H
  BY <1>1, <1>2, <1>3
<1> QED BY <1>1, <1>4 DEF ToInt

LEMMA ToIntIsInt ==
  ASSUME NEW n \in Int
  PROVE  ToInt(n) \in Int
<1>1. ASSUME NEW x \in Int, NEW y \in Nat \ {0} PROVE x % y \in Int
  BY <1>1
<1> QED BY <1>1, WidthAssumption DEF ToInt

LEMMA StrtolIsExact ==
  ASSUME NEW n \in Int, n \in -IntHalf..IntHalf - 1
  PROVE  Strtol(n) = n
BY WidthAssumption DEF Strtol

LEMMA StrtolIsInt ==
  ASSUME NEW n \in Int
  PROVE  Strtol(n) \in Int
BY WidthAssumption DEF Strtol

(* Dividing by a positive number.                                          *)
LEMMA Division ==
  ASSUME NEW x \in Int, NEW y \in Nat \ {0}
  PROVE  x % y \in 0..y - 1 /\ \E q \in Int : x = y * q + (x % y)
<1>1. x % y \in 0..y - 1
  OBVIOUS
<1>2. x \div y \in Int /\ x = y * (x \div y) + (x % y)
  OBVIOUS
<1> QED BY <1>1, <1>2

(* A remainder is the only number in its range that is so far away.        *)
LEMMA RemainderIsUnique ==
  ASSUME NEW y \in Nat \ {0}, NEW r \in 0..y - 1, NEW s \in 0..y - 1,
         NEW p \in Int, NEW q \in Int, y * p + r = y * q + s
  PROVE  r = s
<1> DEFINE d == p - q
<1>1. y * d = s - r /\ d \in Int
  OBVIOUS
<1>2. s - r < y /\ -y < s - r
  OBVIOUS
<1>3. ASSUME d >= 1 PROVE FALSE
  <2>1. y * d >= y
    BY <1>3
  <2> QED BY <1>1, <1>2, <2>1
<1>4. ASSUME d <= -1 PROVE FALSE
  <2>1. y * d <= -y
    BY <1>4
  <2> QED BY <1>1, <1>2, <2>1
<1>5. d = 0
  BY <1>3, <1>4
<1>6. y * 0 = 0
  OBVIOUS
<1> QED BY <1>1, <1>5, <1>6

(* An int keeps the low bits: it is off by a multiple of the number of     *)
(* values of an int, and within its range.                                 *)
LEMMA ToIntWraps ==
  ASSUME NEW n \in Int
  PROVE  /\ ToInt(n) \in -IntHalf..IntHalf - 1
         /\ \E q \in Int : n = 2 * IntHalf * q + ToInt(n)
<1> DEFINE W == 2 * IntHalf
<1>1. W \in Nat \ {0} /\ IntHalf \in Nat
  BY WidthAssumption
<1>2. n + IntHalf \in Int
  BY <1>1
<1> HIDE DEF W
<1>3. /\ (n + IntHalf) % W \in 0..W - 1
      /\ \E q \in Int : n + IntHalf = W * q + ((n + IntHalf) % W)
  BY <1>1, <1>2, Division
<1>4. PICK q \in Int : n + IntHalf = W * q + ((n + IntHalf) % W)
  BY <1>3
<1>5. ToInt(n) = ((n + IntHalf) % W) - IntHalf
  BY DEF ToInt, W
<1>6. W * q \in Int
  BY <1>1
<1>7. n = W * q + ToInt(n)
  BY <1>1, <1>3, <1>4, <1>5, <1>6
<1>8. ToInt(n) \in -IntHalf..IntHalf - 1
  BY <1>1, <1>3, <1>5 DEF W
<1> QED BY <1>7, <1>8 DEF W

(* Two numbers with the same low bits become the same int.                 *)
LEMMA ToIntIsUnique ==
  ASSUME NEW n \in Int, NEW q \in Int, NEW k \in -IntHalf..IntHalf - 1,
         n = 2 * IntHalf * q + k
  PROVE  ToInt(n) = k
<1> DEFINE W == 2 * IntHalf
           r == ToInt(n) + IntHalf
           s == k + IntHalf
<1>1. IntHalf \in Nat /\ W \in Nat \ {0}
  BY WidthAssumption
<1>2. ToInt(n) \in -IntHalf..IntHalf - 1
  BY ToIntWraps
<1>3. PICK p \in Int : n = 2 * IntHalf * p + ToInt(n)
  BY ToIntWraps
<1>4. r \in 0..W - 1 /\ s \in 0..W - 1
  BY <1>1, <1>2
<1>5. W * p + r = W * q + s
  <2>1. W * p \in Int /\ W * q \in Int
    BY <1>1
  <2>2. W * p + ToInt(n) = W * q + k
    BY <1>3
  <2> HIDE DEF W
  <2> QED BY <1>1, <1>2, <2>1, <2>2
<1>6. r = s
  <2> HIDE DEF W, r, s
  <2> QED BY <1>1, <1>4, <1>5, RemainderIsUnique
<1> QED BY <1>1, <1>2, <1>6

(* What is lost of a number that becomes an int are its high bits.         *)
LEMMA ToIntKeepsLowBits ==
  ASSUME NEW n \in Int
  PROVE  (n - ToInt(n)) % (2 * IntHalf) = 0
<1> DEFINE W == 2 * IntHalf
           x == n - ToInt(n)
<1>1. W \in Nat \ {0} /\ 0 \in 0..W - 1
  BY WidthAssumption
<1>2. ToInt(n) \in Int /\ x \in Int
  BY ToIntIsInt
<1>3. PICK q \in Int : n = W * q + ToInt(n)
  BY ToIntWraps
<1>4. W * q \in Int
  BY <1>1
<1>5. x = W * q + 0
  <2> HIDE DEF W
  <2> QED BY <1>2, <1>3, <1>4
<1> HIDE DEF W, x
<1>6. /\ x % W \in 0..W - 1
      /\ \E p \in Int : x = W * p + (x % W)
  BY <1>1, <1>2, Division
<1>7. PICK p \in Int : x = W * p + (x % W)
  BY <1>6
<1>8. W * p + (x % W) = W * q + 0
  BY <1>5, <1>7
<1>9. x % W = 0
  BY <1>1, <1>6, <1>8, RemainderIsUnique
<1> QED BY <1>9 DEF W, x

(* What a text is read as: an int that is not negative and has the low     *)
(* bits of the number that the text is, or nothing.                        *)
LEMMA ANumReads ==
  ASSUME NEW s, NEW T, NEW numbers \in [T -> Int]
  PROVE  ANum(s, numbers) # Unknown =>
           /\ s \in DOMAIN numbers
           /\ ANum(s, numbers) \in 0..IntHalf - 1
           /\ (Strtol(numbers[s]) - ANum(s, numbers)) % (2 * IntHalf) = 0
<1> SUFFICES ASSUME ANum(s, numbers) # Unknown
             PROVE  /\ s \in DOMAIN numbers
                    /\ ANum(s, numbers) \in 0..IntHalf - 1
                    /\ (Strtol(numbers[s]) - ANum(s, numbers)) % (2 * IntHalf) = 0
  OBVIOUS
<1>1. /\ s \in DOMAIN numbers /\ ToInt(Strtol(numbers[s])) >= 0
      /\ ANum(s, numbers) = ToInt(Strtol(numbers[s]))
  BY DEF ANum
<1>2. Strtol(numbers[s]) \in Int
  BY <1>1, StrtolIsInt
<1>3. ToInt(Strtol(numbers[s])) \in -IntHalf..IntHalf - 1
  BY <1>2, ToIntWraps
<1>4. (Strtol(numbers[s]) - ToInt(Strtol(numbers[s]))) % (2 * IntHalf) = 0
  BY <1>2, ToIntKeepsLowBits
<1>5. ToInt(Strtol(numbers[s])) \in 0..IntHalf - 1
  BY <1>1, <1>3, WidthAssumption
<1> QED BY <1>1, <1>4, <1>5

(* What becomes of a number that an int cannot hold, on a machine where a  *)
(* long is a whole number of ints wide: beyond a long it is refused when   *)
(* it is positive and is id 0, the superuser's, when it is negative, and   *)
(* within a long it is refused or off by a multiple of the number of       *)
(* values of an int, so that 2^32 is id 0 as well.                         *)
THEOREM NumbersBeyondInt ==
  ASSUME NEW K \in Nat \ {0}, LongHalf = 2 * IntHalf * K,
         NEW T, NEW numbers \in [T -> Int], NEW s \in T
  PROVE  /\ numbers[s] >= LongHalf => ANum(s, numbers) = Unknown
         /\ numbers[s] < -LongHalf => ANum(s, numbers) = 0
         /\ numbers[s] \in -LongHalf..LongHalf - 1 =>
              \/ ANum(s, numbers) = Unknown
              \/ /\ ANum(s, numbers) \in 0..IntHalf - 1
                 /\ \E q \in Int :
                      numbers[s] = 2 * IntHalf * q + ANum(s, numbers)
<1> DEFINE n == numbers[s]
           W == 2 * IntHalf
<1>1. /\ s \in DOMAIN numbers /\ n \in Int
      /\ IntHalf \in Nat \ {0} /\ LongHalf \in Nat \ {0}
  BY WidthAssumption
<1>2. CASE n >= LongHalf
  <2>1. Strtol(n) = LongHalf - 1 /\ LongHalf - 1 \in Int
    BY <1>1, <1>2 DEF Strtol
  <2>2. LongHalf - 1 = 2 * IntHalf * K + (-1)
    BY <1>1
  <2>3. -1 \in -IntHalf..IntHalf - 1
    BY <1>1
  <2>4. ToInt(LongHalf - 1) = -1
    BY <2>1, <2>2, <2>3, ToIntIsUnique
  <2> QED BY <1>1, <1>2, <2>1, <2>4 DEF ANum
<1>3. CASE n < -LongHalf
  <2>1. Strtol(n) = -LongHalf /\ -LongHalf \in Int
    BY <1>1, <1>3 DEF Strtol
  <2>2. -LongHalf = 2 * IntHalf * (-K) + 0
    BY <1>1
  <2>3. 0 \in -IntHalf..IntHalf - 1 /\ -K \in Int
    BY <1>1
  <2>4. ToInt(-LongHalf) = 0
    BY <2>1, <2>2, <2>3, ToIntIsUnique
  <2> QED BY <1>1, <1>3, <2>1, <2>4 DEF ANum
<1>4. CASE n \in -LongHalf..LongHalf - 1
  <2>1. Strtol(n) = n
    BY <1>1, <1>4 DEF Strtol
  <2>2. /\ ToInt(n) \in -IntHalf..IntHalf - 1
        /\ \E q \in Int : n = 2 * IntHalf * q + ToInt(n)
    BY <1>1, ToIntWraps
  <2>3. CASE ToInt(n) >= 0
    BY <1>1, <1>4, <2>1, <2>2, <2>3 DEF ANum
  <2>4. CASE ~(ToInt(n) >= 0)
    BY <1>1, <1>4, <2>1, <2>4 DEF ANum
  <2> QED BY <2>3, <2>4
<1> QED BY <1>1, <1>2, <1>3, <1>4

(* An option that is accepted is converted to what it stands for.         *)
LEMMA ConvertMeans ==
  ASSUME NEW o \in Options, o.ch \in Kinds, Convert(o) # Unknown
  PROVE  Convert(o) \in Nat /\ StandsFor(o, Convert(o))
<1>1. CASE o.ch = "u"
  <2>1. Convert(o) = AId(o.arg, Passwd)
    BY <1>1 DEF Convert
  <2>2. Named(o) = Passwd /\ Numbers(o) = Number
    BY <1>1 DEF Named, Numbers
  <2>3. CASE o.arg \in DOMAIN Passwd
    BY <2>1, <2>2, <2>3, ValueAssumption DEF AId, StandsFor
  <2>4. CASE o.arg \notin DOMAIN Passwd
    <3>1. Convert(o) = ANum(o.arg, Number)
      BY <2>1, <2>4 DEF AId
    <3>2. /\ o.arg \in DOMAIN Number
          /\ Convert(o) \in 0..IntHalf - 1
          /\ (Strtol(Number[o.arg]) - Convert(o)) % (2 * IntHalf) = 0
      BY <3>1, ValueAssumption, ANumReads
    <3>3. Convert(o) \in Nat
      BY <3>2, WidthAssumption
    <3> QED BY <2>2, <2>4, <3>2, <3>3 DEF StandsFor
  <2> QED BY <2>3, <2>4
<1>2. CASE o.ch = "g"
  <2>1. Convert(o) = AId(o.arg, Group)
    BY <1>2 DEF Convert
  <2>2. Named(o) = Group /\ Numbers(o) = Number
    BY <1>2 DEF Named, Numbers
  <2>3. CASE o.arg \in DOMAIN Group
    BY <2>1, <2>2, <2>3, ValueAssumption DEF AId, StandsFor
  <2>4. CASE o.arg \notin DOMAIN Group
    <3>1. Convert(o) = ANum(o.arg, Number)
      BY <2>1, <2>4 DEF AId
    <3>2. /\ o.arg \in DOMAIN Number
          /\ Convert(o) \in 0..IntHalf - 1
          /\ (Strtol(Number[o.arg]) - Convert(o)) % (2 * IntHalf) = 0
      BY <3>1, ValueAssumption, ANumReads
    <3>3. Convert(o) \in Nat
      BY <3>2, WidthAssumption
    <3> QED BY <2>2, <2>4, <3>2, <3>3 DEF StandsFor
  <2> QED BY <2>3, <2>4
<1>3. CASE o.ch = "m"
  <2>1. Convert(o) = ANum(o.arg, Octal)
    BY <1>3 DEF Convert
  <2>2. Named(o) = <<>> /\ Numbers(o) = Octal
    BY <1>3 DEF Named, Numbers
  <2>3. o.arg \notin DOMAIN Named(o)
    BY <2>2
  <2>4. /\ o.arg \in DOMAIN Octal
        /\ Convert(o) \in 0..IntHalf - 1
        /\ (Strtol(Octal[o.arg]) - Convert(o)) % (2 * IntHalf) = 0
    BY <2>1, ValueAssumption, ANumReads
  <2>5. Convert(o) \in Nat
    BY <2>4, WidthAssumption
  <2> QED BY <2>2, <2>3, <2>4, <2>5 DEF StandsFor
<1> QED BY <1>1, <1>2, <1>3 DEF Kinds

-----------------------------------------------------------------------------
(* The command.                                                            *)

LEMMA TypeInit == Init => TypeOK
<1> SUFFICES ASSUME Init PROVE TypeOK
  OBVIOUS
<1>1. PICK n \in 0..MaxOptions : argv \in [1..n -> Options]
  BY DEF Init
<1>2. argv \in Seq(Options)
  BY <1>1, BoundAssumption, SeqDef
<1>3. next \in 1..Len(argv) + 1
  BY <1>2 DEF Init
<1>4. DOMAIN given \subseteq Kinds /\ given \in [DOMAIN given -> Nat]
  BY DEF Init
<1> QED BY <1>2, <1>3, <1>4 DEF Init, TypeOK

LEMMA TypeStep == TypeOK /\ [Next]_vars => TypeOK'
<1> SUFFICES ASSUME TypeOK, [Next]_vars PROVE TypeOK'
  OBVIOUS
<1> USE DEF TypeOK, pointVars
<1>1. CASE AttributeOption
  <2>1. argv[next] \in Options /\ argv[next].ch \in Kinds
    BY <1>1 DEF AttributeOption, AtOption, Here
  <2>2. Convert(Here) \in Nat
    BY <1>1, <2>1, ConvertMeans DEF AttributeOption, Here
  <2> QED BY <1>1, <2>2 DEF AttributeOption, AtOption
<1>2. CASE UnknownAttribute \/ MountOptionsFail \/ OtherOption
  BY <1>2 DEF UnknownAttribute, MountOptionsFail, OtherOption, Exit
<1>3. CASE MountOptions
  BY <1>3 DEF MountOptions, AtOption
<1>4. CASE WrongOperands \/ NoMountPoint \/ MountFails
  BY <1>4 DEF WrongOperands, NoMountPoint, MountFails, Exit
<1>5. CASE Inherit
  <2>1. dir \in [Kinds -> Nat]
    BY <1>5, ValueAssumption DEF Inherit
  <2> QED BY <1>5, <2>1 DEF Inherit
<1>6. CASE Mount
  BY <1>6 DEF Mount
<1>7. ASSUME NEW d \in Attrs \cup {NoDir}, ChangeDir(d) PROVE TypeOK'
  BY <1>7 DEF ChangeDir
<1>8. CASE UNCHANGED vars
  BY <1>8 DEF vars
<1> QED BY <1>1, <1>2, <1>3, <1>4, <1>5, <1>6, <1>7, <1>8
        DEF Next, BeforeMount

(* What has been read of the command line: every option could be           *)
(* converted, and an attribute is given by the last option that sets it.   *)
Last(i, k) ==
  /\ i < next /\ argv[i].ch = k
  /\ \A j \in 1..Len(argv) : j < next /\ argv[j].ch = k => j <= i

ReadInv ==
  /\ \A i \in 1..Len(argv) : i < next =>
       /\ argv[i].ch \in Kinds \cup {"o"}
       /\ argv[i].ch \in Kinds =>
            argv[i].ch \in DOMAIN given /\ Convert(argv[i]) # Unknown
  /\ \A k \in DOMAIN given :
       \E i \in 1..Len(argv) : Last(i, k) /\ given[k] = Convert(argv[i])

(* What is passed to mount(2) is what was given, with the rest inherited.  *)
ArgsInv ==
  /\ dir \in held
  /\ args # NoArgs =>
       /\ pc # "options" /\ next = Len(argv) + 1 /\ operands = 2
       /\ \E d \in held \ {NoDir} :
            args = [k \in Kinds |-> IF k \in DOMAIN given THEN given[k] ELSE d[k]]

CommandInv == TypeOK /\ ReadInv /\ ArgsInv

LEMMA CommandStep == CommandInv /\ [Next]_vars => CommandInv'
<1> SUFFICES ASSUME CommandInv, [Next]_vars PROVE (ReadInv /\ ArgsInv)'
  BY TypeStep DEF CommandInv
<1> USE DEF CommandInv, TypeOK, ReadInv, ArgsInv, Last, pointVars
<1>1. CASE AttributeOption
  <2>1. /\ next \in 1..Len(argv) /\ next' = next + 1 /\ argv' = argv
        /\ argv[next].ch \in Kinds /\ Convert(argv[next]) # Unknown
        /\ args = NoArgs /\ args' = args /\ dir' \in held'
        /\ DOMAIN given' = DOMAIN given \cup {argv[next].ch}
        /\ given'[argv[next].ch] = Convert(argv[next])
        /\ \A k \in DOMAIN given : k # argv[next].ch => given'[k] = given[k]
    BY <1>1 DEF AttributeOption, AtOption, Here
  <2>2. ASSUME NEW i \in 1..Len(argv'), i < next'
        PROVE  /\ argv'[i].ch \in Kinds \cup {"o"}
               /\ argv'[i].ch \in Kinds =>
                    argv'[i].ch \in DOMAIN given' /\ Convert(argv'[i]) # Unknown
    <3>1. CASE i = next
      BY <2>1, <3>1 DEF Kinds
    <3>2. CASE i < next
      BY <2>1, <3>2
    <3> QED BY <2>1, <2>2, <3>1, <3>2
  <2>3. ASSUME NEW k \in DOMAIN given'
        PROVE  \E i \in 1..Len(argv') :
                 Last(i, k)' /\ given'[k] = Convert(argv'[i])
    <3>1. CASE k = argv[next].ch
      <4>1. PICK n \in 1..Len(argv) : n = next
        BY <2>1
      <4>2. Last(n, k)'
        BY <2>1, <3>1, <4>1
      <4> QED BY <2>1, <3>1, <4>1, <4>2
    <3>2. CASE k # argv[next].ch
      <4>1. PICK i \in 1..Len(argv) : Last(i, k) /\ given[k] = Convert(argv[i])
        BY <2>1, <2>3, <3>2
      <4>2. Last(i, k)'
        BY <2>1, <3>2, <4>1
      <4> QED BY <2>1, <2>3, <3>2, <4>1, <4>2
    <3> QED BY <3>1, <3>2
  <2>4. ReadInv'
    BY <2>2, <2>3
  <2>5. ArgsInv'
    BY <2>1
  <2> QED BY <2>4, <2>5
<1>2. CASE UnknownAttribute \/ MountOptionsFail \/ OtherOption
  <2>1. args = NoArgs
    BY <1>2 DEF UnknownAttribute, MountOptionsFail, OtherOption, AtOption
  <2>2. UNCHANGED <<argv, operands, next, given, dir, held, args>>
    BY <1>2 DEF UnknownAttribute, MountOptionsFail, OtherOption, Exit
  <2> QED BY <2>1, <2>2
<1>3. CASE MountOptions
  <2>1. /\ next \in 1..Len(argv) /\ next' = next + 1 /\ argv' = argv
        /\ argv[next].ch = "o" /\ given' = given
        /\ args = NoArgs /\ args' = args /\ dir' \in held'
    BY <1>3 DEF MountOptions, AtOption, Here
  <2>2. \A k \in DOMAIN given : k # "o"
    BY DEF Kinds
  <2>3. ASSUME NEW i \in 1..Len(argv'), i < next'
        PROVE  /\ argv'[i].ch \in Kinds \cup {"o"}
               /\ argv'[i].ch \in Kinds =>
                    argv'[i].ch \in DOMAIN given' /\ Convert(argv'[i]) # Unknown
    <3>1. CASE i = next
      BY <2>1, <3>1 DEF Kinds
    <3>2. CASE i < next
      BY <2>1, <3>2
    <3> QED BY <2>1, <2>3, <3>1, <3>2
  <2>4. ASSUME NEW k \in DOMAIN given'
        PROVE  \E i \in 1..Len(argv') :
                 Last(i, k)' /\ given'[k] = Convert(argv'[i])
    <3>1. PICK i \in 1..Len(argv) : Last(i, k) /\ given[k] = Convert(argv[i])
      BY <2>1, <2>4
    <3>2. Last(i, k)'
      BY <2>1, <2>2, <2>4, <3>1
    <3> QED BY <2>1, <3>1, <3>2
  <2>5. ReadInv'
    BY <2>3, <2>4
  <2>6. ArgsInv'
    BY <2>1
  <2> QED BY <2>5, <2>6
<1>4. CASE WrongOperands \/ NoMountPoint \/ MountFails
  BY <1>4 DEF WrongOperands, NoMountPoint, MountFails, Exit
<1>5. CASE Inherit
  <2>1. dir \in held \ {NoDir}
    BY <1>5 DEF Inherit
  <2> QED BY <1>5, <2>1 DEF Inherit
<1>6. CASE Mount
  BY <1>6 DEF Mount
<1>7. ASSUME NEW d \in Attrs \cup {NoDir}, ChangeDir(d)
      PROVE  (ReadInv /\ ArgsInv)'
  BY <1>7 DEF ChangeDir
<1>8. CASE UNCHANGED vars
  BY <1>8 DEF vars
<1> QED BY <1>1, <1>2, <1>3, <1>4, <1>5, <1>6, <1>7, <1>8
        DEF Next, BeforeMount

LEMMA CommandInit == Init => CommandInv
<1> SUFFICES ASSUME Init PROVE ReadInv /\ ArgsInv
  BY TypeInit DEF CommandInv
<1>1. next = 1 /\ DOMAIN given = {} /\ args = NoArgs /\ dir \in held
  BY DEF Init
<1>2. \A i \in 1..Len(argv) : ~(i < next)
  BY <1>1, TypeInit DEF TypeOK
<1> QED BY <1>1, <1>2 DEF ReadInv, ArgsInv

LEMMA ArgsAreAsAsked == CommandInv => RootIsAsAsked
<1> SUFFICES ASSUME CommandInv, args # NoArgs PROVE RootIsAsAsked
  BY DEF RootIsAsAsked
<1> USE DEF CommandInv, TypeOK, ReadInv, ArgsInv, Last
<1>1. next = Len(argv) + 1
  OBVIOUS
<1>2. PICK d \in held \ {NoDir} :
        \A k \in Kinds : args[k] = IF k \in DOMAIN given THEN given[k] ELSE d[k]
  <2>1. PICK d \in held \ {NoDir} :
          args = [k \in Kinds |-> IF k \in DOMAIN given THEN given[k] ELSE d[k]]
    OBVIOUS
  <2> QED BY <2>1
<1>3. ASSUME NEW k \in Kinds, Asked(k) = {} PROVE args[k] = d[k]
  <2>1. k \notin DOMAIN given
    BY <1>3 DEF Asked
  <2> QED BY <1>2, <2>1
<1>4. ASSUME NEW k \in Kinds, Asked(k) # {}
      PROVE  StandsFor(argv[LastAsked(k)], args[k])
  <2>1. k \in DOMAIN given
    BY <1>1, <1>4 DEF Asked
  <2>2. PICK i \in 1..Len(argv) : Last(i, k) /\ given[k] = Convert(argv[i])
    BY <2>1
  <2>3. i \in Asked(k) /\ \A j \in Asked(k) : j <= i
    BY <1>1, <2>2 DEF Asked
  <2>4. LastAsked(k) = i
    <3>1. LastAsked(k) \in Asked(k) /\ \A j \in Asked(k) : j <= LastAsked(k)
      BY <2>3 DEF LastAsked
    <3>2. LastAsked(k) <= i /\ i <= LastAsked(k)
      BY <2>3, <3>1
    <3>3. LastAsked(k) \in Int
      BY <3>1 DEF Asked
    <3> QED BY <3>2, <3>3
  <2>5. argv[i] \in Options /\ argv[i].ch \in Kinds /\ Convert(argv[i]) # Unknown
    BY <1>1, <2>2
  <2>6. StandsFor(argv[i], given[k])
    BY <2>2, <2>5, ConvertMeans
  <2> QED BY <1>2, <2>1, <2>4, <2>6
<1> QED BY <1>2, <1>3, <1>4 DEF RootIsAsAsked

LEMMA ArgsAreUnderstood == CommandInv => NothingOnError
<1> SUFFICES ASSUME CommandInv, args # NoArgs, NEW i \in 1..Len(argv)
             PROVE  /\ argv[i].ch \in Kinds \cup {"o"}
                    /\ argv[i].ch \in Kinds =>
                         \/ argv[i].arg \in DOMAIN Named(argv[i])
                         \/ \E v \in 0..IntHalf - 1 : StandsFor(argv[i], v)
  BY DEF NothingOnError, CommandInv, ArgsInv
<1>1. i < next /\ argv[i] \in Options
  BY DEF CommandInv, TypeOK, ArgsInv
<1>2. argv[i].ch \in Kinds \cup {"o"}
  BY <1>1 DEF CommandInv, ReadInv
<1>3. ASSUME argv[i].ch \in Kinds, argv[i].arg \notin DOMAIN Named(argv[i])
      PROVE  \E v \in 0..IntHalf - 1 : StandsFor(argv[i], v)
  <2>1. Convert(argv[i]) # Unknown
    BY <1>1, <1>3 DEF CommandInv, ReadInv
  <2>2. StandsFor(argv[i], Convert(argv[i]))
    BY <1>1, <1>3, <2>1, ConvertMeans
  <2>3. Convert(argv[i]) \in 0..IntHalf - 1
    BY <1>3, <2>2 DEF StandsFor
  <2> QED BY <2>2, <2>3
<1> QED BY <1>2, <1>3

-----------------------------------------------------------------------------
(* The command and the file system together: what the kernel does with the *)
(* mount takes no part in what the command does.                           *)

LEMMA RequestLeavesCommand == Request => UNCHANGED <<vars, mountInfo, asked>>
BY DEF Request, Answer, CwfsStatfs, CwfsGetattr, CwfsAccess, CwfsSetattr,
       CwfsBmap, CwfsPathconf, CwfsPoll, CwfsStub

(* A mount without a device name is turned away.                           *)
LEMMA CommandIsTurnedAway ==
  CommandMount => /\ MountFails
                  /\ UNCHANGED <<mountInfo, asked>>
                  /\ answer' = [op |-> "mount", by |-> "mount_cwfs", error |-> "EFAULT"]
<1>1. MountError["null"] = "EFAULT" /\ Ok # "EFAULT"
  BY DEF MountError, Ok
<1> QED BY <1>1 DEF CommandMount, CwfsMount

LEMMA RootStepIsStep == [RootNext]_<<vars, rootVars>> => [Next]_vars
<1>1. CommandMount => Next
  BY CommandIsTurnedAway DEF Next, BeforeMount
<1>2. CommandUpdate => Next
  BY DEF CommandUpdate, Next
<1>3. \A a, fspec : OtherMount(a, fspec) => UNCHANGED vars
  BY DEF OtherMount
<1>4. \A a : OtherUpdate(a) => UNCHANGED vars
  BY DEF OtherUpdate
<1> QED BY <1>1, <1>2, <1>3, <1>4, RequestLeavesCommand DEF RootNext, Next

(* The command under the file system's requests is the command alone: all  *)
(* that is said of MountCwfs holds of CwfsRoot.                            *)
THEOREM RootIsMountCwfs == RootSpec => Spec
<1>1. RootInit => Init
  BY DEF RootInit
<1> QED BY <1>1, RootStepIsStep, PTL DEF RootSpec, Spec

LEMMA CommandInvariant == Spec => []CommandInv
BY CommandInit, CommandStep, PTL DEF Spec

(* The options, attributes and arguments of the command keep their types.  *)
THEOREM TypeCorrect == Spec => []TypeOK
BY CommandInvariant, PTL DEF CommandInv

(* What is passed to mount(2) is what the last option for each attribute   *)
(* stands for, and the rest is the mount point's of one moment, for        *)
(* command lines of any length and widths of int and long.                 *)
THEOREM AttributesAsAsked == Spec => []RootIsAsAsked
BY CommandInvariant, ArgsAreAsAsked, PTL

(* Nothing is passed to mount(2) when an option has no case of its own, or *)
(* an argument neither is a name nor has the low bits of a valid int.      *)
THEOREM NothingAfterError == Spec => []NothingOnError
BY CommandInvariant, ArgsAreUnderstood, PTL

(* Without -o update the command never succeeds: with a device, the first  *)
(* mount wants a name for it, which mount_cwfs does not give.              *)
DoneInv == pc = "done" => update

LEMMA DoneStep == DoneInv /\ [RootNext]_<<vars, rootVars>> => DoneInv'
<1> SUFFICES ASSUME DoneInv, [RootNext]_<<vars, rootVars>> PROVE DoneInv'
  OBVIOUS
<1> USE DEF DoneInv
<1>1. BeforeMount => pc' # "done"
  BY DEF BeforeMount, AttributeOption, UnknownAttribute, MountOptions,
     MountOptionsFail, OtherOption, WrongOperands, NoMountPoint, Inherit,
     MountFails, ChangeDir, AtOption, Exit
<1>2. MountFails => pc' # "done"
  BY DEF MountFails, Exit
<1>3. CASE CommandMount
  BY <1>2, <1>3, CommandIsTurnedAway
<1>4. CASE CommandUpdate
  BY <1>4 DEF CommandUpdate, Mount
<1>5. CASE UNCHANGED vars
  BY <1>5 DEF vars
<1>6. \A a, fspec : OtherMount(a, fspec) => UNCHANGED vars
  BY DEF OtherMount
<1>7. \A a : OtherUpdate(a) => UNCHANGED vars
  BY DEF OtherUpdate
<1> QED BY <1>1, <1>3, <1>4, <1>5, <1>6, <1>7, RequestLeavesCommand DEF RootNext

THEOREM OnlyUpdatesSucceed == RootSpec => [](pc = "done" => update)
<1>1. RootInit => DoneInv
  BY DEF RootInit, Init, DoneInv
<1>2. DoneInv => (pc = "done" => update)
  BY DEF DoneInv
<1> QED BY <1>1, <1>2, DoneStep, PTL DEF RootSpec

-----------------------------------------------------------------------------
(* Requests.                                                               *)

(* The kernel remembers the arguments of the mount, and tells them.        *)
MountInv ==
  /\ mountInfo = asked
  /\ answer.op = "statfs" => mountInfo # NoArgs /\ answer.info = asked

(* Any request but the one at hand leaves nothing to say.                  *)
AnswerInv ==
  /\ GrantsWithinMode
  /\ ReadaheadInFile

(* With no mode, only the superuser is granted anything, and he nothing    *)
(* that getattr's mode and owner would refuse him.                         *)
LEMMA AccessIsWithin ==
  ASSUME NEW want, NEW cred, Access(want, cred), want # {}
  PROVE  Vaccess(Getattr.type, Getattr.mode, Getattr.uid, Getattr.gid, want, cred)
BY DEF Access, Vaccess, Node, Getattr

LEMMA RunIsZero ==
  ASSUME NEW bn \in Nat, bn < IntHalf PROVE Run(bn) = 0
<1>1. 0 - (bn + 1) \in -IntHalf..IntHalf - 1
  BY WidthAssumption
<1>2. ToInt(0 - (bn + 1)) = 0 - (bn + 1)
  BY <1>1, ToIntIsExact
<1> QED BY <1>2 DEF Run, Node

LEMMA RequestStep == AnswerInv /\ RootNext => AnswerInv'
<1> SUFFICES ASSUME AnswerInv, RootNext PROVE AnswerInv'
  OBVIOUS
<1> USE DEF AnswerInv, GrantsWithinMode, ReadaheadInFile, Ok
<1>1. CASE BeforeMount /\ UNCHANGED rootVars
  BY <1>1 DEF rootVars
<1>2. CASE CommandMount
  BY <1>2 DEF CommandMount, CwfsMount
<1>3. CASE CommandUpdate
  BY <1>3 DEF CommandUpdate, CwfsMountUpdate
<1>4. ASSUME NEW a \in Attrs, OtherUpdate(a) PROVE AnswerInv'
  BY <1>4 DEF OtherUpdate, CwfsMountUpdate
<1>5. ASSUME NEW a \in Attrs, NEW fspec \in DOMAIN MountError, OtherMount(a, fspec)
      PROVE  AnswerInv'
  BY <1>5 DEF OtherMount, CwfsMount
<1>6. CASE Request
  <2> USE DEF Answer
  <2>1. CASE CwfsStatfs \/ CwfsGetattr
    BY <2>1 DEF CwfsStatfs, CwfsGetattr
  <2>2. ASSUME NEW cred \in Creds, NEW want \in (SUBSET Perms) \ {{}},
               CwfsAccess(want, cred)
        PROVE  AnswerInv'
    <3>1. /\ answer'.op = "access"
          /\ answer'.want = want /\ answer'.cred = cred
          /\ answer'.error = Ok => Access(want, cred)
      BY <2>2 DEF CwfsAccess
    <3>2. Access(want, cred) =>
            Vaccess(Getattr.type, Getattr.mode, Getattr.uid, Getattr.gid, want, cred)
      BY AccessIsWithin
    <3>3. GrantsWithinMode'
      BY <3>1, <3>2 DEF Vaccess, Getattr, Node
    <3> QED BY <3>1, <3>3
  <2>3. ASSUME NEW changed, CwfsSetattr(changed) PROVE AnswerInv'
    <3>1. SetattrError(changed) # Ok
      BY DEF SetattrError, Node
    <3> QED BY <2>3, <3>1 DEF CwfsSetattr
  <2>4. ASSUME NEW bn \in Blocks, CwfsBmap(bn) PROVE AnswerInv'
    <3>1. /\ answer'.op = "bmap"
          /\ answer'.asked = bn /\ answer'.run = Run(bn)
      BY <2>4 DEF CwfsBmap
    <3>2. bn < IntHalf => Run(bn) = 0
      BY BlockAssumption, RunIsZero
    <3> QED BY <3>1, <3>2
  <2>5. ASSUME NEW limit, CwfsPathconf(limit) PROVE AnswerInv'
    BY <2>5 DEF CwfsPathconf
  <2>6. ASSUME NEW events, CwfsPoll(events) PROVE AnswerInv'
    BY <2>6 DEF CwfsPoll
  <2>7. ASSUME NEW op \in DOMAIN Idle, CwfsStub(Idle, op) PROVE AnswerInv'
    BY <2>7 DEF CwfsStub, Idle
  <2>8. ASSUME NEW op \in DOMAIN Unsupported, CwfsStub(Unsupported, op)
        PROVE  AnswerInv'
    BY <2>8 DEF CwfsStub, Unsupported
  <2>9. ASSUME NEW op \in DOMAIN ReadOnlyDirs, CwfsStub(ReadOnlyDirs, op)
         PROVE  AnswerInv'
    BY <2>9 DEF CwfsStub, ReadOnlyDirs
  <2>10. ASSUME NEW op \in DOMAIN Senseless, CwfsStub(Senseless, op)
         PROVE  AnswerInv'
    BY <2>10 DEF CwfsStub, Senseless
  <2> QED BY <1>6, <2>1, <2>2, <2>3, <2>4, <2>5, <2>6, <2>7, <2>8,
             <2>9, <2>10 DEF Request
<1> QED BY <1>1, <1>2, <1>3, <1>4, <1>5, <1>6 DEF RootNext

LEMMA AnswersAreRight == RootSpec => []AnswerInv
<1>1. RootInit => AnswerInv
  BY DEF RootInit, AnswerInv, GrantsWithinMode, ReadaheadInFile
<1>2. AnswerInv /\ UNCHANGED <<vars, rootVars>> => AnswerInv'
  BY DEF rootVars, AnswerInv, GrantsWithinMode, ReadaheadInFile
<1> QED BY <1>1, <1>2, RequestStep, PTL DEF RootSpec

(* Nobody is granted more than the mode and owner that he is shown.        *)
THEOREM GrantsAreWithin == RootSpec => []GrantsWithinMode
BY AnswersAreRight, PTL DEF AnswerInv

(* Readahead stays in the file for block numbers that fit an int.          *)
THEOREM ReadaheadIsInFile == RootSpec => []ReadaheadInFile
BY AnswersAreRight, PTL DEF AnswerInv

LEMMA MountStep == MountInv /\ [RootNext]_<<vars, rootVars>> => MountInv'
<1> SUFFICES ASSUME MountInv, [RootNext]_<<vars, rootVars>> PROVE MountInv'
  OBVIOUS
<1> USE DEF MountInv
<1>1. CASE BeforeMount /\ UNCHANGED rootVars
  BY <1>1 DEF rootVars
<1>2. CASE CommandMount
  BY <1>2, CommandIsTurnedAway
<1>3. CASE CommandUpdate
  BY <1>3 DEF CommandUpdate, CwfsMountUpdate
<1>4. ASSUME NEW a \in Attrs, OtherUpdate(a) PROVE MountInv'
  BY <1>4 DEF OtherUpdate, CwfsMountUpdate
<1>5. ASSUME NEW a \in Attrs, NEW fspec \in DOMAIN MountError, OtherMount(a, fspec)
      PROVE  MountInv'
  <2>1. mountInfo' = asked'
    BY <1>5 DEF OtherMount, CwfsMount
  <2>2. answer'.op = "mount"
    BY <1>5 DEF OtherMount, CwfsMount
  <2> QED BY <2>1, <2>2
<1>6. CASE Request
  <2>1. answer'.op = "statfs" => mountInfo # NoArgs /\ answer'.info = mountInfo
    BY <1>6 DEF Request, Mounted, Answer, CwfsStatfs, CwfsGetattr, CwfsAccess,
         CwfsSetattr, CwfsBmap, CwfsPathconf, CwfsPoll, CwfsStub,
         Idle, Unsupported, ReadOnlyDirs, Senseless
  <2> QED BY <1>6, <2>1, RequestLeavesCommand
<1>7. CASE UNCHANGED <<vars, rootVars>>
  BY <1>7 DEF rootVars
<1> QED BY <1>1, <1>2, <1>3, <1>4, <1>5, <1>6, <1>7 DEF RootNext

(* statfs tells the arguments that the mount was made with, whatever       *)
(* updates follow it.                                                      *)
THEOREM ArgsAreRemembered == RootSpec => []AskedIsTold
<1>1. RootInit => MountInv
  BY DEF RootInit, MountInv
<1>2. MountInv => AskedIsTold
  BY DEF MountInv, AskedIsTold
<1> QED BY <1>1, <1>2, MountStep, PTL DEF RootSpec
=============================================================================
