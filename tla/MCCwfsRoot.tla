----------------------------- MODULE MCCwfsRoot -----------------------------
(***************************************************************************)
(* A small instance of CwfsRoot for TLC, with an int of three bits and a   *)
(* long of five.  Of the texts, "joe" names user 1 and reads as 3, "two"   *)
(* names group 0 and reads as 2, "minus" and "huge" are negative, "big"    *)
(* and "huge" do not fit an int, and "junk" is neither a name nor a number.*)
(***************************************************************************)
EXTENDS CwfsRoot, TLC

CONSTANTS joe, two, minus, big, huge, junk

MCTexts == {joe, two, minus, big, huge, junk}
MCPasswd == joe :> 1
MCGroup == two :> 0
MCNumber == joe :> 3 @@ two :> 2 @@ minus :> -2 @@ big :> 9 @@ huge :> -100
MCOctal == two :> 2 @@ minus :> -2 @@ big :> 13 @@ huge :> -100
MCAttrs == {[u |-> 0, g |-> 5, m |-> 7], [u |-> 6, g |-> 0, m |-> 5]}

(* The superuser, a member of the root's group, and a stranger.            *)
MCCreds == {[uid |-> 0, gids |-> {}], [uid |-> 2, gids |-> {0}], [uid |-> 2, gids |-> {2}]}

(* Requests are made, and other programs' mounts fail, only beside an      *)
(* empty command line.  These steps neither read nor change what the       *)
(* command keeps, and what it passes to mount(2) any other program may     *)
(* pass as well: with every command line they would multiply the states    *)
(* and show nothing new.                                                   *)
ByCommand == answer'.op = "mount" /\ answer'.by = "mount_cwfs"
Changes == answer'.op \in {"mount", "update"} /\ answer'.error = Ok

RequestsBesideEmptyLine ==
  answer' # answer /\ ~ByCommand /\ ~Changes => argv = <<>>
=============================================================================
