------------------------------ MODULE ImageSwap -----------------------------
(***************************************************************************)
(* What ZB-8 promises of a classic slot area: the image installed in the   *)
(* run slot and the spare one in the upgrade slot change places at once,   *)
(* and an image never replaces one of a higher version (readme.md,         *)
(* "Downgrade protection").                                                *)
(***************************************************************************)
EXTENDS Integers

CONSTANTS Images, NoImage

VARIABLES installed, spare

vars == <<installed, spare>>

Init == installed \in Images \cup {NoImage} /\ spare = NoImage

(* An image is being received, or has been.                                *)
Receive ==
  /\ spare' \in Images \cup {NoImage}
  /\ UNCHANGED installed

Lower(m, o) == \/ m.major < o.major
               \/ m.major = o.major /\ m.minor < o.minor

Swap ==
  /\ spare # NoImage
  /\ installed # NoImage => ~ Lower(spare, installed)
  /\ installed' = spare /\ spare' = installed

Next == Receive \/ Swap

Spec == Init /\ [][Next]_vars
=============================================================================
