------------------------------- MODULE MCZbSwap -----------------------------
(* Small instances of the swap for TLC.                                    *)
EXTENDS ZbSwapRefinement

Image(name, size, enc, conf, major, minor) ==
  [name |-> name, size |-> size, enc |-> enc, conf |-> conf,
   major |-> major, minor |-> minor]

OldEnc   == Image("old", 2, TRUE, TRUE, 1, 0)
OldPlain == Image("plain", 2, FALSE, TRUE, 1, 0)
NewEnc   == Image("new", 2, TRUE, TRUE, 1, 1)
TestEnc  == Image("test", 2, TRUE, FALSE, 1, 0)
Small    == Image("small", 1, TRUE, TRUE, 1, 1)
SmallTest == Image("smalltest", 1, FALSE, FALSE, 1, 1)
PlainTest == Image("plaintest", 1, FALSE, FALSE, 1, 0)
Large    == Image("large", 3, TRUE, FALSE, 1, 0)

JustOld  == {OldEnc}
JustNew  == {NewEnc}
Three    == {OldEnc, NewEnc, Large}
Smalls   == {Small, SmallTest}
EncSmall == Three \cup Smalls
OldNew   == {OldEnc, NewEnc}
JustOldPlain == {OldPlain}
Plains   == {OldPlain, PlainTest}
JustPlainTest == {PlainTest}

(* The images for a device of each layout                                  *)
Only(set)   == [in_pl \in BOOLEAN |-> set]
ByLayout    == [in_pl \in BOOLEAN |-> IF in_pl THEN Three ELSE Smalls]
OnlyNew     == Only(JustNew)
OnlyPlainTest == Only(JustPlainTest)

AnyPlace == {"swap", "wipe", "cmd", "copy", "log", "unsign", "sign", "upload"}
=============================================================================
