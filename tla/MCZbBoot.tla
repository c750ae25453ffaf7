------------------------------- MODULE MCZbBoot -------------------------------
(* A small instance of a ZB-8 device for TLC.                              *)
EXTENDS ZbBoot

Image_(kind, version, conf) ==
  [name |-> kind, kind |-> kind, version |-> version, conf |-> conf]

First == [run  |-> Image_("run", 1, TRUE), swpr |-> Image_("swpr", 1, TRUE),
          ldr  |-> Image_("ldr", 1, TRUE)]

Sent == {Image_("run", 1, FALSE), Image_("run", 2, TRUE), Image_("swpr", 2, FALSE),
         Image_("swpr", 2, TRUE), Image_("ldr", 2, TRUE)}

All == Sent \cup {First[a] : a \in DOMAIN First}
=============================================================================
