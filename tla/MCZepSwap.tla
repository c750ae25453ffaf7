------------------------------ MODULE MCZepSwap -----------------------------
(* A small instance of ZEPboot for TLC: an image to be tried against the   *)
(* first one, and one that is decrypted in slot 1 and runs there.          *)
EXTENDS ZepSwap

Image(name, size, load, version) ==
  [name |-> name, size |-> size, enc |-> TRUE, load |-> load,
   version |-> version]

Old    == Image("old", 2, "slot0", 1)
New    == Image("new", 1, "slot0", 2)
Second == Image("second", 2, "slot1", 1)

All  == {Old, New, Second}
Sent == {New, Second}
=============================================================================
