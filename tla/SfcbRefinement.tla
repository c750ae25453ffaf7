--------------------------- MODULE SfcbRefinement ---------------------------
(***************************************************************************)
(* The flash circular buffer implements KeyStore.  The store is not read   *)
(* off the RAM of the running program but off the flash alone, the way a   *)
(* mount after a power failure at this very moment would read it.          *)
(***************************************************************************)
EXTENDS Sfcb, Sequences

CONSTANT Missing

Content(c, ate) == [k \in 1..ate.len |-> c[ate.offset + k - 1]]

(* sfcb_read on file system f with write sector wr: the last entry of the  *)
(* walk with this identifier.                                              *)
Met(f, i) == {e \in Sector \X Slot : /\ e[2] \in Entries(f[e[1]])
                                     /\ f[e[1]][e[2]].id = i}

Read(f, wr, i) ==
  LET found == Met(f, i)
      last  == CHOOSE e \in found : \A o \in found :
                 \/ Age(wr, o[1]) < Age(wr, e[1])
                 \/ o[1] = e[1] /\ o[2] >= e[2]
  IN  IF found = {} THEN Missing
      ELSE Content(f[last[1]], f[last[1]][last[2]])

(* Where the mount fails the client formats, and nothing is left.          *)
Recovered == [i \in Ids |-> IF Mountable(flash)
                              THEN Read(flash, FsCheck(flash), i)
                              ELSE Missing]

Written(n, v) == [k \in 1..n |-> Data(v)]

ASSUME PendingAssumption ==
  \A i \in Ids, n \in Lens, v \in Values :
    [id |-> i, content |-> Written(n, v)] # NoReq

Pending == IF req = NoReq THEN NoReq
           ELSE [id |-> req.id, content |-> Written(req.len, req.val)]

Store == INSTANCE KeyStore WITH
           Contents <- {Written(n, v) : n \in Lens, v \in Values},
           store <- Recovered,
           request <- Pending

(* Every step of sfcb.c, torn or not, is a step of the store it promises.  *)
PowerFailSafe == Store!Spec

(* Once sfcb_format has been round all sectors nothing of the old contents *)
(* can be read again, although it leaves sectors alone whose first ATE is  *)
(* empty and with them their sector starts.                                *)
FormatEmpties ==
  [][at = "format" /\ cur = NSectors
       => \A i \in Ids : Recovered'[i] = Missing]_vars
=============================================================================
