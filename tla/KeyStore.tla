------------------------------ MODULE KeyStore ------------------------------
(***************************************************************************)
(* What src/sfcb/README.md promises its user: sfcb_read returns what was   *)
(* written last, a location is updated when it is closed and not before,   *)
(* and a power failure falls back to the last known good state.  Only the  *)
(* identifiers the compress routine does not keep may go missing, and then *)
(* altogether: an older content never comes back.                          *)
(***************************************************************************)
CONSTANTS Ids, Contents, KeepIds, Missing, NoReq

VARIABLES store,     \* what a read of each identifier returns
          request    \* the write under way

vars == <<store, request>>

Init == store = [i \in Ids |-> Missing] /\ request = NoReq

Without(ids) == [i \in Ids |-> IF i \in ids THEN Missing ELSE store[i]]

(* sfcb_open_loc is called *)
Begin(r) == request = NoReq /\ request' = r /\ UNCHANGED store

(* sfcb_close_loc *)
Commit ==
  /\ request # NoReq
  /\ store' = [store EXCEPT ![request.id] = request.content]
  /\ request' = NoReq

(* an error, or power is lost, perhaps while a sector is being erased *)
Abort ==
  /\ request' = NoReq
  /\ \E ids \in SUBSET (Ids \ KeepIds) : store' = Without(ids)

(* a sector is erased *)
Forget ==
  /\ \E ids \in SUBSET (Ids \ KeepIds) : store' = Without(ids)
  /\ UNCHANGED request

Next == \/ \E i \in Ids, c \in Contents : Begin([id |-> i, content |-> c])
        \/ Commit \/ Abort \/ Forget

Spec == Init /\ [][Next]_vars
=============================================================================
