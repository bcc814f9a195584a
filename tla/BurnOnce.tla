------------------------------- MODULE BurnOnce -------------------------------
(***************************************************************************)
(* What something that is good for one use promises, without saying how: a *)
(* burn-after-read paste, a recovery code.  It is published once, is used  *)
(* at most once, by the one request that took it out of the store, and     *)
(* once it has left the store it never comes back.                         *)
(***************************************************************************)
EXTENDS Naturals

CONSTANT Item

VARIABLES
    status,  \* where each of them is
    shown    \* how often it was used: a body handed out, a session opened

abstract == <<status, shown>>

Status == {"unborn", "kept", "owed", "gone"}

Init ==
    /\ status = [id \in Item |-> "unborn"]
    /\ shown = [id \in Item |-> 0]

Publish(id) ==
    /\ status[id] = "unborn"
    /\ status' = [status EXCEPT ![id] = "kept"]
    /\ UNCHANGED shown

(* One request takes it: nobody else can any more. *)
Burn(id) ==
    /\ status[id] = "kept"
    /\ status' = [status EXCEPT ![id] = "owed"]
    /\ UNCHANGED shown

(* It gets what it took it for, or is lost on its way. *)
Show(id) ==
    /\ status[id] = "owed"
    /\ status' = [status EXCEPT ![id] = "gone"]
    /\ \/ shown' = [shown EXCEPT ![id] = @ + 1]
       \/ UNCHANGED shown

(* Deletion, replacement, expiry and the end of the owner's account. *)
Withdraw(ids) ==
    /\ \A id \in ids : status[id] = "kept"
    /\ status' = [id \in Item |-> IF id \in ids THEN "gone" ELSE status[id]]
    /\ UNCHANGED shown

Next ==
    \/ \E id \in Item : Publish(id) \/ Burn(id) \/ Show(id)
    \/ \E ids \in SUBSET Item : Withdraw(ids)

Spec == Init /\ [][Next]_abstract

-----------------------------------------------------------------------------
(* At most one use, and none while it can still be taken.                   *)
AtMostOneReader ==
    \A id \in Item :
        /\ status[id] \in Status
        /\ shown[id] \in 0..(IF status[id] = "gone" THEN 1 ELSE 0)
=============================================================================
