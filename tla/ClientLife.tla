----------------------------- MODULE ClientLife -----------------------------
(***************************************************************************)
(* What the rest of the system relies on about one client: its context may *)
(* end first, and whoever closes it, it is closed once, then its shutdown  *)
(* is announced, then its actions are closed, in this order and never      *)
(* back.  A panic of any goroutine ends the process.                       *)
(*                                                                         *)
(* Lifecycle implements it with the steps of Close and everybody who calls *)
(* it; Registry and Sockets, which know of a client's life no more than    *)
(* this, are written against it.                                           *)
(***************************************************************************)

VARIABLE life

LifeInit == life = "open"

Step(from, to) == life \in from /\ life' = to

Cancel == Step({"open"}, "cancelled")
Close == Step({"open", "cancelled"}, "closed")
Announce == Step({"closed"}, "shut")
Finish == Step({"shut"}, "finished")
Die == Step({"open", "cancelled", "closed", "shut", "finished"}, "dead")

LifeNext == Cancel \/ Close \/ Announce \/ Finish \/ Die

LifeStep == [LifeNext]_life

LifeSpec == LifeInit /\ [][LifeNext]_life

(* What was begun is ended: a client that is closed is announced, and its  *)
(* actions are closed.                                                     *)
EndedLife == LifeSpec /\ WF_life(Announce) /\ WF_life(Finish)
=============================================================================
