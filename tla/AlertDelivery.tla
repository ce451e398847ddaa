---------------------------- MODULE AlertDelivery ----------------------------
(***************************************************************************)
(* What the rest of the system may rely on: the alerts of a flip go out at *)
(* most once.  A flip is identified by its number.  It waits, is claimed   *)
(* by one process, and its alerts are sent; on the way it may be dropped,  *)
(* because nobody is to hear of it, its check was deleted or cleared, or a *)
(* process crashed.  How processes find and claim flips is not said here.  *)
(***************************************************************************)
EXTENDS Naturals

VARIABLES
    last,       \* the last flip recorded
    waiting,    \* flips whose alerts are to be sent
    claimed,    \* flips whose alerts are being sent
    sent        \* flips whose alerts have been sent

dVars == <<last, waiting, claimed, sent>>

DInit ==
    /\ last = 0
    /\ waiting = {}
    /\ claimed = {}
    /\ sent = {}

\* A status change is recorded, and is to be alerted unless the user made it.
Record ==
    /\ last' = last + 1
    /\ \/ waiting' = waiting \cup {last + 1}
       \/ waiting' = waiting
    /\ UNCHANGED <<claimed, sent>>

Claim(n) ==
    /\ n \in waiting
    /\ waiting' = waiting \ {n}
    /\ claimed' = claimed \cup {n}
    /\ UNCHANGED <<last, sent>>

Send(n) ==
    /\ n \in claimed
    /\ claimed' = claimed \ {n}
    /\ sent' = sent \cup {n}
    /\ UNCHANGED <<last, waiting>>

Drop ==
    /\ waiting' \subseteq waiting
    /\ claimed' \subseteq claimed
    /\ UNCHANGED <<last, sent>>

DNext ==
    \/ Record
    \/ \E n \in waiting : Claim(n)
    \/ \E n \in claimed : Send(n)
    \/ Drop

DSpec == DInit /\ [][DNext]_dVars
=============================================================================
