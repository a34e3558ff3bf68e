----------------------------- MODULE RunLedger -----------------------------
(***************************************************************************)
(* What the runs table of the automations service promises its readers,    *)
(* whatever processes, queues and restarts are behind it: a ledger of runs *)
(* which are asked for, taken up one at a time in that order, and settled. *)
(***************************************************************************)
EXTENDS Naturals, Sequences

VARIABLE ledger

At(stage) == {r \in DOMAIN ledger : ledger[r] = stage}

Init == ledger = <<>>

\* A run is asked for; one for which there is no room is settled at once.
Ask == \E stage \in {"queued", "settled"} : ledger' = Append(ledger, stage)

\* The oldest one that waits is taken up.
TakeUp ==
    /\ At("running") = {}
    /\ \E r \in At("queued") :
          /\ \A q \in At("queued") : r <= q
          /\ ledger' = [ledger EXCEPT ![r] = "running"]

Settle == \E r \in At("running") : ledger' = [ledger EXCEPT ![r] = "settled"]

\* A restart gives up on whatever was under way.
GiveUp == ledger' = [r \in DOMAIN ledger |-> "settled"]

Next == Ask \/ TakeUp \/ Settle \/ GiveUp

Spec == Init /\ [][Next]_ledger
=============================================================================
