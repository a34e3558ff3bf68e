------------------------------ MODULE MCNudges ------------------------------
(* Nudges on a project in a project, of which the outer one has an owner.    *)
(* Two ticks overlap only once the inner project is deleted, and before the  *)
(* bot is or the process dies.                                               *)
EXTENDS Nudges

CONSTANTS b1, t1, t2

MCProjects ==
    <<[parent |-> None, owner |-> b1, last |-> NeverRecorded],
      [parent |-> 1, owner |-> NoBot, last |-> NeverRecorded]>>

MCNext ==
    /\ Next
    /\ tick'[t2] # Idle =>
           2 \notin DOMAIN projects /\ faults' = 0 /\ leaving' = [b \in Bots |-> "no"]

MCSpec == Init /\ [][MCNext]_vars /\ Fairness

=============================================================================
