---------------------------- MODULE MCArtifacts ----------------------------
(***************************************************************************)
(* Artifacts on small instances.  To keep them small,                      *)
(*   - the second service is started when the first holds the lock,        *)
(*   - a process dies only in the middle of one insertion or of the sweep, *)
(*   - no insertion begins while another has a directory, a direct one is  *)
(*     of what is not in the inbox, and one by request begins only in a    *)
(*     race with the watcher's for a number, before anything has died, and *)
(*   - a Status is asked for the first directory only, while the one       *)
(*     insertion under way or the sweep is at work on it.                  *)
(***************************************************************************)
EXTENDS Artifacts

CONSTANTS s1, s2

AtWorkOn(id) == Live(id) \/ sweep.id = id

UnderWay == {k \in Slots : machine[k] # Idle}

Begun == {k \in Slots : machine[k] = Idle /\ machine'[k] # Idle}

MCNext ==
    /\ Next
    /\ service[s2] = "down" /\ service'[s2] # "down" => lock = s1
    /\ service[s2] # "down" => service'[s2] # "down"
    /\ deaths' # deaths => machine["api"] = Idle /\ (Cardinality(UnderWay) = 1 \/ sweep.id # 0)
    /\ Begun # {} => Working = {}
    /\ "direct" \in Begun => \A f \in machine'["direct"].files : place[f] = Desk
    /\ "api" \in Begun => UnderWay = {"inbox"} /\ deaths = 0 /\ dirs = <<>>
    /\ deletes' # deletes => UnderWay = {} /\ \A s \in Services : service[s] # "down"
    /\ reader = NoReader /\ reader' # NoReader =>
          reader'.id = 1 /\ AtWorkOn(1) /\ Cardinality(UnderWay) <= 1

MCSpec == Init /\ [][MCNext]_vars /\ Fairness
=============================================================================
