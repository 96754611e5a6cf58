------------------------------ MODULE MCReach -------------------------------
(***************************************************************************)
(* Instances of what makes something reachable for others: public ingress, *)
(* resources carried by several devices, private services and shares.      *)
(*                                                                         *)
(* The components share no state at this level, so `focus` picks, once and *)
(* for all, the one whose steps a behaviour shows; the others stay as they *)
(* started, and fairness is asked of the one that runs.                    *)
(***************************************************************************)
EXTENDS Ingress, Distribution, Services, Shares

VARIABLE focus

reachVars == <<ingressVars, distVars, serviceVars, shareVars, focus>>

ReachInit ==
  /\ focus \in {"ingress", "distribution", "services", "shares"}
  /\ IngressInit /\ DistributionInit /\ ServicesInit /\ SharesInit
  /\ focus # "ingress" => \A r \in PubRoutes : pubRows[r] = NoRoute
  /\ focus # "services" => svc.on = "none"
  /\ focus # "shares" => net = CHOOSE n \in NetPolicies : TRUE

ReachNext ==
  \/ /\ focus = "ingress" /\ IngressNext
     /\ UNCHANGED <<distVars, serviceVars, shareVars, focus>>
  \/ /\ focus = "distribution" /\ DistributionNext
     /\ UNCHANGED <<ingressVars, serviceVars, shareVars, focus>>
  \/ /\ focus = "services" /\ ServicesNext
     /\ UNCHANGED <<ingressVars, distVars, shareVars, focus>>
  \/ /\ focus = "shares" /\ SharesNext
     /\ UNCHANGED <<ingressVars, distVars, serviceVars, focus>>

(* IngressFairness, DistributionFairness, ServicesFairness and              *)
(* SharesFairness, of the component that runs.                             *)
ReachFairness ==
  /\ WF_ingressVars(focus = "ingress" /\ NodeStep) /\ WF_ingressVars(focus = "ingress" /\ PatchWrite)
  /\ WF_ingressVars(focus = "ingress" /\ SecondPasses)
  /\ \A f \in Fetches : WF_ingressVars(focus = "ingress" /\ CloseTunnel(f))
  /\ WF_distVars(focus = "distribution" /\ ClientPoll) /\ WF_distVars(focus = "distribution" /\ ExpireLeases)
  /\ \A w \in Watchers : WF_distVars(focus = "distribution" /\ LivenessCheck(w))
  /\ \A n \in Servers : WF_serviceVars(focus = "services" /\ AgentPass(n))
  /\ WF_serviceVars(focus = "services" /\ CompileRecords) /\ WF_serviceVars(focus = "services" /\ RecordsLapse)
  /\ SF_serviceVars(focus = "services" /\ ServiceSecond)
  /\ \A b \in Boxes : WF_shareVars(focus = "shares" /\ Turn(b))
  /\ \A b \in Publishers : WF_shareVars(focus = "shares" /\ CommandPublish(b))

ReachSpec == ReachInit /\ [][ReachNext]_reachVars /\ ReachFairness

(* TableCatchesUp of the behaviours that show the ingress node: elsewhere   *)
(* it never asks for its table.                                            *)
IngressCatchesUp == focus = "ingress" => TableCatchesUp
-----------------------------------------------------------------------------
CarrierOrder == <<"a", "b">>
DomainOrder == <<"d">>

(* A member shares from a tagged device, an administrator in a team reads.  *)
Who == [b \in Boxes |-> IF b = "s" THEN [user |-> "u1", email |-> "m1", role |-> "member", tags |-> {"tag:store"}]
                       ELSE [user |-> "u2", email |-> "m2", role |-> "admin", tags |-> {}]]
Crews == [crew |-> {"m2"}]
Anyone == [roles |-> {}, tags |-> {}, teams |-> {}]
Drives ==
  {[share |-> {"*"}, access |-> {"admin"}, grants |->
      {[same_user |-> FALSE, src |-> Anyone, dst |-> [Anyone EXCEPT !.tags = {"tag:store"}], shares |-> {"*"},
        access |-> "ro"],
       [same_user |-> FALSE, src |-> [Anyone EXCEPT !.teams = {"crew"}], dst |-> Anyone, shares |-> {"l1"},
        access |-> "rw"]}],
   [share |-> {"admin"}, access |-> {"*"}, grants |->
      {[same_user |-> TRUE, src |-> Anyone, dst |-> Anyone, shares |-> {"*"}, access |-> "rw"]}]}
(* The reader may reach the sharing device, may not, and both ways.         *)
Nets == {[p \in Boxes \X Boxes |-> IF p = <<"c", "s">> THEN "ports" ELSE "nothing"],
         [p \in Boxes \X Boxes |-> IF p = <<"c", "s">> THEN "denied" ELSE "ports"],
         [p \in Boxes \X Boxes |-> "ports"]}

(* Once edits and faults end, the ingress table, the carrying router, the  *)
(* served name and the share listener are what they should be.             *)
ReachSettles == IngressCatchesUp /\ FailoverReached /\ ServedAgain /\ ListenerSettles
=============================================================================
