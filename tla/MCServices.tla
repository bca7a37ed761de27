----------------------------- MODULE MCServices -----------------------------
(***************************************************************************)
(* The services that share no state with one another, checked by one run:  *)
(* a behaviour is a behaviour of one of them, chosen at its start, and the *)
(* variables of the others stay as they begin.                             *)
(***************************************************************************)
EXTENDS VaultThrottle, Planner, SearchIndex, Tabletop, TabletopDeal, VaultOrder,
        TLC
CONSTANTS c1, c2, c3, h1, h2

(* Two callers behind one address, a third behind another. *)
TwoHosts == c1 :> h1 @@ c2 :> h1 @@ c3 :> h2

VARIABLE service

Services == {"throttle", "planner", "search", "tabletop", "deal", "order"}
ServicesVars == <<service, vars, plannerVars, searchVars, tabletopVars, hand, orderVars>>

ServicesInit ==
    /\ service \in Services
    /\ Init /\ PlannerInit /\ SearchInit /\ TabletopInit /\ DealInit /\ VaultOrderInit

ServicesNext ==
    /\ UNCHANGED service
    /\ \/ /\ service = "throttle" /\ Next
          /\ UNCHANGED <<plannerVars, searchVars, tabletopVars, hand, orderVars>>
       \/ /\ service = "planner" /\ PlannerNext
          /\ UNCHANGED <<vars, searchVars, tabletopVars, hand, orderVars>>
       \/ /\ service = "search" /\ SearchNext
          /\ UNCHANGED <<vars, plannerVars, tabletopVars, hand, orderVars>>
       \/ /\ service = "tabletop" /\ TabletopNext
          /\ UNCHANGED <<vars, plannerVars, searchVars, hand, orderVars>>
       \/ /\ service = "deal" /\ DealNext
          /\ UNCHANGED <<vars, plannerVars, searchVars, tabletopVars, orderVars>>
       \/ /\ service = "order" /\ VaultOrderNext
          /\ UNCHANGED <<vars, plannerVars, searchVars, tabletopVars, hand>>

ServicesSpec ==
    /\ ServicesInit /\ [][ServicesNext]_ServicesVars
    /\ WF_vars(service = "throttle" /\ Tick)
    /\ \A c \in Callers : /\ WF_vars(service = "throttle" /\ Answer(c))
                          /\ WF_vars(service = "throttle" /\ Record(c))
    /\ WF_plannerVars(service = "planner" /\ Redelivers)
    /\ WF_plannerVars(service = "planner" /\ FlagExpires)
    /\ \A w \in Sweepers : WF_plannerVars(service = "planner" /\ Sweeps(w))
    /\ WF_searchVars(service = "search" /\ SearchArrives)
    /\ WF_searchVars(service = "search" /\ RefreshSteps)
    /\ WF_searchVars(service = "search" /\ TimePasses)

(* The state of every service has its types.                                *)
ServicesTypeOK ==
    /\ TypeOK /\ PlannerTypeOK /\ SearchTypeOK /\ TabletopTypeOK
    /\ VaultOrderTypeOK
=============================================================================
