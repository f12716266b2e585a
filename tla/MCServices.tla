----------------------------- MODULE MCServices -----------------------------
(***************************************************************************)
(* An instance of three services of the API that share no state: the       *)
(* presence gateway, the tenant transactions and the notification queue.   *)
(* A behaviour is one of one service; the others stay as they begin.       *)
(***************************************************************************)
EXTENDS Presence, Tenancy, Delivery

CONSTANTS r1, r2, o1, o2, t1, t2, u1, u2  \* as in the configuration

\* The second tab is of the same user, or of another.
Both == {[t \in Tabs |-> u1], [t \in Tabs |-> IF t = t1 THEN u1 ELSE u2]}
\* Two requests of two organizations.
Admitted == [r \in Tenants |-> IF r = r1 THEN o1 ELSE o2]

VARIABLE service

Services == {"presence", "tenancy", "delivery"}
servicesVars == <<service, presenceVars, tenancyVars, deliveryVars>>

ServicesInit ==
  /\ service \in Services
  /\ PresenceInit /\ TenancyInit /\ DeliveryInit
  /\ service # "presence" => user = [t \in Tabs |-> u1]
  /\ service # "delivery" => assignee = Nobody

InPresence == service = "presence" /\ UNCHANGED <<service, tenancyVars, deliveryVars>>
InTenancy  == service = "tenancy" /\ UNCHANGED <<service, presenceVars, deliveryVars>>
InDelivery == service = "delivery" /\ UNCHANGED <<service, presenceVars, tenancyVars>>

ServicesNext ==
  \/ InPresence /\ PresenceNext
  \/ InTenancy /\ TenancyNext
  \/ InDelivery /\ DeliveryNext

\* The fairness of the service whose behaviour it is.
ServicesSpec ==
  /\ ServicesInit /\ [][ServicesNext]_servicesVars
  /\ WF_servicesVars(\/ InPresence /\ Served
                     \/ InTenancy /\ \E w \in Workers : TenancyStep(w)
                     \/ InDelivery /\ \E j \in Jobs : Deliver(j))

\* Each service keeps the shape its module gives it.
ServicesTypeOK == PresenceTypeOK /\ TenancyTypeOK /\ DeliveryTypeOK
=============================================================================
