----------------------------- MODULE MCNarration -----------------------------
(* The narration service with the local provider in front of Vertex, the     *)
(* gateway of the local provider, the budget of the public demo, and the     *)
(* breaker and bulkhead of other dependencies. They share no variable, so a  *)
(* behaviour of the model moves one of them, its part, and interleaving them *)
(* would only multiply the states.                                           *)
EXTENDS NarrationService, NarrationGateway, DemoSession, GuardedDependency

VARIABLE part

LocalThenVertex == <<Local, Vertex>>

allVars == <<vars, gatewayVars, demoVars, guardVars, part>>

AllInit ==
    /\ part \in {"service", "gateway", "demo", "dependency"}
    /\ Init /\ GatewayInit /\ DemoInit /\ GuardInit
    /\ loaded => part = "gateway"

Service(Step) == part = "service" /\ Step /\ UNCHANGED <<gatewayVars, demoVars, guardVars, part>>
Gateway(Step) == part = "gateway" /\ Step /\ UNCHANGED <<vars, demoVars, guardVars, part>>
Demo(Step) == part = "demo" /\ Step /\ UNCHANGED <<vars, gatewayVars, guardVars, part>>
Dependency(Step) == part = "dependency" /\ Step /\ UNCHANGED <<vars, gatewayVars, demoVars, part>>

AllNext == Service(Next) \/ Gateway(GatewayNext) \/ Demo(DemoNext) \/ Dependency(GuardNext)

AllSpec ==
    /\ AllInit /\ [][AllNext]_allVars
    /\ \A c \in Caller : WF_allVars(Service(CallStep(c)))
=============================================================================
