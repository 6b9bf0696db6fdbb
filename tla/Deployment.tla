----------------------------- MODULE Deployment -----------------------------
(***************************************************************************)
(* The services and the reader's visits.  They share no state while they run *)
(* (a visit reads what checks recorded, which SinceLastVisit has a part of    *)
(* its own for), so that a behaviour is about one or the other.              *)
(***************************************************************************)
EXTENDS Services, SinceLastVisit

VARIABLE visiting

deploymentVars == <<visiting, vars, visitVars>>

\* A limiter that nobody calls is the service at rest.
DeploymentInit ==
    /\ visiting \in BOOLEAN
    /\ Init
    /\ visiting => part = "limiter"
    /\ VisitInit

DeploymentNext ==
    /\ UNCHANGED visiting
    /\ \/ ~visiting /\ Next /\ UNCHANGED visitVars
       \/ visiting /\ VisitNext /\ UNCHANGED vars

DeploymentSpec == DeploymentInit /\ [][DeploymentNext]_deploymentVars
=============================================================================
