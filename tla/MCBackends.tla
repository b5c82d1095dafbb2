------------------------------ MODULE MCBackends ------------------------------
(***************************************************************************)
(* A session of each kind side by side, Stdio and HttpSession.  They share *)
(* nothing but what Session says; a behaviour runs one of the two, the     *)
(* `backend`.                                                              *)
(***************************************************************************)
EXTENDS Stdio, HttpSession

VARIABLE backend

both == <<backend, vars, httpVars>>

BackendsInit ==
    /\ Init /\ HttpInit
    /\ backend \in {"stdio", "http"} /\ (backend = "http" => held)

BackendsNext ==
    /\ UNCHANGED backend
    /\ \/ backend = "stdio" /\ Next /\ UNCHANGED httpVars
       \/ backend = "http" /\ HttpNext /\ UNCHANGED vars

InStdio(A) == backend = "stdio" /\ A /\ UNCHANGED <<backend, httpVars>>
InHttp(A) == backend = "http" /\ A /\ UNCHANGED <<backend, vars>>

\* The fairness of the one that runs (FairSpec of Stdio, HttpFairSpec).
BackendsSpec ==
    /\ BackendsInit /\ [][BackendsNext]_both
    /\ WF_both(InStdio(Read)) /\ WF_both(InStdio(Arm))
    /\ WF_both(InStdio(Forward \/ ForwardFails)) /\ WF_both(InStdio(Kill))
    /\ WF_both(InHttp(Cancelled)) /\ WF_both(InHttp(Take))
    /\ WF_both(InHttp(Terminate)) /\ WF_both(InHttp(Deleted))
    /\ WF_both(InHttp(\E e \in Exchange : Abort(e)))
    /\ \A k \in MessageNo : WF_both(InHttp(Ask(<<"POST", k>>)))
=============================================================================
