--------------------------- MODULE ApprovedReplay ---------------------------
(***************************************************************************)
(* What an approval promises whoever gives it.  An invocation runs outright *)
(* once, or asks for approval before anything ran.  Its request is decided  *)
(* once and for all.  From then on every side effect is one that a grant    *)
(* for the exact request pays for, each grant pays once, and none pays      *)
(* before the request stands approved.                                     *)
(***************************************************************************)
EXTENDS Naturals

CONSTANTS Invocation, Fingerprint, NoFingerprint, InvocationOf, LeaseId

VARIABLES
    request,  \* [Invocation -> [status, fingerprint]]
    grant,    \* [LeaseId -> the request it is for, or NoFingerprint]
    paid,     \* [LeaseId -> Nat]: side effects a grant paid for
    ran       \* [Invocation -> Nat]: side effects of an invocation

vars == <<request, grant, paid, ran>>

NoRequest == [status |-> "Absent", fingerprint |-> NoFingerprint]

Init ==
    /\ request = [i \in Invocation |-> NoRequest]
    /\ grant = [k \in LeaseId |-> NoFingerprint]
    /\ paid = [k \in LeaseId |-> 0]
    /\ ran = [i \in Invocation |-> 0]

RunOutright(i) ==
    /\ request[i].status = "Absent"
    /\ ran[i] = 0
    /\ ran' = [ran EXCEPT ![i] = 1]
    /\ UNCHANGED <<request, grant, paid>>

Ask(fp) ==
    LET i == InvocationOf[fp]
    IN  /\ request[i].status = "Absent"
        /\ ran[i] = 0
        /\ request' = [request EXCEPT ![i] = [status |-> "Pending", fingerprint |-> fp]]
        /\ UNCHANGED <<grant, paid, ran>>

\* Only a request that is still pending is taken back.
Withdraw(i) ==
    /\ request[i].status = "Pending"
    /\ request' = [request EXCEPT ![i] = NoRequest]
    /\ UNCHANGED <<grant, paid, ran>>

Decide(i, verdict) ==
    /\ request[i].status = "Pending"
    /\ request' = [request EXCEPT ![i].status = verdict]
    /\ UNCHANGED <<grant, paid, ran>>

\* A grant may come before the decision; by itself it permits nothing.
Grant(k, fp) ==
    /\ grant[k] = NoFingerprint
    /\ grant' = [grant EXCEPT ![k] = fp]
    /\ UNCHANGED <<request, paid, ran>>

Replay(k) ==
    LET i == InvocationOf[grant[k]]
    IN  /\ grant[k] # NoFingerprint
        /\ request[i] = [status |-> "Approved", fingerprint |-> grant[k]]
        /\ paid[k] = 0
        /\ paid' = [paid EXCEPT ![k] = 1]
        /\ ran' = [ran EXCEPT ![i] = @ + 1]
        /\ UNCHANGED <<request, grant>>

Next ==
    \/ \E i \in Invocation :
          RunOutright(i) \/ Withdraw(i) \/ Decide(i, "Approved") \/ Decide(i, "Denied")
    \/ \E fp \in Fingerprint : Ask(fp)
    \/ \E k \in LeaseId : Replay(k) \/ \E fp \in Fingerprint : Grant(k, fp)

Spec == Init /\ [][Next]_vars
=============================================================================
