------------------------------ MODULE MCBackend ------------------------------
(***************************************************************************)
(* The parts beside the pool for TLC: memberships, address scans and the   *)
(* network agent share nothing but the database, of which each has its own *)
(* tables; so one of them runs while the others stand still.               *)
(***************************************************************************)
EXTENDS Billing, AddressScans, NetworkAgent

VARIABLE focus

MCEvent(kind, account, ids, period) ==
  [kind |-> kind, account |-> account, ids |-> ids, period |-> period]

\* A checkout with and without its ids, a subscription with and without its dates,
\* one of another account, one of no account, and something else.
MCEvents == {MCEvent("checkout.session.completed", 1, TRUE, FALSE),
             MCEvent("checkout.session.completed", 1, FALSE, FALSE),
             MCEvent("customer.subscription", 1, TRUE, TRUE),
             MCEvent("customer.subscription", 1, FALSE, FALSE),
             MCEvent("customer.subscription", 2, TRUE, TRUE),
             MCEvent("customer.subscription", Nobody, TRUE, TRUE),
             MCEvent("other", 1, TRUE, FALSE)}

MCPeer(address, score, behind, ping) ==
  [address |-> address, score |-> score, behind |-> behind, ping |-> ping]

\* Every rule of the order decides somewhere; two peers are not eligible, and one
\* has no address.
MCPeers == {MCPeer(1, 9, 0, 50), MCPeer(2, 9, 5, 10), MCPeer(3, 7, Unknown, Unknown),
            MCPeer(4, 7, 2, 30), MCPeer(5, Unknown, 0, 1),
            MCPeer(6, 9, 11, 1), MCPeer(7, 7, 2, 30), MCPeer(Unknown, 9, 0, 1)}

MCLists == SUBSET MCPeers

Init == /\ BillingInit /\ ScansInit /\ AgentInit
        /\ focus \in {"billing", "scans", "agent"}

BillingStep == focus = "billing" /\ BillingNext /\ UNCHANGED <<scanVars, agentVars, focus>>
ScansStep   == focus = "scans" /\ ScansNext /\ UNCHANGED <<billingVars, agentVars, focus>>
AgentStep   == focus = "agent" /\ AgentNext /\ UNCHANGED <<billingVars, scanVars, focus>>

Next == BillingStep \/ ScansStep \/ AgentStep

Spec == Init /\ [][Next]_<<billingVars, scanVars, agentVars, focus>>
=============================================================================
