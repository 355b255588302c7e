--------------------------- MODULE NodeCredential ---------------------------
(***************************************************************************)
(* How a node obtains its permanent credential: the panel's claims,        *)
(* deliveries and credentials (sqlite_repo/node_claims.rs,                 *)
(* node_credential_deliveries.rs, node_pool.rs, api/node_auth.rs) and the  *)
(* helper that drives them from the node's host with durable local phases  *)
(* (relay-node-claim.sh and relay-node-credential.sh, or in one run        *)
(* relay-node-pool-migrate.py).                                            *)
(*                                                                         *)
(* Every repository operation is one transaction under the writer lock of  *)
(* the home group, so it is one action; between them requests are late or  *)
(* lost, answers are lost, helpers stop at any point, deadlines pass and   *)
(* administrators cancel and retire.  A credential is named by the claim   *)
(* it was issued for: a claim has at most one delivery (its primary key).  *)
(***************************************************************************)
EXTENDS Naturals, FiniteSets

CONSTANTS Nodes,     \* node identities (home group, node id)
          Claims,    \* claim ids
          Machines,  \* hosts on which a helper runs; each has its own durable
                     \* claimant nonce, delivery nonce, credential id and secret
          NodeOf,    \* the node-id file of each host
          Scripted,  \* hosts that run the all-in-one migrate script
          MaxCalls,  \* bound: requests on their way at one time
          None       \* an absent row, no process

ASSUME NodeOfAssumption == NodeOf \in [Machines -> Nodes]
ASSUME ScriptedAssumption == Scripted \subseteq Machines
ASSUME MaxCallsAssumption == MaxCalls \in Nat \ {0}

Open    == {"APPROVED", "CLAIMED"}              \* the claim's own deadline runs
Live    == Open \cup {"CREDENTIAL_PENDING"}     \* unique per identity
Dead    == {"CANCELLED", "EXPIRED"}
ClaimStates    == Live \cup Dead \cup {"COMPLETED"}
DeliveryStates == Dead \cup {"PREPARED", "COMPLETED"}

Claim    == [node : Nodes, state : ClaimStates, claimant : Machines \cup {None},
             due : BOOLEAN]
Delivery == [holder : Machines, state : DeliveryStates, due : BOOLEAN]
Credential == [holder : Machines, revoked : BOOLEAN]

LocalPhases == {"NONE", "PREPARE_READY", "ACTIVATE_READY", "ACTIVE_CONFIRMED"}
Steps    == {"claim", "prepare", "activate", "verify"}
Calls    == [kind : {"claim", "prepare", "activate"}, claim : Claims,
             machine : Machines]
Process  == [claim : Claims, step : Steps, answer : {"none", "ok", "refused"}]

ASSUME NoneAssumption == /\ None \notin Claim \cup Delivery \cup Credential
                         /\ None \notin Process \cup Claims \cup Machines

VARIABLES claims,      \* node_credential_claims
          deliveries,  \* node_credential_deliveries
          creds,       \* node_credentials, all of them activated
          retired,     \* identities with a legacy_v130_upgrade:retired row
          local,       \* phase in credential-pending.json of a host, per claim
          process,     \* the helper that runs on a host (it holds a lock)
          calls,       \* requests on their way to the panel
          descriptor,  \* runtime-auth.json of a host
          authority    \* what the running node authenticates with; None is
                       \* the group token

panelVars == <<claims, deliveries, creds, retired>>
hostVars  == <<local, process, descriptor, authority>>
vars      == <<panelVars, hostVars, calls>>

TypeOK ==
  /\ claims \in [Claims -> Claim \cup {None}]
  /\ deliveries \in [Claims -> Delivery \cup {None}]
  /\ creds \in [Claims -> Credential \cup {None}]
  /\ retired \subseteq Nodes
  /\ local \in [Machines -> [Claims -> LocalPhases]]
  /\ process \in [Machines -> Process \cup {None}]
  /\ calls \subseteq Calls
  /\ descriptor \in [Machines -> Claims \cup {None}]
  /\ authority \in [Machines -> Claims \cup {None}]

Init ==
  /\ claims = [c \in Claims |-> None]
  /\ deliveries = [c \in Claims |-> None]
  /\ creds = [c \in Claims |-> None]
  /\ retired = {}
  /\ local = [m \in Machines |-> [c \in Claims |-> "NONE"]]
  /\ process = [m \in Machines |-> None]
  /\ calls = {}
  /\ descriptor = [m \in Machines |-> None]
  /\ authority = [m \in Machines |-> None]
-----------------------------------------------------------------------------
ClaimsOf(n)     == {c \in Claims : claims[c] # None /\ claims[c].node = n}
InState(c, S)   == claims[c] # None /\ claims[c].state \in S
Prepared(c)     == deliveries[c] # None /\ deliveries[c].state = "PREPARED"
DeliveryDue(c)  == Prepared(c) /\ deliveries[c].due
OpenDue(c)      == InState(c, Open) /\ claims[c].due

ActiveCredential(n) ==                 \* mutation: revoked ones do not count
  \E c \in ClaimsOf(n) : creds[c] # None /\ ~creds[c].revoked

\* AlreadyActive or RecoveryRequired: any credential the identity ever had.
ActivationHistory(n) == \E c \in ClaimsOf(n) : creds[c] # None

\* authenticate_node with the material of host m for claim c.
Authenticates(m, c) ==
  /\ creds[c] # None
  /\ creds[c].holder = m
  /\ ~creds[c].revoked
  /\ claims[c].node \notin retired

CloseClaimsOnly(S, s) ==               \* mutation: the delivery is left PREPARED
  /\ claims' = [c \in Claims |->
                  IF c \in S THEN [claims[c] EXCEPT !.state = s] ELSE claims[c]]
  /\ UNCHANGED deliveries

\* Claim and delivery move to their terminal state s together.
Close(S, s) ==
  /\ claims' = [c \in Claims |->
                  IF c \in S THEN [claims[c] EXCEPT !.state = s] ELSE claims[c]]
  /\ deliveries' = [c \in Claims |->
                      IF c \in S /\ Prepared(c)
                        THEN [deliveries[c] EXCEPT !.state = s]
                        ELSE deliveries[c]]

\* The rows expire_identity_if_due closes: an open claim past its deadline, or
\* a pending one whose delivery is past the delivery's own deadline.
DueClaims(n) ==
  {c \in ClaimsOf(n) : OpenDue(c)
                       \/ (InState(c, {"CREDENTIAL_PENDING"}) /\ DeliveryDue(c))}
-----------------------------------------------------------------------------
(* Administrator, clock and retirement.                                    *)

\* Expires what is due, then inserts.  With a live claim left the call answers
\* Existing, or fails on the unique index: neither changes a row.
Create(c, n) ==
  /\ claims[c] = None
  /\ \A d \in ClaimsOf(n) \ DueClaims(n) : ~InState(d, Live)
  /\ LET due == DueClaims(n) IN
     /\ claims' = [d \in Claims |->
          IF d = c THEN [node |-> n, state |-> "APPROVED", claimant |-> None,
                         due |-> FALSE]
          ELSE IF d \in due THEN [claims[d] EXCEPT !.state = "EXPIRED"] ELSE claims[d]]
     /\ deliveries' = [d \in Claims |->
          IF d \in due /\ Prepared(d)
            THEN [deliveries[d] EXCEPT !.state = "EXPIRED"] ELSE deliveries[d]]
  /\ UNCHANGED <<creds, retired, hostVars, calls>>

\* cancel_node_credential_claim, also reached by cancel_bootstrap.  A completed
\* claim cannot be cancelled; what was due is expired instead.
Cancel(c) ==
  /\ InState(c, Live)
  /\ Close({c}, IF c \in DueClaims(claims[c].node) THEN "EXPIRED" ELSE "CANCELLED")
  /\ UNCHANGED <<creds, retired, hostVars, calls>>

\* expire_node_credential_claim and expire_node_credential_delivery.
Expire(c) ==
  /\ InState(c, Live)
  /\ c \in DueClaims(claims[c].node)
  /\ Close({c}, "EXPIRED")
  /\ UNCHANGED <<creds, retired, hostVars, calls>>

ClaimDeadline(c) ==
  /\ InState(c, Open) /\ ~claims[c].due
  /\ claims' = [claims EXCEPT ![c].due = TRUE]
  /\ UNCHANGED <<deliveries, creds, retired, hostVars, calls>>

DeliveryDeadline(c) ==
  /\ Prepared(c) /\ ~deliveries[c].due
  /\ deliveries' = [deliveries EXCEPT ![c].due = TRUE]
  /\ UNCHANGED <<claims, creds, retired, hostVars, calls>>

Revoked(S) == [c \in Claims |-> IF c \in S /\ creds[c] # None
                 THEN [creds[c] EXCEPT !.revoked = TRUE] ELSE creds[c]]

\* retire_installation_inner: one transaction closes whatever is live, revokes
\* and leaves the retired row behind.  It may be repeated.
Retire(n) ==
  /\ Close({c \in ClaimsOf(n) : InState(c, Live)}, "CANCELLED")
  /\ creds' = Revoked(ClaimsOf(n))
  /\ retired' = retired \cup {n}
  /\ UNCHANGED <<hostVars, calls>>
-----------------------------------------------------------------------------
(* The panel answers a call.  An answer reaches the helper only while it   *)
(* still waits for that step of that claim.                                *)

Reply(r, ok) ==
  /\ calls' = calls \ {r}
  /\ process' = [process EXCEPT ![r.machine] =
       IF @ # None /\ @.claim = r.claim /\ @.step = r.kind /\ @.answer = "none"
         THEN [@ EXCEPT !.answer = IF ok THEN "ok" ELSE "refused"] ELSE @]
  /\ UNCHANGED <<local, descriptor, authority>>

Refuse(r) == Reply(r, FALSE) /\ UNCHANGED panelVars

RefuseExpired(r) ==
  /\ Close({r.claim}, "EXPIRED")
  /\ Reply(r, FALSE)
  /\ UNCHANGED <<creds, retired>>

BoundTo(r) == claims[r.claim].claimant = r.machine

\* claim_node_credential
HandleClaim(r) ==
  LET c == r.claim IN
  /\ r \in calls /\ r.kind = "claim"
  /\ \/ OpenDue(c) /\ RefuseExpired(r)
     \/ /\ InState(c, {"APPROVED"}) /\ ~OpenDue(c)
        /\ claims' = [claims EXCEPT ![c].state = "CLAIMED",
                                    ![c].claimant = r.machine]
        /\ Reply(r, TRUE)
        /\ UNCHANGED <<deliveries, creds, retired>>
     \/ /\ InState(c, {"CLAIMED"}) /\ ~OpenDue(c) /\ BoundTo(r)
        /\ Reply(r, TRUE) /\ UNCHANGED panelVars
     \/ /\ ~OpenDue(c) /\ ~InState(c, {"APPROVED"})
        /\ ~(InState(c, {"CLAIMED"}) /\ BoundTo(r))
        /\ Refuse(r)

\* prepare_initial_node_credential_delivery
HandlePrepare(r) ==
  LET c == r.claim  n == claims[r.claim].node IN
  /\ r \in calls /\ r.kind = "prepare"
  /\ \/ ~BoundTo(r) /\ Refuse(r)
     \/ /\ BoundTo(r)
        /\ OpenDue(c) \/ (InState(c, {"CREDENTIAL_PENDING"}) /\ DeliveryDue(c))
        /\ RefuseExpired(r)
     \/ /\ BoundTo(r) /\ InState(c, {"CREDENTIAL_PENDING"}) /\ ~DeliveryDue(c)
        /\ Reply(r, deliveries[c].holder = r.machine) /\ UNCHANGED panelVars
     \/ /\ BoundTo(r) /\ InState(c, {"CLAIMED"}) /\ ~OpenDue(c)
        /\ ~ActivationHistory(n)
        /\ claims' = [claims EXCEPT ![c].state = "CREDENTIAL_PENDING"]
        /\ deliveries' = [deliveries EXCEPT ![c] =
             [holder |-> r.machine, state |-> "PREPARED", due |-> FALSE]]
        /\ Reply(r, TRUE) /\ UNCHANGED <<creds, retired>>
     \/ /\ BoundTo(r) /\ ~OpenDue(c) /\ ~InState(c, {"CREDENTIAL_PENDING"})
        /\ InState(c, {"CLAIMED"}) => ActivationHistory(n)
        /\ Refuse(r)

ActivateClosed(r) ==                   \* mutation: the states are not compared
  LET c == r.claim
      mine == deliveries[c] # None /\ deliveries[c].holder = r.machine IN
  /\ r \in calls /\ r.kind = "activate"
  /\ \/ ~mine /\ Refuse(r)
     \/ /\ mine /\ creds[c] # None
        /\ Reply(r, ~creds[c].revoked) /\ UNCHANGED panelVars
     \/ /\ mine /\ ~ActivationHistory(claims[c].node)
        /\ creds' = [creds EXCEPT ![c] =
                       [holder |-> r.machine, revoked |-> FALSE]]
        /\ Close({c}, "COMPLETED")
        /\ Reply(r, TRUE) /\ UNCHANGED retired

\* activate_initial_node_credential_from_delivery
HandleActivate(r) ==
  LET c == r.claim
      mine == deliveries[c] # None /\ deliveries[c].holder = r.machine IN
  /\ r \in calls /\ r.kind = "activate"
  /\ \/ ~mine /\ Refuse(r)
     \/ /\ mine /\ InState(c, {"COMPLETED"})
        /\ Reply(r, ~creds[c].revoked) /\ UNCHANGED panelVars
     \/ mine /\ DeliveryDue(c) /\ RefuseExpired(r)
     \/ /\ mine /\ Prepared(c) /\ ~DeliveryDue(c)
        /\ ~ActivationHistory(claims[c].node)
        /\ creds' = [creds EXCEPT ![c] =
                       [holder |-> r.machine, revoked |-> FALSE]]
        /\ Close({c}, "COMPLETED")
        /\ Reply(r, TRUE) /\ UNCHANGED retired
     \/ /\ mine /\ ~DeliveryDue(c)
        /\ \/ InState(c, Dead)
           \/ Prepared(c) /\ ActivationHistory(claims[c].node)
        /\ Refuse(r)

LoseCall(r) ==
  /\ r \in calls
  /\ calls' = calls \ {r}
  /\ UNCHANGED <<panelVars, hostVars>>
-----------------------------------------------------------------------------
(* The helper on a host.                                                   *)

Call(k, c, m) == [kind |-> k, claim |-> c, machine |-> m]

Send(m, c, k) ==
  /\ Cardinality(calls) < MaxCalls
  /\ process' = [process EXCEPT ![m] = [claim |-> c, step |-> k, answer |-> "none"]]
  /\ calls' = calls \cup {Call(k, c, m)}

\* Nonces, credential id and secret are durable before anything is sent.
EnsureState(m, c) ==
  /\ process[m] = None /\ local[m][c] = "NONE"
  /\ claims[c] # None /\ claims[c].node = NodeOf[m]
  /\ local' = [local EXCEPT ![m][c] = "PREPARE_READY"]
  /\ UNCHANGED <<panelVars, process, calls, descriptor, authority>>

RunClaim(m, c) ==
  /\ process[m] = None /\ local[m][c] = "PREPARE_READY"
  /\ Send(m, c, "claim")
  /\ UNCHANGED <<panelVars, local, descriptor, authority>>

\* relay-node-credential.sh resumes at the phase it finds; the migrate script
\* repeats its claim first.
RunPrepare(m, c) ==
  /\ process[m] = None /\ local[m][c] = "PREPARE_READY"
  /\ m \notin Scripted
  /\ Send(m, c, "prepare")
  /\ UNCHANGED <<panelVars, local, descriptor, authority>>

RunActivate(m, c) ==
  /\ process[m] = None /\ local[m][c] = "ACTIVATE_READY"
  /\ Send(m, c, "activate")
  /\ UNCHANGED <<panelVars, local, descriptor, authority>>

RunVerify(m, c) ==
  /\ process[m] = None /\ local[m][c] = "ACTIVE_CONFIRMED" /\ m \in Scripted
  /\ process' = [process EXCEPT ![m] =
       [claim |-> c, step |-> "verify", answer |-> "none"]]
  /\ UNCHANGED <<panelVars, calls, local, descriptor, authority>>

Answered(m, k, a) ==
  process[m] # None /\ process[m].step = k /\ process[m].answer = a

End(m) == process' = [process EXCEPT ![m] = None]

ClaimAnswered(m) ==
  /\ Answered(m, "claim", "ok")
  /\ IF m \in Scripted THEN Send(m, process[m].claim, "prepare")
                       ELSE End(m) /\ UNCHANGED calls
  /\ UNCHANGED <<panelVars, local, descriptor, authority>>

PhaseBeforeAnswer(m) ==                \* mutation: the phase is written first
  /\ process[m] # None /\ process[m].step = "prepare"
  /\ local' = [local EXCEPT ![m][process[m].claim] = "ACTIVATE_READY"]
  /\ Send(m, process[m].claim, "activate")
  /\ UNCHANGED <<panelVars, descriptor, authority>>

\* The phase is on disk before the next request leaves.
PrepareAnswered(m) ==
  /\ Answered(m, "prepare", "ok")
  /\ local' = [local EXCEPT ![m][process[m].claim] = "ACTIVATE_READY"]
  /\ Send(m, process[m].claim, "activate")
  /\ UNCHANGED <<panelVars, descriptor, authority>>

ConfirmAsPanelState(m) ==              \* mutation: the panel's state is stored
  /\ local' = [local EXCEPT ![m][process[m].claim] = "COMPLETED"]
  /\ End(m)

Confirm(m) ==
  /\ local' = [local EXCEPT ![m][process[m].claim] = "ACTIVE_CONFIRMED"]
  /\ IF m \in Scripted THEN process' = [process EXCEPT ![m].step = "verify",
                                                       ![m].answer = "none"]
                       ELSE End(m)

ActivateAnswered(m) ==
  /\ Answered(m, "activate", "ok")
  /\ Confirm(m)
  /\ UNCHANGED <<panelVars, calls, descriptor, authority>>

\* activate_or_verify: after a refusal or without an answer the migrate script
\* asks whether the credential already authenticates.
ActivateOrVerify(m) ==
  /\ m \in Scripted
  /\ Answered(m, "activate", "refused") \/ Answered(m, "activate", "none")
  /\ Authenticates(m, process[m].claim)
  /\ Confirm(m)
  /\ UNCHANGED <<panelVars, calls, descriptor, authority>>

\* The descriptor is written after the panel confirmed the exact identity.
CommitDescriptor(m) ==
  /\ Answered(m, "verify", "none")
  /\ Authenticates(m, process[m].claim)
  /\ descriptor' = [descriptor EXCEPT ![m] = process[m].claim]
  /\ End(m)
  /\ UNCHANGED <<panelVars, calls, local, authority>>

\* Refused, timed out, interrupted or killed: what is durable stays.
Stop(m) ==
  /\ process[m] # None
  /\ End(m)
  /\ UNCHANGED <<panelVars, calls, local, descriptor, authority>>
-----------------------------------------------------------------------------
(* The node process (auth_reload.rs).                                      *)

\* A descriptor that exists is the only authority a start accepts.
Restart(m) ==
  /\ authority' = [authority EXCEPT ![m] = descriptor[m]]
  /\ UNCHANGED <<panelVars, calls, local, process, descriptor>>

WatchAuth(m) ==
  /\ descriptor[m] \notin {None, authority[m]}
  /\ Authenticates(m, descriptor[m])
  /\ authority' = [authority EXCEPT ![m] = descriptor[m]]
  /\ UNCHANGED <<panelVars, calls, local, process, descriptor>>
-----------------------------------------------------------------------------
Handle(r) == HandleClaim(r) \/ HandlePrepare(r) \/ HandleActivate(r)

Administration ==
  \/ \E c \in Claims, n \in Nodes : Create(c, n)
  \/ \E c \in Claims : Cancel(c)
  \/ \E n \in Nodes : Retire(n)

Clock == \E c \in Claims : Expire(c) \/ ClaimDeadline(c) \/ DeliveryDeadline(c)

Begin(m, c) == \/ EnsureState(m, c) \/ RunClaim(m, c) \/ RunPrepare(m, c)
               \/ RunActivate(m, c) \/ RunVerify(m, c)

Advance(m) == \/ ClaimAnswered(m) \/ PrepareAnswered(m) \/ ActivateAnswered(m)
              \/ ActivateOrVerify(m) \/ CommitDescriptor(m)

Helper(m) == (\E c \in Claims : Begin(m, c)) \/ Advance(m) \/ Stop(m)

Network == \E r \in Calls : Handle(r) \/ LoseCall(r)

Next ==
  \/ Administration
  \/ Clock
  \/ Network
  \/ \E m \in Machines : Helper(m) \/ Restart(m) \/ WatchAuth(m)

Spec == Init /\ [][Next]_vars
-----------------------------------------------------------------------------
(* Properties.                                                             *)

\* Claim and delivery are one state machine: a delivery is PREPARED exactly
\* while its claim waits for it, both are COMPLETED exactly when the credential
\* exists, all three name the claimant that was bound first, and an identity
\* has at most one live claim (expiry, cancellation, preparation and activation
\* each close both rows).
DeliveryFollowsClaim ==
  /\ \A c \in Claims :
       /\ Prepared(c) <=> InState(c, {"CREDENTIAL_PENDING"})
       /\ creds[c] # None <=> InState(c, {"COMPLETED"})
       /\ creds[c] # None => deliveries[c] # None /\ deliveries[c].state = "COMPLETED"
                              /\ creds[c].holder = deliveries[c].holder
       /\ deliveries[c] # None => /\ claims[c] # None
                                  /\ deliveries[c].holder = claims[c].claimant
  /\ \A c, d \in Claims : InState(c, Live) /\ InState(d, Live)
                            /\ claims[c].node = claims[d].node => c = d

\* What a host has written down never runs ahead of the panel: it believes a
\* delivery or an activation only if the panel committed it for exactly that
\* host, and the descriptor and the running node name only such a credential
\* (lost answers, repeated and late requests, helpers killed anywhere).
HostNeverAhead ==
  \A m \in Machines, c \in Claims :
    /\ local[m][c] = "ACTIVATE_READY" =>
         deliveries[c] # None /\ deliveries[c].holder = m
    /\ local[m][c] = "ACTIVE_CONFIRMED" \/ descriptor[m] = c \/ authority[m] = c =>
         creds[c] # None /\ creds[c].holder = m

\* A claim that was cancelled or has expired stays so and never yields a
\* credential, and a credential that stopped authenticating never does again,
\* whatever calls of its host are still on their way or repeated.
ClosedForGood ==
  [][\A c \in Claims :
       /\ InState(c, Dead) => claims'[c] = claims[c] /\ creds'[c] = None
       /\ \A m \in Machines : creds[c] # None /\ ~Authenticates(m, c)
                               => ~Authenticates(m, c)']_vars

\* The registry the panel promises: an identity's credential is issued once, to
\* one host, and retirement is final.
Issued(n) == {<<c, creds[c].holder>> : c \in {d \in ClaimsOf(n) : creds[d] # None}}
Registry == INSTANCE CredentialRegistry
              WITH Credentials <- Claims \X Machines,
                   issued <- [n \in Nodes |-> Issued(n)], closed <- retired
ImplementsRegistry == Registry!Spec
=============================================================================
