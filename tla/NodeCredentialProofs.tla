------------------------ MODULE NodeCredentialProofs ------------------------
(***************************************************************************)
(* Proofs about credential delivery, for every number of identities,       *)
(* claims, hosts and requests under way.                                   *)
(*                                                                         *)
(* DeliveryFollowsClaim is inductive with the types of the panel's rows    *)
(* and the fact that an open claim has no delivery yet (RowFollows).       *)
(* What a step may do to a row is collected in Kept: holders and nodes     *)
(* never change, a closed claim and a revocation are final.  That a host   *)
(* is never ahead of the panel needs in addition that an answer under way  *)
(* tells the truth (AnswersTrue), which Kept preserves.                    *)
(***************************************************************************)
EXTENDS NodeCredential, TLAPS

LEMMA NoneIsNoRow == /\ None \notin Claim /\ None \notin Delivery /\ None \notin Credential
                      /\ None \notin Process /\ None \notin Claims /\ None \notin Machines
BY NoneAssumption

USE NoneIsNoRow

PanelTypes ==
  /\ claims \in [Claims -> Claim \cup {None}]
  /\ deliveries \in [Claims -> Delivery \cup {None}]
  /\ creds \in [Claims -> Credential \cup {None}]
  /\ retired \subseteq Nodes

HostTypes ==
  /\ local \in [Machines -> [Claims -> LocalPhases]]
  /\ process \in [Machines -> Process \cup {None}]
  /\ calls \subseteq Calls
  /\ descriptor \in [Machines -> Claims \cup {None}]
  /\ authority \in [Machines -> Claims \cup {None}]

RowFollows(c) ==
  /\ Prepared(c) <=> InState(c, {"CREDENTIAL_PENDING"})
  /\ creds[c] # None <=> InState(c, {"COMPLETED"})
  /\ creds[c] # None => deliveries[c] # None /\ deliveries[c].state = "COMPLETED"
                         /\ creds[c].holder = deliveries[c].holder
  /\ deliveries[c] # None => /\ claims[c] # None
                             /\ deliveries[c].holder = claims[c].claimant
  /\ InState(c, Open) => deliveries[c] = None

OneLive ==
  \A c, d \in Claims : InState(c, Live) /\ InState(d, Live)
                         /\ claims[c].node = claims[d].node => c = d

\* What no step undoes.
RowKept(c) ==
  /\ claims[c] # None => claims'[c] # None /\ claims'[c].node = claims[c].node
  /\ deliveries[c] # None => deliveries'[c] # None
                              /\ deliveries'[c].holder = deliveries[c].holder
  /\ creds[c] # None => /\ creds'[c] # None
                        /\ creds'[c].holder = creds[c].holder
                        /\ creds[c].revoked => creds'[c].revoked
  /\ InState(c, Dead) => claims'[c] = claims[c] /\ creds'[c] = None

Kept == (\A c \in Claims : RowKept(c)) /\ retired \subseteq retired'

PanelInv == PanelTypes /\ (\A c \in Claims : RowFollows(c)) /\ OneLive

LEMMA RowsFollow == PanelInv => DeliveryFollowsClaim
BY DEF PanelInv, DeliveryFollowsClaim, RowFollows, OneLive

\* Rows that are live are closed, and credentials are possibly revoked.
LEMMA Closing ==
  ASSUME PanelInv, NEW S \in SUBSET Claims, \A c \in S : InState(c, Live),
         NEW s \in Dead, Close(S, s),
         creds' \in [Claims -> Credential \cup {None}],
         \A c \in Claims :
           IF creds[c] = None THEN creds'[c] = None
           ELSE /\ creds'[c] # None
                /\ creds'[c].holder = creds[c].holder
                /\ creds[c].revoked => creds'[c].revoked
  PROVE  /\ claims' \in [Claims -> Claim \cup {None}]
         /\ deliveries' \in [Claims -> Delivery \cup {None}]
         /\ OneLive'
         /\ \A c \in Claims : RowFollows(c)' /\ RowKept(c)
<1>1. /\ \A c \in Claims : RowFollows(c)
      /\ OneLive
  BY DEF PanelInv
<1>2. s \in ClaimStates /\ s \in DeliveryStates
  BY DEF Dead, ClaimStates, DeliveryStates
<1>3. \A c \in Claims : /\ claims[c] \in Claim \cup {None}
                        /\ deliveries[c] \in Delivery \cup {None}
                        /\ creds[c] \in Credential \cup {None}
  BY DEF PanelInv, PanelTypes
<1>4. /\ claims' = [c \in Claims |->
                     IF c \in S THEN [claims[c] EXCEPT !.state = s] ELSE claims[c]]
      /\ deliveries' = [c \in Claims |->
                         IF c \in S /\ Prepared(c)
                           THEN [deliveries[c] EXCEPT !.state = s] ELSE deliveries[c]]
  BY DEF Close
<1>5. \A c \in Claims : claims'[c] \in Claim \cup {None}
  BY <1>2, <1>3, <1>4 DEF Claim, InState
<1>6. \A c \in Claims : deliveries'[c] \in Delivery \cup {None}
  BY <1>2, <1>3, <1>4 DEF Delivery, Prepared
<1>7. ASSUME NEW c \in Claims PROVE RowFollows(c)' /\ RowKept(c)
  <2>1. CASE c \in S
    <3>1. claims[c] # None /\ claims[c].state \in Live
      BY <2>1 DEF InState
    <3>2. creds[c] = None /\ creds'[c] = None
      BY <1>1, <3>1 DEF RowFollows, InState, Live, Open
    <3>3. claims'[c] = [claims[c] EXCEPT !.state = s] /\ claims'[c] # None
      BY <1>3, <1>4, <1>5, <2>1, <3>1, <1>2 DEF Claim
    <3>4. claims'[c].state = s /\ claims'[c].node = claims[c].node
          /\ claims'[c].claimant = claims[c].claimant
      BY <1>3, <3>1, <3>3 DEF Claim
    <3>5. CASE Prepared(c)
      <4>1. deliveries'[c] = [deliveries[c] EXCEPT !.state = s] /\ deliveries[c] # None
        BY <1>4, <2>1, <3>5 DEF Prepared
      <4>2. deliveries'[c] # None /\ deliveries'[c].state = s
            /\ deliveries'[c].holder = deliveries[c].holder
        BY <4>1, <1>2, <1>3 DEF Delivery
      <4>3. QED
        BY <1>1, <3>1, <3>2, <3>3, <3>4, <4>1, <4>2
           DEF RowFollows, RowKept, InState, Prepared, Dead, Live, Open
    <3>6. CASE ~Prepared(c)
      BY <1>1, <1>4, <2>1, <3>1, <3>2, <3>3, <3>4, <3>6
         DEF RowFollows, RowKept, InState, Prepared, Dead, Live, Open
    <3>7. QED
      BY <3>5, <3>6
  <2>2. CASE c \notin S
    <3>1. claims'[c] = claims[c] /\ deliveries'[c] = deliveries[c]
      BY <1>4, <2>2
    <3>2. QED
      BY <1>1, <3>1 DEF RowFollows, RowKept, InState, Prepared, Dead, Open
  <2>3. QED
    BY <2>1, <2>2
<1>8. OneLive'
  <2> SUFFICES ASSUME NEW c \in Claims, NEW d \in Claims,
                      InState(c, Live)', InState(d, Live)',
                      claims'[c].node = claims'[d].node
               PROVE  c = d
    BY DEF OneLive
  <2>1. ASSUME NEW e \in Claims, InState(e, Live)' PROVE InState(e, Live) /\ claims'[e] = claims[e]
    <3>1. e \notin S
      <4> SUFFICES ASSUME e \in S PROVE FALSE
        OBVIOUS
      <4>1. claims[e] # None /\ claims[e] \in Claim
        BY <1>3 DEF InState
      <4>2. claims'[e].state = s
        BY <1>4, <4>1 DEF Claim
      <4>3. QED
        BY <2>1, <4>2 DEF InState, Live, Open, Dead
    <3>2. QED
      BY <1>4, <2>1, <3>1 DEF InState
  <2>2. QED
    BY <1>1, <2>1 DEF OneLive
<1>9. QED
  BY <1>4, <1>5, <1>6, <1>7, <1>8

\* What a row's step must satisfy for the panel's invariant to be kept.
LEMMA PanelFromRows ==
  ASSUME PanelInv, PanelTypes',
         \A c \in Claims : RowFollows(c)' /\ RowKept(c),
         \A c \in Claims : InState(c, Live)' => InState(c, Live),
         retired \subseteq retired'
  PROVE  PanelInv' /\ Kept
<1>1. OneLive'
  BY DEF OneLive, PanelInv, RowKept, InState
<1>2. QED
  BY <1>1 DEF PanelInv, Kept

LEMMA CreateStep ==
  ASSUME PanelInv, NEW c \in Claims, NEW n \in Nodes, Create(c, n)
  PROVE  PanelInv' /\ Kept
<1>1. /\ \A d \in Claims : RowFollows(d)
      /\ OneLive
  BY DEF PanelInv
<1>2. \A d \in Claims : /\ claims[d] \in Claim \cup {None}
                        /\ deliveries[d] \in Delivery \cup {None}
  BY DEF PanelInv, PanelTypes
<1> DEFINE due == DueClaims(n)
<1>3. /\ claims[c] = None
      /\ \A d \in ClaimsOf(n) \ due : ~InState(d, Live)
      /\ claims' = [d \in Claims |->
           IF d = c THEN [node |-> n, state |-> "APPROVED", claimant |-> None, due |-> FALSE]
           ELSE IF d \in due THEN [claims[d] EXCEPT !.state = "EXPIRED"] ELSE claims[d]]
      /\ deliveries' = [d \in Claims |-> IF d \in due /\ Prepared(d)
                          THEN [deliveries[d] EXCEPT !.state = "EXPIRED"] ELSE deliveries[d]]
      /\ creds' = creds /\ retired' = retired
  BY DEF Create
<1>4. \A d \in due : d \in Claims /\ claims[d] # None /\ claims[d].node = n
                     /\ claims[d].state \in Live
  BY DEF DueClaims, ClaimsOf, OpenDue, InState, Live, Open
<1>5. c \notin due
  BY <1>3, <1>4
<1>6. claims'[c] = [node |-> n, state |-> "APPROVED", claimant |-> None, due |-> FALSE]
  BY <1>3, <1>5
<1>7. claims'[c] \in Claim /\ claims'[c] # None /\ claims'[c].state = "APPROVED"
      /\ claims'[c].node = n
  <2>1. claims'[c] \in Claim
    BY <1>6 DEF Claim, ClaimStates, Live, Open
  <2>2. claims'[c] # None
    BY <2>1
  <2>3. claims'[c].state = "APPROVED"
    BY <1>6
  <2>4. claims'[c].node = n
    BY <1>6
  <2>5. QED
    BY <2>1, <2>2, <2>3, <2>4
<1>8. ASSUME NEW d \in Claims, d # c, d \notin due
      PROVE  claims'[d] = claims[d] /\ deliveries'[d] = deliveries[d]
  BY <1>3, <1>5, <1>8
<1>9. ASSUME NEW d \in due
      PROVE  /\ claims'[d] \in Claim /\ claims'[d] # None
             /\ claims'[d].state = "EXPIRED" /\ claims'[d].node = claims[d].node
             /\ claims'[d].claimant = claims[d].claimant
  <2>1. claims'[d] = [claims[d] EXCEPT !.state = "EXPIRED"]
    BY <1>3, <1>4, <1>5, <1>9
  <2>2. QED
    BY <1>2, <1>4, <1>9, <2>1 DEF Claim, ClaimStates, Dead
<1>10. ASSUME NEW d \in Claims
       PROVE  /\ deliveries'[d] \in Delivery \cup {None}
              /\ deliveries[d] = None => deliveries'[d] = None
              /\ deliveries[d] # None => deliveries'[d] # None
                                         /\ deliveries'[d].holder = deliveries[d].holder
              /\ d \in due => (Prepared(d) => deliveries'[d].state = "EXPIRED")
              /\ ~Prepared(d) => deliveries'[d] = deliveries[d]
  BY <1>2, <1>3 DEF Prepared, Delivery, DeliveryStates, Dead
<1>11. PanelTypes'
  <2>1. \A d \in Claims : claims'[d] \in Claim \cup {None}
    BY <1>2, <1>7, <1>8, <1>9
  <2>2. QED
    BY <2>1, <1>3, <1>10 DEF PanelTypes, PanelInv
<1>12. ASSUME NEW d \in Claims PROVE RowFollows(d)' /\ RowKept(d)
  <2>1. CASE d = c
    <3>1. creds[c] = None /\ deliveries[c] = None
      BY <1>1, <1>3 DEF RowFollows, InState
    <3>2. deliveries'[c] = None
      BY <3>1, <1>10
    <3>3. QED
      BY <2>1, <1>3, <1>7, <3>1, <3>2 DEF RowFollows, RowKept, InState, Prepared, Dead, Open
  <2>2. CASE d \in due
    <3>1. creds[d] = None
      BY <1>1, <1>4, <2>2 DEF RowFollows, InState, Live, Open
    <3>2. creds'[d] = None /\ claims[d] # None /\ claims[d].state \in Live
      BY <1>3, <1>4, <2>2, <3>1
    <3>3. ~Prepared(d)'
      BY <1>10, <2>2, <1>4 DEF Prepared
    <3>4. RowFollows(d)'
      BY <1>1, <1>4, <1>9, <1>10, <2>2, <3>2, <3>3 DEF RowFollows, InState, Open
    <3>5. RowKept(d)
      BY <1>9, <1>10, <1>4, <2>2, <3>1, <3>2 DEF RowKept, InState, Dead, Live, Open
    <3>6. QED
      BY <3>4, <3>5
  <2>3. CASE d # c /\ d \notin due
    <3>1. claims'[d] = claims[d] /\ deliveries'[d] = deliveries[d] /\ creds'[d] = creds[d]
      BY <1>3, <1>8, <2>3
    <3>2. QED
      BY <1>1, <3>1 DEF RowFollows, RowKept, InState, Prepared, Dead, Open
  <2>4. QED
    BY <2>1, <2>2, <2>3
<1>13. OneLive'
  <2>1. ASSUME NEW d \in Claims, d # c, InState(d, Live)'
        PROVE  InState(d, Live) /\ claims'[d] = claims[d] /\ claims[d].node # n
    <3>1. d \notin due
      BY <1>9, <2>1 DEF InState, Live, Open
    <3>2. claims'[d] = claims[d] /\ InState(d, Live)
      BY <1>8, <2>1, <3>1 DEF InState
    <3>3. QED
      BY <1>3, <3>1, <3>2 DEF ClaimsOf, InState
  <2>2. QED
    BY <1>1, <1>7, <2>1 DEF OneLive
<1>14. QED
  BY <1>3, <1>11, <1>12, <1>13 DEF PanelInv, Kept

LEMMA RowTypes ==
  ASSUME PanelInv
  PROVE  /\ \A c \in Claims : /\ claims[c] # None => claims[c] \in Claim
                              /\ deliveries[c] # None => deliveries[c] \in Delivery
                              /\ creds[c] # None => creds[c] \in Credential
         /\ \A c \in Claims : RowFollows(c)
         /\ OneLive
BY DEF PanelInv, PanelTypes

LEMMA PanelUnchanged ==
  ASSUME PanelInv, UNCHANGED panelVars
  PROVE  PanelInv' /\ Kept
<1>1. PanelTypes' /\ retired \subseteq retired'
  BY DEF PanelInv, PanelTypes, panelVars
<1>2. \A c \in Claims : RowFollows(c)' /\ RowKept(c)
  BY RowTypes DEF panelVars, RowFollows, RowKept, InState, Prepared, Dead
<1>3. \A c \in Claims : InState(c, Live)' => InState(c, Live)
  BY DEF panelVars, InState
<1>4. QED
  BY <1>1, <1>2, <1>3, PanelFromRows

\* Closing as a whole: administration, deadlines and refused calls.
LEMMA ClosingStep ==
  ASSUME PanelInv, NEW S \in SUBSET Claims, \A c \in S : InState(c, Live),
         NEW s \in Dead, Close(S, s), UNCHANGED <<creds, retired>>
  PROVE  PanelInv' /\ Kept
<1>1. creds' \in [Claims -> Credential \cup {None}]
  BY DEF PanelInv, PanelTypes
<1>2. \A c \in Claims :
        IF creds[c] = None THEN creds'[c] = None
        ELSE /\ creds'[c] # None
             /\ creds'[c].holder = creds[c].holder
             /\ creds[c].revoked => creds'[c].revoked
  OBVIOUS
<1>3. /\ claims' \in [Claims -> Claim \cup {None}]
      /\ deliveries' \in [Claims -> Delivery \cup {None}]
      /\ OneLive'
      /\ \A c \in Claims : RowFollows(c)' /\ RowKept(c)
  BY <1>1, <1>2, Closing
<1>4. QED
  BY <1>1, <1>3 DEF PanelInv, PanelTypes, Kept

LEMMA RetireStep ==
  ASSUME PanelInv, NEW n \in Nodes, Retire(n)
  PROVE  PanelInv' /\ Kept
<1> DEFINE S == {c \in ClaimsOf(n) : InState(c, Live)}
<1>1. S \in SUBSET Claims /\ \A c \in S : InState(c, Live)
  BY DEF ClaimsOf
<1>2. Close(S, "CANCELLED") /\ "CANCELLED" \in Dead /\ retired' = retired \cup {n}
  BY DEF Retire, Dead
<1>3. creds' = [c \in Claims |-> IF c \in ClaimsOf(n) /\ creds[c] # None
                  THEN [creds[c] EXCEPT !.revoked = TRUE] ELSE creds[c]]
  BY DEF Retire, Revoked
<1>4. ASSUME NEW c \in Claims
      PROVE  /\ creds'[c] \in Credential \cup {None}
             /\ IF creds[c] = None THEN creds'[c] = None
                ELSE /\ creds'[c] # None
                     /\ creds'[c].holder = creds[c].holder
                     /\ creds[c].revoked => creds'[c].revoked
  <2>1. CASE creds[c] = None
    BY <1>3, <2>1
  <2>2. CASE creds[c] # None /\ c \in ClaimsOf(n)
    <3>1. creds'[c] = [creds[c] EXCEPT !.revoked = TRUE]
      BY <1>3, <2>2
    <3>2. creds[c] \in Credential
      BY <2>2, RowTypes
    <3>3. creds'[c] \in Credential
      BY <3>1, <3>2 DEF Credential
    <3>4. creds'[c].holder = creds[c].holder /\ creds'[c].revoked
      BY <3>1, <3>2 DEF Credential
    <3>5. creds'[c] # None
      BY <3>3
    <3>6. QED
      BY <2>2, <3>3, <3>4, <3>5
  <2>3. CASE creds[c] # None /\ c \notin ClaimsOf(n)
    <3>1. creds'[c] = creds[c]
      BY <1>3, <2>3
    <3>2. QED
      BY <2>3, <3>1, RowTypes
  <2>4. QED
    BY <2>1, <2>2, <2>3
<1>5. creds' \in [Claims -> Credential \cup {None}]
  BY <1>3, <1>4
<1>6. /\ claims' \in [Claims -> Claim \cup {None}]
      /\ deliveries' \in [Claims -> Delivery \cup {None}]
      /\ OneLive'
      /\ \A c \in Claims : RowFollows(c)' /\ RowKept(c)
  BY <1>1, <1>2, <1>4, <1>5, Closing
<1>7. QED
  BY <1>2, <1>5, <1>6 DEF PanelInv, PanelTypes, Kept

LEMMA ClaimDeadlineStep ==
  ASSUME PanelInv, NEW c \in Claims, ClaimDeadline(c)
  PROVE  PanelInv' /\ Kept
<1>1. /\ claims[c] # None /\ claims[c].state \in Open
      /\ claims' = [claims EXCEPT ![c].due = TRUE]
      /\ UNCHANGED <<deliveries, creds, retired>>
  BY DEF ClaimDeadline, InState
<1>2. claims[c] \in Claim /\ claims \in [Claims -> Claim \cup {None}]
  BY <1>1, RowTypes DEF PanelInv, PanelTypes
<1>3. claims'[c] = [claims[c] EXCEPT !.due = TRUE]
      /\ \A d \in Claims \ {c} : claims'[d] = claims[d]
  BY <1>1, <1>2
<1>4. claims'[c] \in Claim
  BY <1>2, <1>3 DEF Claim
<1>5. /\ claims'[c].state = claims[c].state /\ claims'[c].node = claims[c].node
      /\ claims'[c].claimant = claims[c].claimant
  BY <1>2, <1>3 DEF Claim
<1>6. claims'[c] # None
  BY <1>4
<1>7. PanelTypes' /\ retired \subseteq retired'
  BY <1>1, <1>2, <1>4 DEF PanelTypes, PanelInv
<1>8. ASSUME NEW d \in Claims PROVE RowFollows(d)' /\ RowKept(d)
  BY <1>1, <1>3, <1>5, <1>6, RowTypes
     DEF RowFollows, RowKept, InState, Prepared, Dead, Open
<1>9. \A d \in Claims : InState(d, Live)' => InState(d, Live)
  BY <1>1, <1>3, <1>5 DEF InState
<1>10. QED
  BY <1>7, <1>8, <1>9, PanelFromRows

LEMMA DeliveryDeadlineStep ==
  ASSUME PanelInv, NEW c \in Claims, DeliveryDeadline(c)
  PROVE  PanelInv' /\ Kept
<1>1. /\ deliveries[c] # None
      /\ deliveries' = [deliveries EXCEPT ![c].due = TRUE]
      /\ UNCHANGED <<claims, creds, retired>>
  BY DEF DeliveryDeadline, Prepared
<1>2. deliveries[c] \in Delivery /\ deliveries \in [Claims -> Delivery \cup {None}]
  BY <1>1, RowTypes DEF PanelInv, PanelTypes
<1>3. deliveries'[c] = [deliveries[c] EXCEPT !.due = TRUE]
      /\ \A d \in Claims \ {c} : deliveries'[d] = deliveries[d]
  BY <1>1, <1>2
<1>4. deliveries'[c] \in Delivery
  BY <1>2, <1>3 DEF Delivery
<1>5. deliveries'[c].state = deliveries[c].state /\ deliveries'[c].holder = deliveries[c].holder
  BY <1>2, <1>3 DEF Delivery
<1>6. deliveries'[c] # None
  BY <1>4
<1>7. PanelTypes' /\ retired \subseteq retired'
  BY <1>1, <1>2, <1>4 DEF PanelTypes, PanelInv
<1>8. ASSUME NEW d \in Claims PROVE RowFollows(d)' /\ RowKept(d)
  BY <1>1, <1>3, <1>5, <1>6, RowTypes
     DEF RowFollows, RowKept, InState, Prepared, Dead, Open
<1>9. \A d \in Claims : InState(d, Live)' => InState(d, Live)
  BY <1>1 DEF InState
<1>10. QED
  BY <1>7, <1>8, <1>9, PanelFromRows

\* A refused call may have closed what was due.
LEMMA RefusedStep ==
  ASSUME PanelInv, NEW r \in Calls, RefuseExpired(r),
         InState(r.claim, Open) \/ Prepared(r.claim)
  PROVE  PanelInv' /\ Kept
<1>1. r.claim \in Claims
  BY DEF Calls
<1>2. InState(r.claim, Live)
  BY <1>1, RowTypes DEF RowFollows, InState, Live
<1>3. Close({r.claim}, "EXPIRED") /\ UNCHANGED <<creds, retired>> /\ "EXPIRED" \in Dead
  BY DEF RefuseExpired, Dead
<1>4. QED
  BY <1>1, <1>2, <1>3, ClosingStep

LEMMA HandleClaimStep ==
  ASSUME PanelInv, NEW r \in Calls, HandleClaim(r)
  PROVE  PanelInv' /\ Kept
<1> DEFINE c == r.claim
<1>1. c \in Claims /\ r.machine \in Machines
  BY DEF Calls
<1>2. CASE OpenDue(c) /\ RefuseExpired(r)
  BY <1>2, RefusedStep DEF OpenDue
<1>3. CASE UNCHANGED panelVars
  BY <1>3, PanelUnchanged
<1>4. CASE /\ InState(c, {"APPROVED"})
           /\ claims' = [claims EXCEPT ![c].state = "CLAIMED", ![c].claimant = r.machine]
           /\ UNCHANGED <<deliveries, creds, retired>>
  <2>1. claims[c] \in Claim /\ claims[c].state = "APPROVED"
        /\ claims \in [Claims -> Claim \cup {None}]
    BY <1>1, <1>4, RowTypes DEF InState, PanelInv, PanelTypes
  <2>2. claims'[c] = [claims[c] EXCEPT !.state = "CLAIMED", !.claimant = r.machine]
        /\ \A d \in Claims \ {c} : claims'[d] = claims[d]
    BY <1>1, <1>4, <2>1
  <2>3. claims'[c] \in Claim
    BY <1>1, <2>1, <2>2 DEF Claim, ClaimStates, Live, Open
  <2>4. claims'[c].state = "CLAIMED" /\ claims'[c].node = claims[c].node
    BY <2>1, <2>2 DEF Claim
  <2>5. claims'[c] # None
    BY <2>3
  <2>6. PanelTypes' /\ retired \subseteq retired'
    BY <1>1, <1>4, <2>1, <2>3 DEF PanelTypes, PanelInv
  <2>7. claims[c] # None /\ deliveries[c] = None /\ creds[c] = None
    BY <1>1, <1>4, <2>1, RowTypes DEF RowFollows, InState, Open
  <2>8. ASSUME NEW d \in Claims PROVE RowFollows(d)' /\ RowKept(d)
    <3>1. CASE d = c
      BY <1>4, <2>1, <2>4, <2>5, <2>7, <3>1
         DEF RowFollows, RowKept, InState, Prepared, Dead, Open
    <3>2. CASE d # c
      <4>1. claims'[d] = claims[d] /\ deliveries'[d] = deliveries[d] /\ creds'[d] = creds[d]
        BY <1>4, <2>2, <3>2
      <4>2. QED
        BY <4>1, RowTypes DEF RowFollows, RowKept, InState, Prepared, Dead, Open
    <3>3. QED
      BY <3>1, <3>2
  <2>9. \A d \in Claims : InState(d, Live)' => InState(d, Live)
    BY <2>1, <2>2, <2>7 DEF InState, Live, Open
  <2>10. QED
    BY <2>6, <2>8, <2>9, PanelFromRows
<1>5. QED
  BY <1>2, <1>3, <1>4 DEF HandleClaim, Refuse

LEMMA HandlePrepareStep ==
  ASSUME PanelInv, NEW r \in Calls, HandlePrepare(r)
  PROVE  PanelInv' /\ Kept
<1> DEFINE c == r.claim
<1>1. c \in Claims /\ r.machine \in Machines
  BY DEF Calls
<1>2. CASE OpenDue(c) /\ RefuseExpired(r)
  BY <1>2, RefusedStep DEF OpenDue
<1>3. CASE DeliveryDue(c) /\ RefuseExpired(r)
  BY <1>3, RefusedStep DEF DeliveryDue
<1>4. CASE UNCHANGED panelVars
  BY <1>4, PanelUnchanged
<1>5. CASE /\ InState(c, {"CLAIMED"}) /\ BoundTo(r)
           /\ claims' = [claims EXCEPT ![c].state = "CREDENTIAL_PENDING"]
           /\ deliveries' = [deliveries EXCEPT ![c] =
                [holder |-> r.machine, state |-> "PREPARED", due |-> FALSE]]
           /\ UNCHANGED <<creds, retired>>
  <2>1. claims[c] \in Claim /\ claims[c].state = "CLAIMED"
        /\ claims[c].claimant = r.machine
        /\ claims \in [Claims -> Claim \cup {None}]
        /\ deliveries \in [Claims -> Delivery \cup {None}]
    BY <1>1, <1>5, RowTypes DEF InState, PanelInv, PanelTypes, BoundTo
  <2>2. claims'[c] = [claims[c] EXCEPT !.state = "CREDENTIAL_PENDING"]
        /\ \A d \in Claims \ {c} : claims'[d] = claims[d] /\ deliveries'[d] = deliveries[d]
    BY <1>1, <1>5, <2>1
  <2>3. claims'[c] \in Claim
    BY <2>1, <2>2 DEF Claim, ClaimStates, Live, Open
  <2>4. claims'[c].state = "CREDENTIAL_PENDING" /\ claims'[c].node = claims[c].node
        /\ claims'[c].claimant = r.machine
    BY <2>1, <2>2 DEF Claim
  <2>5. claims'[c] # None
    BY <2>3
  <2>6. deliveries'[c] = [holder |-> r.machine, state |-> "PREPARED", due |-> FALSE]
    BY <1>1, <1>5, <2>1
  <2>7. deliveries'[c] \in Delivery
    BY <1>1, <2>6 DEF Delivery, DeliveryStates
  <2>8. deliveries'[c].state = "PREPARED" /\ deliveries'[c].holder = r.machine
    BY <2>6
  <2>9. deliveries'[c] # None
    BY <2>7
  <2>10. PanelTypes' /\ retired \subseteq retired'
    BY <1>1, <1>5, <2>1, <2>3, <2>7 DEF PanelTypes, PanelInv
  <2>11. claims[c] # None /\ deliveries[c] = None /\ creds[c] = None
    BY <1>1, <1>5, <2>1, RowTypes DEF RowFollows, InState, Open
  <2>12. ASSUME NEW d \in Claims PROVE RowFollows(d)' /\ RowKept(d)
    <3>1. CASE d = c
      BY <1>5, <2>1, <2>4, <2>5, <2>8, <2>9, <2>11, <3>1
         DEF RowFollows, RowKept, InState, Prepared, Dead, Open
    <3>2. CASE d # c
      <4>1. claims'[d] = claims[d] /\ deliveries'[d] = deliveries[d] /\ creds'[d] = creds[d]
        BY <1>5, <2>2, <3>2
      <4>2. QED
        BY <4>1, RowTypes DEF RowFollows, RowKept, InState, Prepared, Dead, Open
    <3>3. QED
      BY <3>1, <3>2
  <2>13. \A d \in Claims : InState(d, Live)' => InState(d, Live)
    BY <2>1, <2>2, <2>11 DEF InState, Live, Open
  <2>14. QED
    BY <2>10, <2>12, <2>13, PanelFromRows
<1>6. QED
  BY <1>2, <1>3, <1>4, <1>5 DEF HandlePrepare, Refuse

LEMMA HandleActivateStep ==
  ASSUME PanelInv, NEW r \in Calls, HandleActivate(r)
  PROVE  PanelInv' /\ Kept
<1> DEFINE c == r.claim
<1>1. c \in Claims /\ r.machine \in Machines
  BY DEF Calls
<1>2. CASE DeliveryDue(c) /\ RefuseExpired(r)
  BY <1>2, RefusedStep DEF DeliveryDue
<1>3. CASE UNCHANGED panelVars
  BY <1>3, PanelUnchanged
<1>4. CASE /\ Prepared(c) /\ deliveries[c].holder = r.machine
           /\ creds' = [creds EXCEPT ![c] = [holder |-> r.machine, revoked |-> FALSE]]
           /\ Close({c}, "COMPLETED")
           /\ UNCHANGED retired
  <2>1. claims[c] \in Claim /\ claims[c].state = "CREDENTIAL_PENDING"
        /\ deliveries[c] \in Delivery /\ creds[c] = None
        /\ claims[c].claimant = r.machine
        /\ creds \in [Claims -> Credential \cup {None}]
    BY <1>1, <1>4, RowTypes
       DEF RowFollows, InState, Prepared, PanelInv, PanelTypes
  <2>2. claims'[c] = [claims[c] EXCEPT !.state = "COMPLETED"]
        /\ deliveries'[c] = [deliveries[c] EXCEPT !.state = "COMPLETED"]
    BY <1>1, <1>4 DEF Close
  <2>3. \A d \in Claims \ {c} : /\ claims'[d] = claims[d] /\ deliveries'[d] = deliveries[d]
                                /\ creds'[d] = creds[d]
    BY <1>4, <2>1 DEF Close
  <2>4. claims'[c] \in Claim /\ deliveries'[c] \in Delivery
    BY <2>1, <2>2 DEF Claim, ClaimStates, Delivery, DeliveryStates
  <2>5. claims'[c].state = "COMPLETED" /\ claims'[c].node = claims[c].node
        /\ claims'[c].claimant = r.machine
    BY <2>1, <2>2 DEF Claim
  <2>6. deliveries'[c].state = "COMPLETED" /\ deliveries'[c].holder = r.machine
    BY <1>4, <2>1, <2>2 DEF Delivery
  <2>7. claims'[c] # None /\ deliveries'[c] # None
    BY <2>4
  <2>8. creds'[c] = [holder |-> r.machine, revoked |-> FALSE]
    BY <1>1, <1>4, <2>1
  <2>9. creds'[c] \in Credential
    BY <1>1, <2>8 DEF Credential
  <2>10. creds'[c].holder = r.machine
    BY <2>8
  <2>11. creds'[c] # None
    BY <2>9
  <2>12. \A d \in Claims : /\ claims'[d] \in Claim \cup {None}
                           /\ deliveries'[d] \in Delivery \cup {None}
    BY <2>3, <2>4, RowTypes
  <2>13. PanelTypes' /\ retired \subseteq retired'
    BY <1>1, <1>4, <2>1, <2>9, <2>12 DEF PanelTypes, PanelInv, Close
  <2>14. claims[c] # None /\ deliveries[c] # None
    BY <2>1
  <2>15. ASSUME NEW d \in Claims PROVE RowFollows(d)' /\ RowKept(d)
    <3>1. CASE d = c
      BY <1>4, <2>1, <2>5, <2>6, <2>7, <2>10, <2>11, <2>14, <3>1
         DEF RowFollows, RowKept, InState, Prepared, Dead, Open
    <3>2. CASE d # c
      BY <2>3, <3>2, RowTypes DEF RowFollows, RowKept, InState, Prepared, Dead, Open
    <3>3. QED
      BY <3>1, <3>2
  <2>16. \A d \in Claims : InState(d, Live)' => InState(d, Live)
    BY <2>1, <2>3, <2>14 DEF InState, Live, Open
  <2>17. QED
    BY <2>13, <2>15, <2>16, PanelFromRows
<1>5. QED
  BY <1>2, <1>3, <1>4 DEF HandleActivate, Refuse

LEMMA PanelStep == PanelInv /\ [Next]_vars => PanelInv' /\ Kept
<1> SUFFICES ASSUME PanelInv, [Next]_vars PROVE PanelInv' /\ Kept
  OBVIOUS
<1>1. ASSUME NEW c \in Claims, NEW n \in Nodes, Create(c, n) PROVE PanelInv' /\ Kept
  BY <1>1, CreateStep
<1>2. ASSUME NEW c \in Claims, Cancel(c) PROVE PanelInv' /\ Kept
  <2>1. InState(c, Live) /\ UNCHANGED <<creds, retired>>
    BY <1>2 DEF Cancel
  <2>2. PICK s \in Dead : Close({c}, s)
    BY <1>2 DEF Cancel, Dead
  <2>3. QED
    BY <2>1, <2>2, ClosingStep
<1>3. ASSUME NEW c \in Claims, Expire(c) PROVE PanelInv' /\ Kept
  <2>1. /\ InState(c, Live) /\ UNCHANGED <<creds, retired>>
        /\ Close({c}, "EXPIRED") /\ "EXPIRED" \in Dead
    BY <1>3 DEF Expire, Dead
  <2>2. QED
    BY <2>1, ClosingStep
<1>4. ASSUME NEW n \in Nodes, Retire(n) PROVE PanelInv' /\ Kept
  BY <1>4, RetireStep
<1>5. ASSUME NEW c \in Claims, ClaimDeadline(c) \/ DeliveryDeadline(c)
      PROVE  PanelInv' /\ Kept
  BY <1>5, ClaimDeadlineStep, DeliveryDeadlineStep
<1>6. ASSUME NEW r \in Calls, Handle(r) PROVE PanelInv' /\ Kept
  BY <1>6, HandleClaimStep, HandlePrepareStep, HandleActivateStep DEF Handle
<1>7. ASSUME NEW r \in Calls, LoseCall(r) PROVE PanelInv' /\ Kept
  BY <1>7, PanelUnchanged DEF LoseCall
<1>8. ASSUME NEW m \in Machines, Helper(m) \/ Restart(m) \/ WatchAuth(m)
      PROVE  PanelInv' /\ Kept
  <2>1. UNCHANGED panelVars
    BY <1>8 DEF Helper, Begin, Advance, EnsureState, RunClaim, RunPrepare, RunActivate,
                RunVerify, ClaimAnswered, PrepareAnswered, ActivateAnswered,
                ActivateOrVerify, CommitDescriptor, Stop, Restart, WatchAuth
  <2>2. QED
    BY <2>1, PanelUnchanged
<1>9. CASE UNCHANGED vars
  BY <1>9, PanelUnchanged DEF vars
<1>10. QED
  BY <1>1, <1>2, <1>3, <1>4, <1>5, <1>6, <1>7, <1>8, <1>9
     DEF Next, Administration, Clock, Network

LEMMA PanelInit == Init => PanelInv
BY DEF Init, PanelInv, PanelTypes, RowFollows, OneLive, InState, Prepared

LEMMA ReplyTypes ==
  ASSUME HostTypes, NEW r \in Calls, NEW ok, Reply(r, ok)
  PROVE  HostTypes'
<1>1. r.machine \in Machines /\ process \in [Machines -> Process \cup {None}]
  BY DEF Calls, HostTypes
<1>2. ASSUME NEW m \in Machines PROVE process'[m] \in Process \cup {None}
  BY <1>1, <1>2 DEF Reply, Process
<1>3. process' \in [Machines -> Process \cup {None}]
  BY <1>1, <1>2 DEF Reply
<1>4. QED
  BY <1>3 DEF HostTypes, Reply

LEMMA SendTypes ==
  ASSUME HostTypes, NEW m \in Machines, NEW c \in Claims,
         NEW k \in {"claim", "prepare", "activate"}, Send(m, c, k)
  PROVE  process' \in [Machines -> Process \cup {None}] /\ calls' \subseteq Calls
<1>1. [claim |-> c, step |-> k, answer |-> "none"] \in Process
  BY DEF Process, Steps
<1>2. Call(k, c, m) \in Calls
  BY DEF Call, Calls
<1>3. QED
  BY <1>1, <1>2 DEF Send, HostTypes

LEMMA HostTypeStep == HostTypes /\ [Next]_vars => HostTypes'
<1> SUFFICES ASSUME HostTypes, [Next]_vars PROVE HostTypes'
  OBVIOUS
<1>1. CASE UNCHANGED <<hostVars, calls>>
  BY <1>1 DEF HostTypes, hostVars
<1>2. ASSUME NEW r \in Calls, Handle(r) \/ LoseCall(r) PROVE HostTypes'
  <2>1. CASE LoseCall(r)
    BY <2>1 DEF LoseCall, HostTypes, hostVars
  <2>2. CASE Handle(r)
    BY <2>2, ReplyTypes
       DEF Handle, HandleClaim, HandlePrepare, HandleActivate, Refuse, RefuseExpired
  <2>3. QED
    BY <1>2, <2>1, <2>2
<1>3. ASSUME NEW m \in Machines, NEW c \in Claims, Begin(m, c) PROVE HostTypes'
  <2>1. CASE EnsureState(m, c)
    BY <2>1 DEF EnsureState, HostTypes, LocalPhases
  <2>2. CASE RunClaim(m, c) \/ RunPrepare(m, c) \/ RunActivate(m, c)
    <3>1. PICK k \in {"claim", "prepare", "activate"} : Send(m, c, k)
      BY <2>2 DEF RunClaim, RunPrepare, RunActivate
    <3>2. UNCHANGED <<local, descriptor, authority>>
      BY <2>2 DEF RunClaim, RunPrepare, RunActivate
    <3>3. QED
      BY <3>1, <3>2, SendTypes DEF HostTypes
  <2>3. CASE RunVerify(m, c)
    <3>1. [claim |-> c, step |-> "verify", answer |-> "none"] \in Process
      BY DEF Process, Steps
    <3>2. QED
      BY <2>3, <3>1 DEF RunVerify, HostTypes
  <2>4. QED
    BY <1>3, <2>1, <2>2, <2>3 DEF Begin
<1>4. ASSUME NEW m \in Machines, Advance(m) \/ Stop(m) PROVE HostTypes'
  <2>1. process[m] # None
    BY <1>4 DEF Advance, Stop, ClaimAnswered, PrepareAnswered, ActivateAnswered,
                ActivateOrVerify, CommitDescriptor, Answered
  <2>2. process[m] \in Process /\ process[m].claim \in Claims
    BY <2>1 DEF HostTypes, Process
  <2> DEFINE c == process[m].claim
  <2>5. [process[m] EXCEPT !.step = "verify", !.answer = "none"] \in Process
    BY <2>2 DEF Process, Steps
  <2>6. CASE ClaimAnswered(m)
    <3>1. process' \in [Machines -> Process \cup {None}] /\ calls' \subseteq Calls
      BY <2>2, <2>6, SendTypes DEF ClaimAnswered, End, HostTypes
    <3>2. QED
      BY <2>6, <3>1 DEF ClaimAnswered, HostTypes
  <2>7. CASE PrepareAnswered(m)
    <3>1. process' \in [Machines -> Process \cup {None}] /\ calls' \subseteq Calls
      BY <2>2, <2>7, SendTypes DEF PrepareAnswered
    <3>2. QED
      BY <2>2, <2>7, <3>1 DEF PrepareAnswered, HostTypes, LocalPhases
  <2>8. ASSUME Confirm(m), UNCHANGED <<calls, descriptor, authority>> PROVE HostTypes'
    <3>1. local' \in [Machines -> [Claims -> LocalPhases]]
      BY <2>2, <2>8 DEF Confirm, HostTypes, LocalPhases
    <3>2. process' \in [Machines -> Process \cup {None}]
      BY <2>5, <2>8 DEF Confirm, HostTypes, End
    <3>3. QED
      BY <2>8, <3>1, <3>2 DEF HostTypes
  <2>9. CASE CommitDescriptor(m)
    BY <2>2, <2>9 DEF CommitDescriptor, End, HostTypes
  <2>10. CASE Stop(m)
    BY <2>10 DEF Stop, End, HostTypes
  <2>11. QED
    BY <1>4, <2>6, <2>7, <2>8, <2>9, <2>10 DEF Advance, ActivateAnswered, ActivateOrVerify
<1>5. ASSUME NEW m \in Machines, Restart(m) \/ WatchAuth(m) PROVE HostTypes'
  BY <1>5 DEF Restart, WatchAuth, HostTypes
<1>6. CASE Administration \/ Clock
  BY <1>1, <1>6 DEF Administration, Clock, Create, Cancel, Retire, Expire, ClaimDeadline,
                    DeliveryDeadline
<1>7. QED
  BY <1>1, <1>2, <1>3, <1>4, <1>5, <1>6 DEF Next, Network, Helper, vars

LEMMA HostTypeInit == Init => HostTypes
BY DEF Init, HostTypes, LocalPhases

\* Type correctness.
THEOREM TypeCorrect == Spec => []TypeOK
<1>1. Init => PanelInv /\ HostTypes
  BY PanelInit, HostTypeInit
<1>2. PanelInv /\ HostTypes /\ [Next]_vars => (PanelInv /\ HostTypes)'
  BY PanelStep, HostTypeStep
<1>3. PanelInv /\ HostTypes => TypeOK
  BY DEF PanelInv, PanelTypes, HostTypes, TypeOK
<1>4. QED
  BY <1>1, <1>2, <1>3, PTL DEF Spec

\* Claim, delivery and credential are one state machine for every identity:
\* whatever is cancelled, expired, retired or repeated in between.
THEOREM OneStateMachine == Spec => []DeliveryFollowsClaim
<1>1. PanelInv /\ [Next]_vars => PanelInv'
  BY PanelStep
<1>2. QED
  BY <1>1, PanelInit, RowsFollow, PTL DEF Spec

\* Nothing reopens a closed claim or revives a credential.
THEOREM ClosedStaysClosed == Spec => ClosedForGood
<1>1. ASSUME PanelInv, [Next]_vars, NEW c \in Claims
      PROVE  /\ InState(c, Dead) => claims'[c] = claims[c] /\ creds'[c] = None
             /\ \A m \in Machines : creds[c] # None /\ ~Authenticates(m, c)
                                     => ~Authenticates(m, c)'
  <2>1. RowKept(c) /\ retired \subseteq retired'
    BY <1>1, PanelStep DEF Kept
  <2>2. creds[c] # None => claims[c] # None
    BY <1>1, RowTypes DEF RowFollows, InState
  <2>3. QED
    BY <1>1, <2>1, <2>2 DEF RowKept, Authenticates
<1>2. PanelInv /\ [Next]_vars
        => [\A c \in Claims :
              /\ InState(c, Dead) => claims'[c] = claims[c] /\ creds'[c] = None
              /\ \A m \in Machines : creds[c] # None /\ ~Authenticates(m, c)
                                      => ~Authenticates(m, c)']_vars
  BY <1>1
<1>3. PanelInv /\ [Next]_vars => PanelInv'
  BY PanelStep
<1>4. QED
  BY <1>2, <1>3, PanelInit, PTL DEF Spec, ClosedForGood

-----------------------------------------------------------------------------
(* The host is never ahead.                                                *)

GotDelivery(m, c)   == deliveries[c] # None /\ deliveries[c].holder = m
GotCredential(m, c) == creds[c] # None /\ creds[c].holder = m

\* An answer that waits for the helper of host m says what the panel committed.
AnswerTrue(m) ==
  process[m] # None /\ process[m].answer = "ok" =>
    /\ process[m].step = "prepare"  => GotDelivery(m, process[m].claim)
    /\ process[m].step = "activate" => GotCredential(m, process[m].claim)

AnswersTrue == \A m \in Machines : AnswerTrue(m)

HostInv == PanelInv /\ HostTypes /\ HostNeverAhead /\ AnswersTrue

LEMMA KeptGot ==
  ASSUME Kept, NEW m \in Machines, NEW c \in Claims
  PROVE  /\ GotDelivery(m, c) => GotDelivery(m, c)'
         /\ GotCredential(m, c) => GotCredential(m, c)'
BY DEF Kept, RowKept, GotDelivery, GotCredential

\* What a step must satisfy on the host.
LEMMA HostFromParts ==
  ASSUME HostInv, PanelInv', HostTypes', Kept,
         \A m \in Machines : process'[m] = process[m] \/ AnswerTrue(m)',
         \A m \in Machines, c \in Claims :
           \/ local'[m][c] = local[m][c]
           \/ local'[m][c] \notin {"ACTIVATE_READY", "ACTIVE_CONFIRMED"}
           \/ local'[m][c] = "ACTIVATE_READY" /\ GotDelivery(m, c)
           \/ local'[m][c] = "ACTIVE_CONFIRMED" /\ GotCredential(m, c),
         \A m \in Machines, c \in Claims :
           descriptor'[m] = c => descriptor[m] = c \/ GotCredential(m, c),
         \A m \in Machines, c \in Claims :
           authority'[m] = c => authority[m] = c \/ descriptor[m] = c
  PROVE  HostInv'
<1>1. ASSUME NEW m \in Machines PROVE AnswerTrue(m)'
  <2>1. CASE process'[m] = process[m]
    <3>1. process[m] # None => process[m].claim \in Claims
      BY DEF HostInv, HostTypes, Process
    <3>2. AnswerTrue(m)
      BY DEF HostInv, AnswersTrue
    <3>3. QED
      BY <2>1, <3>1, <3>2, KeptGot DEF AnswerTrue
  <2>2. QED
    BY <2>1
<1>2. ASSUME NEW m \in Machines, NEW c \in Claims
      PROVE  /\ local'[m][c] = "ACTIVATE_READY" => GotDelivery(m, c)'
             /\ local'[m][c] = "ACTIVE_CONFIRMED" \/ descriptor'[m] = c \/ authority'[m] = c
                  => GotCredential(m, c)'
  <2>1. /\ local[m][c] = "ACTIVATE_READY" => GotDelivery(m, c)
        /\ local[m][c] = "ACTIVE_CONFIRMED" \/ descriptor[m] = c \/ authority[m] = c
             => GotCredential(m, c)
    BY DEF HostInv, HostNeverAhead, GotDelivery, GotCredential
  <2>2. QED
    BY <2>1, KeptGot
<1>3. HostNeverAhead'
  BY <1>2 DEF HostNeverAhead, GotDelivery, GotCredential
<1>4. QED
  BY <1>1, <1>3 DEF HostInv, AnswersTrue

\* A positive answer to a prepare or an activate call is only given with the
\* row that it speaks of.
LEMMA ReplyTruth ==
  ASSUME HostInv, PanelInv', HostTypes', Kept, NEW r \in Calls, NEW ok, Reply(r, ok),
         ok = TRUE => /\ r.kind = "prepare" => GotDelivery(r.machine, r.claim)'
                      /\ r.kind = "activate" => GotCredential(r.machine, r.claim)',
         ok \in BOOLEAN
  PROVE  HostInv'
<1>1. ASSUME NEW m \in Machines PROVE process'[m] = process[m] \/ AnswerTrue(m)'
  <2>1. process[m] \in Process \cup {None}
    BY DEF HostInv, HostTypes
  <2>2. CASE /\ m = r.machine /\ process[m] # None /\ process[m].claim = r.claim
             /\ process[m].step = r.kind /\ process[m].answer = "none"
    <3>1. process'[m] = [process[m] EXCEPT !.answer = IF ok THEN "ok" ELSE "refused"]
      BY <2>2 DEF Reply, HostInv, HostTypes
    <3>2. process'[m].claim = r.claim /\ process'[m].step = r.kind
          /\ process'[m].answer = IF ok THEN "ok" ELSE "refused"
      BY <2>1, <2>2, <3>1 DEF Process
    <3>3. QED
      BY <2>2, <3>2 DEF AnswerTrue
  <2>3. QED
    BY <2>2 DEF Reply, HostInv, HostTypes
<1>2. QED
  BY <1>1, HostFromParts DEF Reply

LEMMA HostUnchanged ==
  ASSUME HostInv, PanelInv', HostTypes', Kept, UNCHANGED hostVars
  PROVE  HostInv'
BY HostFromParts DEF hostVars

LEMMA HandleTruth ==
  ASSUME HostInv, PanelInv', HostTypes', Kept, NEW r \in Calls, Handle(r)
  PROVE  HostInv'
<1>1. r.claim \in Claims /\ r.machine \in Machines
  BY DEF Calls
<1>2. CASE HandleClaim(r)
  <2>1. PICK ok \in BOOLEAN : Reply(r, ok) /\ r.kind = "claim"
    BY <1>2 DEF HandleClaim, Refuse, RefuseExpired
  <2>2. QED
    BY <2>1, ReplyTruth
<1>3. CASE HandlePrepare(r)
  <2>1. CASE Reply(r, FALSE)
    BY <2>1, ReplyTruth
  <2>2. CASE Reply(r, TRUE) /\ r.kind = "prepare" /\ GotDelivery(r.machine, r.claim)'
    BY <2>2, ReplyTruth
  <2>3. CASE /\ Reply(r, deliveries[r.claim].holder = r.machine) /\ r.kind = "prepare"
             /\ InState(r.claim, {"CREDENTIAL_PENDING"}) /\ UNCHANGED panelVars
    <3>1. CASE deliveries[r.claim].holder = r.machine
      <4>1. deliveries[r.claim] # None
        BY <1>1, <2>3, RowTypes DEF HostInv, RowFollows, Prepared
      <4>2. GotDelivery(r.machine, r.claim)'
        BY <2>3, <3>1, <4>1 DEF GotDelivery, panelVars
      <4>3. Reply(r, TRUE)
        BY <2>3, <3>1 DEF Reply
      <4>4. QED
        BY <2>2, <2>3, <4>2, <4>3
    <3>2. CASE deliveries[r.claim].holder # r.machine
      <4>1. Reply(r, FALSE)
        BY <2>3, <3>2 DEF Reply
      <4>2. QED
        BY <2>1, <4>1
    <3>3. QED
      BY <3>1, <3>2
  <2>4. CASE /\ Reply(r, TRUE) /\ r.kind = "prepare"
             /\ deliveries' = [deliveries EXCEPT ![r.claim] =
                  [holder |-> r.machine, state |-> "PREPARED", due |-> FALSE]]
    <3>1. deliveries'[r.claim] = [holder |-> r.machine, state |-> "PREPARED", due |-> FALSE]
      BY <1>1, <2>4 DEF HostInv, PanelInv, PanelTypes
    <3>2. deliveries'[r.claim] \in Delivery
      BY <1>1, <3>1 DEF Delivery, DeliveryStates
    <3>3. deliveries'[r.claim] # None
      BY <3>2
    <3>4. GotDelivery(r.machine, r.claim)'
      BY <3>1, <3>3 DEF GotDelivery
    <3>5. QED
      BY <2>2, <2>4, <3>4
  <2>5. QED
    BY <1>3, <2>1, <2>3, <2>4 DEF HandlePrepare, Refuse, RefuseExpired
<1>4. CASE HandleActivate(r)
  <2>1. CASE Reply(r, FALSE)
    BY <2>1, ReplyTruth
  <2>2. CASE Reply(r, TRUE) /\ r.kind = "activate" /\ GotCredential(r.machine, r.claim)'
    BY <2>2, ReplyTruth
  <2>3. CASE /\ Reply(r, ~creds[r.claim].revoked) /\ r.kind = "activate"
             /\ deliveries[r.claim].holder = r.machine
             /\ InState(r.claim, {"COMPLETED"}) /\ UNCHANGED panelVars
    <3>1. creds[r.claim] # None /\ creds[r.claim].holder = r.machine
      BY <1>1, <2>3, RowTypes DEF HostInv, RowFollows
    <3>2. GotCredential(r.machine, r.claim)'
      BY <2>3, <3>1 DEF GotCredential, panelVars
    <3>3. CASE creds[r.claim].revoked
      <4>1. Reply(r, FALSE)
        BY <2>3, <3>3 DEF Reply
      <4>2. QED
        BY <2>1, <4>1
    <3>4. CASE ~creds[r.claim].revoked
      <4>1. Reply(r, TRUE)
        BY <2>3, <3>4 DEF Reply
      <4>2. QED
        BY <2>2, <2>3, <3>2, <4>1
    <3>5. QED
      BY <3>3, <3>4
  <2>4. CASE /\ Reply(r, TRUE) /\ r.kind = "activate"
             /\ creds' = [creds EXCEPT ![r.claim] =
                            [holder |-> r.machine, revoked |-> FALSE]]
    <3>1. creds'[r.claim] = [holder |-> r.machine, revoked |-> FALSE]
      BY <1>1, <2>4 DEF HostInv, PanelInv, PanelTypes
    <3>2. creds'[r.claim] \in Credential
      BY <1>1, <3>1 DEF Credential
    <3>3. creds'[r.claim] # None
      BY <3>2
    <3>4. GotCredential(r.machine, r.claim)'
      BY <3>1, <3>3 DEF GotCredential
    <3>5. QED
      BY <2>2, <2>4, <3>4
  <2>5. QED
    BY <1>4, <2>1, <2>3, <2>4 DEF HandleActivate, Refuse, RefuseExpired
<1>5. QED
  BY <1>2, <1>3, <1>4 DEF Handle

LEMMA SendTruth ==
  ASSUME HostInv, NEW m \in Machines, NEW c \in Claims,
         NEW k \in {"claim", "prepare", "activate"}, Send(m, c, k)
  PROVE  \A n \in Machines : process'[n] = process[n] \/ AnswerTrue(n)'
<1>1. process' = [process EXCEPT ![m] = [claim |-> c, step |-> k, answer |-> "none"]]
      /\ process \in [Machines -> Process \cup {None}]
  BY DEF Send, HostInv, HostTypes
<1>2. process'[m].answer = "none"
  BY <1>1
<1>3. QED
  BY <1>1, <1>2 DEF AnswerTrue

LEMMA EndTruth ==
  ASSUME HostInv, NEW m \in Machines, End(m)
  PROVE  \A n \in Machines : process'[n] = process[n] \/ AnswerTrue(n)'
BY DEF End, HostInv, HostTypes, AnswerTrue

LEMMA BeginTruth ==
  ASSUME HostInv, PanelInv', HostTypes', Kept, NEW m \in Machines, NEW c \in Claims,
         Begin(m, c)
  PROVE  HostInv'
<1>1. CASE EnsureState(m, c)
  <2>1. \A n \in Machines, d \in Claims :
          local'[n][d] = local[n][d] \/ local'[n][d] = "PREPARE_READY"
    BY <1>1 DEF EnsureState, HostInv, HostTypes
  <2>2. UNCHANGED <<process, descriptor, authority>>
    BY <1>1 DEF EnsureState
  <2>3. QED
    BY <2>1, <2>2, HostFromParts
<1>2. CASE RunClaim(m, c) \/ RunPrepare(m, c) \/ RunActivate(m, c)
  <2>1. PICK k \in {"claim", "prepare", "activate"} : Send(m, c, k)
    BY <1>2 DEF RunClaim, RunPrepare, RunActivate
  <2>2. UNCHANGED <<local, descriptor, authority>>
    BY <1>2 DEF RunClaim, RunPrepare, RunActivate
  <2>3. \A n \in Machines : process'[n] = process[n] \/ AnswerTrue(n)'
    BY <2>1, SendTruth
  <2>4. QED
    BY <2>2, <2>3, HostFromParts
<1>3. CASE RunVerify(m, c)
  <2>1. process' = [process EXCEPT ![m] = [claim |-> c, step |-> "verify", answer |-> "none"]]
        /\ process \in [Machines -> Process \cup {None}]
        /\ UNCHANGED <<local, descriptor, authority>>
    BY <1>3 DEF RunVerify, HostInv, HostTypes
  <2>2. process'[m].answer = "none"
    BY <2>1
  <2>3. \A n \in Machines : process'[n] = process[n] \/ AnswerTrue(n)'
    BY <2>1, <2>2 DEF AnswerTrue
  <2>4. QED
    BY <2>1, <2>3, HostFromParts
<1>4. QED
  BY <1>1, <1>2, <1>3 DEF Begin

\* The phase is confirmed for a credential that the host has got.
LEMMA ConfirmTruth ==
  ASSUME HostInv, PanelInv', HostTypes', Kept, NEW m \in Machines, process[m] # None,
         GotCredential(m, process[m].claim), Confirm(m), UNCHANGED <<descriptor, authority>>
  PROVE  HostInv'
<1>1. process[m] \in Process /\ process[m].claim \in Claims
      /\ process \in [Machines -> Process \cup {None}]
  BY DEF HostInv, HostTypes, Process
<1>2. \A n \in Machines, c \in Claims :
        \/ local'[n][c] = local[n][c]
        \/ local'[n][c] = "ACTIVE_CONFIRMED" /\ GotCredential(n, c)
  BY <1>1 DEF Confirm, HostInv, HostTypes
<1>3. \A n \in Machines : process'[n] = process[n] \/ AnswerTrue(n)'
  <2>1. CASE m \in Scripted
    <3>1. process' = [process EXCEPT ![m].step = "verify", ![m].answer = "none"]
      BY <2>1 DEF Confirm
    <3>2. process'[m] = [process[m] EXCEPT !.step = "verify", !.answer = "none"]
          /\ \A n \in Machines \ {m} : process'[n] = process[n]
      BY <1>1, <3>1
    <3>3. process'[m].answer = "none"
      BY <1>1, <3>2 DEF Process
    <3>4. QED
      BY <3>2, <3>3 DEF AnswerTrue
  <2>2. CASE m \notin Scripted
    BY <2>2, EndTruth DEF Confirm
  <2>3. QED
    BY <2>1, <2>2
<1>4. QED
  BY <1>2, <1>3, HostFromParts

LEMMA AdvanceTruth ==
  ASSUME HostInv, PanelInv', HostTypes', Kept, NEW m \in Machines, Advance(m)
  PROVE  HostInv'
<1>1. process[m] # None
  BY DEF Advance, ClaimAnswered, PrepareAnswered, ActivateAnswered, ActivateOrVerify,
         CommitDescriptor, Answered
<1>2. process[m] \in Process /\ process[m].claim \in Claims
  BY <1>1 DEF HostInv, HostTypes, Process
<1>3. AnswerTrue(m)
  BY DEF HostInv, AnswersTrue
<1>4. CASE ClaimAnswered(m)
  <2>1. \A n \in Machines : process'[n] = process[n] \/ AnswerTrue(n)'
    BY <1>2, <1>4, SendTruth, EndTruth DEF ClaimAnswered
  <2>2. QED
    BY <1>4, <2>1, HostFromParts DEF ClaimAnswered
<1>5. CASE PrepareAnswered(m)
  <2>1. \A n \in Machines : process'[n] = process[n] \/ AnswerTrue(n)'
    BY <1>2, <1>5, SendTruth DEF PrepareAnswered
  <2>2. GotDelivery(m, process[m].claim)
    BY <1>3, <1>5 DEF PrepareAnswered, Answered, AnswerTrue
  <2>3. \A n \in Machines, c \in Claims :
          \/ local'[n][c] = local[n][c]
          \/ local'[n][c] = "ACTIVATE_READY" /\ GotDelivery(n, c)
    BY <1>2, <1>5, <2>2 DEF PrepareAnswered, HostInv, HostTypes
  <2>4. QED
    BY <1>5, <2>1, <2>3, HostFromParts DEF PrepareAnswered
<1>6. CASE ActivateAnswered(m)
  <2>1. GotCredential(m, process[m].claim)
    BY <1>3, <1>6 DEF ActivateAnswered, Answered, AnswerTrue
  <2>2. QED
    BY <1>1, <1>6, <2>1, ConfirmTruth DEF ActivateAnswered
<1>7. CASE ActivateOrVerify(m)
  <2>1. GotCredential(m, process[m].claim)
    BY <1>7 DEF ActivateOrVerify, Authenticates, GotCredential
  <2>2. QED
    BY <1>1, <1>7, <2>1, ConfirmTruth DEF ActivateOrVerify
<1>8. CASE CommitDescriptor(m)
  <2>1. GotCredential(m, process[m].claim)
    BY <1>8 DEF CommitDescriptor, Authenticates, GotCredential
  <2>2. \A n \in Machines, c \in Claims :
          descriptor'[n] = c => descriptor[n] = c \/ GotCredential(n, c)
    BY <1>2, <1>8, <2>1 DEF CommitDescriptor, HostInv, HostTypes
  <2>3. \A n \in Machines : process'[n] = process[n] \/ AnswerTrue(n)'
    BY <1>8, EndTruth DEF CommitDescriptor
  <2>4. QED
    BY <1>8, <2>2, <2>3, HostFromParts DEF CommitDescriptor
<1>9. QED
  BY <1>4, <1>5, <1>6, <1>7, <1>8 DEF Advance

LEMMA HostStep == HostInv /\ [Next]_vars => HostInv'
<1> SUFFICES ASSUME HostInv, [Next]_vars PROVE HostInv'
  OBVIOUS
<1>1. PanelInv' /\ HostTypes' /\ Kept
  BY PanelStep, HostTypeStep DEF HostInv
<1>2. CASE UNCHANGED hostVars
  BY <1>1, <1>2, HostUnchanged
<1>3. ASSUME NEW r \in Calls, Handle(r) PROVE HostInv'
  BY <1>1, <1>3, HandleTruth
<1>4. ASSUME NEW m \in Machines, NEW c \in Claims, Begin(m, c) PROVE HostInv'
  BY <1>1, <1>4, BeginTruth
<1>5. ASSUME NEW m \in Machines, Advance(m) PROVE HostInv'
  BY <1>1, <1>5, AdvanceTruth
<1>6. ASSUME NEW m \in Machines, Stop(m) PROVE HostInv'
  BY <1>1, <1>6, EndTruth, HostFromParts DEF Stop
<1>7. ASSUME NEW m \in Machines, Restart(m) \/ WatchAuth(m) PROVE HostInv'
  <2>1. \A n \in Machines, c \in Claims :
          authority'[n] = c => authority[n] = c \/ descriptor[n] = c
    BY <1>7 DEF Restart, WatchAuth, HostInv, HostTypes
  <2>2. UNCHANGED <<process, local, descriptor>>
    BY <1>7 DEF Restart, WatchAuth
  <2>3. QED
    BY <1>1, <2>1, <2>2, HostFromParts
<1>8. QED
  BY <1>2, <1>3, <1>4, <1>5, <1>6, <1>7
     DEF Next, Administration, Clock, Network, Helper, Create, Cancel, Retire, Expire,
         ClaimDeadline, DeliveryDeadline, LoseCall, vars

\* What a host has on disk, and what its node runs with, is never more than the
\* panel committed for exactly this host.
THEOREM HostIsNeverAhead == Spec => []HostNeverAhead
<1>1. Init => HostInv
  <2> SUFFICES ASSUME Init PROVE HostInv
    OBVIOUS
  <2>1. PanelInv /\ HostTypes
    BY PanelInit, HostTypeInit
  <2>2. HostNeverAhead /\ AnswersTrue
    BY DEF Init, HostNeverAhead, AnswersTrue, AnswerTrue
  <2>3. QED
    BY <2>1, <2>2 DEF HostInv
<1>2. HostInv => HostNeverAhead
  BY DEF HostInv
<1>3. QED
  BY <1>1, <1>2, HostStep, PTL DEF Spec

-----------------------------------------------------------------------------
(* The registry.                                                           *)

LEMMA IssuedSame ==
  ASSUME PanelInv, Kept, \A c \in Claims : creds[c] = None => creds'[c] = None
  PROVE  \A n \in Nodes : Issued(n)' = Issued(n)
<1>1. \A c \in Claims : creds[c] # None => claims[c] # None
  BY RowTypes DEF RowFollows, InState
<1>2. \A n \in Nodes : {d \in ClaimsOf(n) : creds[d] # None}'
                         = {d \in ClaimsOf(n) : creds[d] # None}
  BY <1>1 DEF Kept, RowKept, ClaimsOf
<1>3. \A c \in Claims : creds[c] # None => creds'[c].holder = creds[c].holder
  BY DEF Kept, RowKept
<1>4. QED
  BY <1>2, <1>3 DEF Issued, ClaimsOf

LEMMA ActivateIssues ==
  ASSUME PanelInv, Kept, NEW r \in Calls,
         Prepared(r.claim), ~ActivationHistory(claims[r.claim].node),
         creds' = [creds EXCEPT ![r.claim] = [holder |-> r.machine, revoked |-> FALSE]],
         UNCHANGED retired, PanelInv'
  PROVE  \E n \in Nodes, k \in Claims \X Machines : Registry!Issue(n, k)
<1> DEFINE c == r.claim
           n == claims[c].node
           k == <<c, r.machine>>
<1>1. c \in Claims /\ r.machine \in Machines
  BY DEF Calls
<1>2. claims[c] # None /\ claims[c] \in Claim
  BY <1>1, RowTypes DEF RowFollows, InState
<1>3. n \in Nodes /\ k \in Claims \X Machines
  BY <1>1, <1>2 DEF Claim
<1>4. creds \in [Claims -> Credential \cup {None}]
  BY DEF PanelInv, PanelTypes
<1>5. creds'[c] = [holder |-> r.machine, revoked |-> FALSE]
      /\ \A d \in Claims \ {c} : creds'[d] = creds[d]
  BY <1>1, <1>4
<1> DEFINE new == [holder |-> r.machine, revoked |-> FALSE]
<1>6. new \in Credential
  BY <1>1 DEF Credential
<1>7. creds'[c] # None /\ creds'[c].holder = r.machine
  <2>1. creds'[c] = new
    BY <1>5
  <2>2. new.holder = r.machine
    OBVIOUS
  <2> HIDE DEF new
  <2>3. QED
    BY <1>6, <2>1, <2>2
<1>8. \A d \in Claims : /\ creds[d] # None => claims[d] # None
                        /\ creds'[d] # None => claims'[d] # None
  BY RowTypes DEF PanelInv, RowFollows, InState
<1>9. \A d \in ClaimsOf(n) : creds[d] = None
  BY DEF ActivationHistory
<1>10. Issued(n) = {}
  BY <1>9 DEF Issued
<1>11. {d \in ClaimsOf(n) : creds[d] # None}' = {c}
  <2>1. claims'[c].node = n /\ claims'[c] # None
    BY <1>1, <1>2 DEF Kept, RowKept
  <2>2. ASSUME NEW d \in Claims, d # c, claims'[d] # None, claims'[d].node = n,
               creds'[d] # None
        PROVE  FALSE
    <3>1. creds[d] # None /\ claims[d] # None
      BY <1>5, <1>8, <2>2
    <3>2. claims[d].node = n
      BY <2>2, <3>1 DEF Kept, RowKept
    <3>3. QED
      BY <1>9, <3>1, <3>2 DEF ClaimsOf
  <2>3. QED
    BY <1>1, <1>7, <2>1, <2>2 DEF ClaimsOf
<1>12. Issued(n)' = {k}
  BY <1>7, <1>11 DEF Issued
<1>13. ASSUME NEW x \in Nodes, x # n PROVE Issued(x)' = Issued(x)
  <2>1. {d \in ClaimsOf(x) : creds[d] # None}' = {d \in ClaimsOf(x) : creds[d] # None}
    <3>1. claims'[c].node = n
      BY <1>1, <1>2 DEF Kept, RowKept
    <3>2. \A d \in Claims : d # c => /\ creds'[d] = creds[d]
                                     /\ creds[d] # None =>
                                          /\ claims[d] # None /\ claims'[d] # None
                                          /\ claims'[d].node = claims[d].node
      BY <1>5, <1>8 DEF Kept, RowKept
    <3>3. QED
      BY <1>13, <3>1, <3>2 DEF ClaimsOf
  <2>2. \A d \in Claims : d \in {e \in ClaimsOf(x) : creds[e] # None} => d # c
    BY <1>13 DEF ClaimsOf
  <2>3. QED
    BY <1>5, <2>1, <2>2 DEF Issued, ClaimsOf
<1>14. [x \in Nodes |-> Issued(x)]' = [[x \in Nodes |-> Issued(x)] EXCEPT ![n] = {k}]
  <2>1. \A x \in Nodes : Issued(x)' = IF x = n THEN {k} ELSE Issued(x)
    <3> TAKE x \in Nodes
    <3>1. CASE x = n
      <4>1. x = n'
        BY <1>1, <1>2, <3>1 DEF Kept, RowKept
      <4>2. QED
        BY <1>12, <3>1, <4>1 DEF Issued, ClaimsOf
    <3>2. CASE x # n
      BY <1>13, <3>2
    <3>3. QED
      BY <3>1, <3>2
  <2> HIDE DEF n, k
  <2>2. QED
    BY <1>3, <2>1
<1>15. Registry!Issue(n, k)
  BY <1>3, <1>10, <1>14 DEF Registry!Issue
<1>16. QED
  BY <1>3, <1>15

\* The delivery protocol implements the registry: every step issues the one
\* credential of an identity, retires it, or shows nothing.
THEOREM RefinesRegistry == Spec => ImplementsRegistry
<1> DEFINE shown == <<[n \in Nodes |-> Issued(n)], retired>>
<1>1. Init => Registry!Init
  BY DEF Init, Registry!Init, Issued, ClaimsOf
<1>2. ASSUME PanelInv, [Next]_vars PROVE [Registry!Next]_shown
  <2>1. PanelInv' /\ Kept
    BY <1>2, PanelStep
  <2>2. ASSUME \A c \in Claims : creds[c] = None => creds'[c] = None
        PROVE  [n \in Nodes |-> Issued(n)]' = [n \in Nodes |-> Issued(n)]
    BY <1>2, <2>1, <2>2, IssuedSame
  <2>3. ASSUME UNCHANGED <<creds, retired>> PROVE shown' = shown
    BY <2>2, <2>3
  <2>4. ASSUME NEW n \in Nodes, Retire(n) PROVE Registry!Next
    <3>1. \A c \in Claims : creds[c] = None => creds'[c] = None
      BY <2>4 DEF Retire, Revoked
    <3>2. Registry!Retire(n)
      BY <2>2, <2>4, <3>1 DEF Retire, Registry!Retire
    <3>3. QED
      BY <3>2 DEF Registry!Next
  <2>5. ASSUME NEW r \in Calls, HandleActivate(r) PROVE Registry!Next \/ shown' = shown
    <3>1. CASE UNCHANGED <<creds, retired>>
      BY <2>3, <3>1
    <3>2. CASE /\ Prepared(r.claim) /\ ~ActivationHistory(claims[r.claim].node)
               /\ creds' = [creds EXCEPT ![r.claim] =
                              [holder |-> r.machine, revoked |-> FALSE]]
               /\ UNCHANGED retired
      <4>1. \E n \in Nodes, k \in Claims \X Machines : Registry!Issue(n, k)
        BY <1>2, <2>1, <3>2, ActivateIssues
      <4>2. QED
        BY <4>1 DEF Registry!Next
    <3>3. QED
      BY <2>5, <3>1, <3>2 DEF HandleActivate, Refuse, RefuseExpired, panelVars
  <2>6. CASE UNCHANGED <<creds, retired>>
    BY <2>3, <2>6
  <2>7. QED
    BY <1>2, <2>4, <2>5, <2>6
       DEF Next, Administration, Clock, Network, Helper, Begin, Advance, Handle, Create,
           Cancel, Expire, ClaimDeadline, DeliveryDeadline, HandleClaim, HandlePrepare,
           Refuse, RefuseExpired, LoseCall, EnsureState, RunClaim, RunPrepare,
           RunActivate, RunVerify, ClaimAnswered, PrepareAnswered, ActivateAnswered,
           ActivateOrVerify, CommitDescriptor, Stop, Restart, WatchAuth, panelVars, vars
<1>3. PanelInv /\ [Next]_vars => PanelInv'
  BY PanelStep
<1>4. PanelInv /\ [Next]_vars => [Registry!Next]_shown
  BY <1>2
<1>5. QED
  BY <1>1, <1>3, <1>4, PanelInit, PTL DEF Spec, ImplementsRegistry, Registry!Spec

-----------------------------------------------------------------------------
(* The identity.                                                           *)

\* AlreadyActive and RecoveryRequired: over all its claims, whether completed,
\* cancelled or revoked since, an identity obtains one credential.
OneCredential ==
  \A c, d \in Claims :
    creds[c] # None /\ creds[d] # None /\ claims[c].node = claims[d].node => c = d

\* A credential comes from an activation that found none for the identity.
LEMMA CredentialUnless ==
  ASSUME PanelInv, [Next]_vars
  PROVE  \/ \A c \in Claims : creds[c] = None => creds'[c] = None
         \/ \E r \in Calls : /\ Prepared(r.claim) /\ ~ActivationHistory(claims[r.claim].node)
                             /\ \A d \in Claims : d # r.claim => creds'[d] = creds[d]
<1>1. ASSUME NEW n \in Nodes, Retire(n)
      PROVE  \A c \in Claims : creds[c] = None => creds'[c] = None
  BY <1>1 DEF Retire, Revoked
<1>2. ASSUME NEW r \in Calls, HandleActivate(r)
      PROVE  \/ UNCHANGED creds
             \/ /\ Prepared(r.claim) /\ ~ActivationHistory(claims[r.claim].node)
                /\ \A d \in Claims : d # r.claim => creds'[d] = creds[d]
  <2>1. creds \in [Claims -> Credential \cup {None}]
    BY DEF PanelInv, PanelTypes
  <2>2. QED
    BY <1>2, <2>1 DEF HandleActivate, Refuse, RefuseExpired, panelVars
<1>3. \/ UNCHANGED creds
      \/ (\E n \in Nodes : Retire(n))
      \/ \E r \in Calls : HandleActivate(r)
  BY DEF Next, Administration, Clock, Network, Helper, Begin, Advance, Handle, Create,
         Cancel, Expire, ClaimDeadline, DeliveryDeadline, HandleClaim, HandlePrepare,
         Refuse, RefuseExpired, LoseCall, EnsureState, RunClaim, RunPrepare,
         RunActivate, RunVerify, ClaimAnswered, PrepareAnswered, ActivateAnswered,
         ActivateOrVerify, CommitDescriptor, Stop, Restart, WatchAuth, panelVars, vars
<1>4. QED
  BY <1>1, <1>2, <1>3

LEMMA OneCredentialStep == PanelInv /\ OneCredential /\ [Next]_vars => OneCredential'
<1> SUFFICES ASSUME PanelInv, OneCredential, [Next]_vars,
                    NEW c \in Claims, NEW d \in Claims,
                    creds'[c] # None, creds'[d] # None, claims'[c].node = claims'[d].node
             PROVE  c = d
  BY DEF OneCredential
<1>1. PanelInv' /\ Kept
  BY PanelStep
<1>2. \A e \in Claims : creds[e] # None => claims[e] # None /\ claims'[e].node = claims[e].node
  BY <1>1, RowTypes DEF RowFollows, InState, Kept, RowKept
<1>3. CASE creds[c] # None /\ creds[d] # None
  BY <1>2, <1>3 DEF OneCredential
<1>4. ASSUME NEW r \in Calls, Prepared(r.claim), ~ActivationHistory(claims[r.claim].node),
             NEW f \in Claims, f # r.claim, creds'[f] = creds[f], creds'[f] # None,
             claims'[r.claim].node = claims'[f].node
      PROVE  FALSE
  <2>1. r.claim \in Claims
    BY DEF Calls
  <2>2. claims[r.claim] # None /\ claims'[r.claim].node = claims[r.claim].node
    BY <1>1, <1>4, <2>1, RowTypes DEF Prepared, RowFollows, Kept, RowKept
  <2>3. QED
    BY <1>2, <1>4, <2>2 DEF ActivationHistory, ClaimsOf
<1>5. ASSUME NEW r \in Calls, Prepared(r.claim), ~ActivationHistory(claims[r.claim].node),
             \A e \in Claims : e # r.claim => creds'[e] = creds[e]
      PROVE  c = d
  BY <1>3, <1>4, <1>5
<1>6. CASE \A e \in Claims : creds[e] = None => creds'[e] = None
  BY <1>3, <1>6
<1>7. QED
  BY <1>5, <1>6, CredentialUnless

\* activate_initial_node_credential_from_delivery gives an identity one permanent
\* credential for good: no sequence of claims, cancellations, expiries, repeated
\* or late requests and retirements makes it issue a second one.
THEOREM OneCredentialPerIdentity == Spec => []OneCredential
<1>1. Init => PanelInv /\ OneCredential
  BY PanelInit DEF Init, OneCredential
<1>2. PanelInv /\ OneCredential /\ [Next]_vars => PanelInv' /\ OneCredential'
  BY PanelStep, OneCredentialStep
<1>3. QED
  BY <1>1, <1>2, PTL DEF Spec
=============================================================================
