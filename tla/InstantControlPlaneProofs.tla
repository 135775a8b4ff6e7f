---------------------- MODULE InstantControlPlaneProofs ----------------------
(***************************************************************************)
(* The control plane, for any numbers of hosts, slots, sessions, claims    *)
(* and workers.  First, under every fault the model has: no two live       *)
(* sessions share a warm slot, and no live session loses its claim.  Then  *)
(* what holds only where callers and hosts behave: each of those theorems  *)
(* names the routes and faults it needs to exclude, and those are the ones *)
(* the model has a counterexample for.                                     *)
(***************************************************************************)
EXTENDS InstantControlPlane, TLAPS

\* A claim that was made names a slot; a slot names only a claim made on it;
\* an active claim is its slot's current claim; and a RELEASING slot's claim
\* is over.
ClaimsAndSlots ==
  /\ \A c \in Claims : claim[c].state # "NONE" => claim[c].slot \in Slots
  /\ \A t \in Slots : slot[t].claim # None =>
       claim[slot[t].claim].state # "NONE" /\ claim[slot[t].claim].slot = t
  /\ \A c \in Claims : claim[c].state = "ACTIVE" => slot[claim[c].slot].claim = c
  /\ \A t \in Slots : slot[t].state = "RELEASING" /\ slot[t].claim # None =>
       claim[slot[t].claim].state # "ACTIVE"

\* A session row has a claim of its own, which is active while it is live.
SessionsAndClaims ==
  /\ \A s \in Sessions : session[s].state # "NONE" =>
       session[s].claim \in Claims /\ claim[session[s].claim].state # "NONE"
  /\ \A s \in Sessions : session[s].state = "NONE" =>
       session[s].claim = None /\ session[s].lease = None /\ session[s].exp = "none"
  /\ \A s, t \in Sessions : session[s].claim = session[t].claim /\ session[s].claim # None => s = t
  /\ \A s \in Sessions : session[s].state \in Live => claim[session[s].claim].state = "ACTIVE"
  /\ \A s \in outbox : session[s].state # "NONE"

StoreInv == StoreTypeOK /\ ClaimsAndSlots /\ SessionsAndClaims

\* A step that gives no session a claim and makes none live.
BindsNothing ==
  /\ \A c \in Claims : claim[c].state # "NONE" => claim'[c].state # "NONE"
  /\ \A s \in Sessions : session'[s].claim = session[s].claim
  /\ \A s \in Sessions : session'[s].state \in Live => session[s].state \in Live

-----------------------------------------------------------------------------
(* The transactions of the store. *)

\* The empty tables.
LEMMA StoreInitInv ==
  ASSUME StoreInit PROVE StoreInv
BY Zenon, StoreAssumption
   DEF StoreInit, StoreInv, StoreTypeOK, ClaimsAndSlots, SessionsAndClaims,
       HostRow, SlotRow, ClaimRow, SessionRow, Live

\* A step that leaves the tables alone.
LEMMA StoreUnchanged ==
  ASSUME StoreInv, UNCHANGED storeVars PROVE StoreInv' /\ BindsNothing
BY Zenon DEF StoreInv, StoreTypeOK, ClaimsAndSlots, SessionsAndClaims, storeVars, BindsNothing, SlotOf

\* No claim is made or revived, and a slot changes its claim only to none
\* and only when no active claim is on it.
LEMMA ClaimsAndSlotsKept ==
  ASSUME StoreInv, StoreTypeOK',
         \A c \in Claims : /\ claim'[c].slot = claim[c].slot
                           /\ claim'[c].state = "NONE" <=> claim[c].state = "NONE"
                           /\ claim'[c].state = "ACTIVE" => claim[c].state = "ACTIVE",
         \A t \in Slots : slot'[t].claim \in {slot[t].claim, None},
         \A c \in Claims : claim'[c].state = "ACTIVE" => slot'[claim[c].slot].claim = slot[claim[c].slot].claim,
         \A t \in Slots : slot'[t].state = "RELEASING" /\ slot'[t].claim # None =>
           claim'[slot'[t].claim].state # "ACTIVE"
  PROVE  ClaimsAndSlots'
<1>1. \A c \in Claims : claim'[c].state # "NONE" => claim'[c].slot \in Slots
  BY Zenon DEF StoreInv, ClaimsAndSlots
<1>2. \A t \in Slots : slot'[t].claim # None =>
        claim'[slot'[t].claim].state # "NONE" /\ claim'[slot'[t].claim].slot = t
  BY SMTT(20) DEF StoreInv, StoreTypeOK, SlotRow, ClaimsAndSlots
<1>3. \A c \in Claims : claim'[c].state = "ACTIVE" => slot'[claim'[c].slot].claim = c
  BY Zenon DEF StoreInv, ClaimsAndSlots
<1> QED BY Zenon, <1>1, <1>2, <1>3 DEF ClaimsAndSlots

\* No session gets another claim, and the live ones keep active claims.
LEMMA SessionsAndClaimsKept ==
  ASSUME StoreInv, BindsNothing,
         \A s \in Sessions : session[s].state = "NONE" <=> session'[s].state = "NONE",
         \A s \in Sessions : session[s].state = "NONE" =>
           session'[s].lease = session[s].lease /\ session'[s].exp = session[s].exp,
         \A s \in Sessions : session'[s].state \in Live => claim'[session[s].claim].state = "ACTIVE",
         \A s \in outbox' : s \in Sessions /\ session[s].state # "NONE"
  PROVE  SessionsAndClaims'
<1>1. \A s \in Sessions : session'[s].state # "NONE" =>
        session'[s].claim \in Claims /\ claim'[session'[s].claim].state # "NONE"
  BY DEF StoreInv, SessionsAndClaims, BindsNothing
<1>2. \A s \in Sessions : session'[s].state = "NONE" =>
        session'[s].claim = None /\ session'[s].lease = None /\ session'[s].exp = "none"
  BY DEF StoreInv, SessionsAndClaims, BindsNothing
<1>3. \A s, t \in Sessions : session'[s].claim = session'[t].claim /\ session'[s].claim # None => s = t
  BY DEF StoreInv, SessionsAndClaims, BindsNothing
<1>4. \A s \in Sessions : session'[s].state \in Live => claim'[session'[s].claim].state = "ACTIVE"
  BY Zenon DEF BindsNothing
<1> QED BY Zenon, <1>1, <1>2, <1>3, <1>4 DEF SessionsAndClaims

\* A registration ends exactly the claims and sessions of the host's slots.
LEMMA RegisterHostInv ==
  ASSUME StoreInv, NEW h \in Hosts, RegisterHost(h) PROVE StoreInv' /\ BindsNothing
<1> DEFINE Hit(s) == session[s].state \in Live /\ SlotOf(session[s].claim) \in SlotsOf(h)
           Gone(c) == claim[c].state = "ACTIVE" /\ claim[c].slot \in SlotsOf(h)
<1>1. ASSUME NEW s \in Sessions
      PROVE  /\ session'[s] \in SessionRow /\ session'[s].claim = session[s].claim
             /\ session[s].state = "NONE" => session'[s] = session[s]
             /\ session[s].state # "NONE" => session'[s].state # "NONE"
             /\ session'[s].state \in Live => session[s].state \in Live /\ ~Hit(s)
  <2>1. session[s] \in SessionRow
    BY Zenon DEF StoreInv, StoreTypeOK
  <2>2. session'[s] = IF Hit(s) THEN [session[s] EXCEPT !.state = "INVALID"] ELSE session[s]
    BY Zenon DEF RegisterHost
  <2> QED BY <2>1, <2>2 DEF SessionRow, Live
<1>2. ASSUME NEW c \in Claims
      PROVE  /\ claim'[c] \in ClaimRow /\ claim'[c].slot = claim[c].slot
             /\ claim'[c].state = "NONE" <=> claim[c].state = "NONE"
             /\ claim'[c].state = "ACTIVE" <=> claim[c].state = "ACTIVE" /\ ~Gone(c)
  <2>1. claim[c] \in ClaimRow
    BY Zenon DEF StoreInv, StoreTypeOK
  <2>2. claim'[c] = IF Gone(c) THEN [claim[c] EXCEPT !.state = "RELEASED"] ELSE claim[c]
    BY Zenon DEF RegisterHost
  <2> QED BY Zenon, <2>1, <2>2 DEF ClaimRow
<1>3. ASSUME NEW t \in Slots
      PROVE  slot'[t] = IF t \in SlotsOf(h) THEN [state |-> "STARTING", claim |-> None] ELSE slot[t]
  BY Zenon DEF RegisterHost
<1>4. StoreTypeOK'
  <2>1. host' \in [Hosts -> HostRow]
    BY DEF RegisterHost, StoreInv, StoreTypeOK, HostRow
  <2>2. session' \in [Sessions -> SessionRow]
    BY Zenon, <1>1 DEF RegisterHost
  <2>3. claim' \in [Claims -> ClaimRow]
    BY Zenon, <1>2 DEF RegisterHost
  <2>4. slot' \in [Slots -> SlotRow]
    BY Zenon DEF RegisterHost, StoreInv, StoreTypeOK, SlotRow
  <2> QED BY Zenon, <2>1, <2>2, <2>3, <2>4 DEF RegisterHost, StoreInv, StoreTypeOK
<1>5. ClaimsAndSlots'
  <2>1. \A c \in Claims : claim'[c].state = "ACTIVE" => slot'[claim[c].slot].claim = slot[claim[c].slot].claim
    BY Zenon, <1>2, <1>3 DEF StoreInv, ClaimsAndSlots
  <2>2. \A t \in Slots : slot'[t].claim \in {slot[t].claim, None}
    BY <1>3
  <2>3. \A t \in Slots : slot'[t].state = "RELEASING" /\ slot'[t].claim # None =>
          claim'[slot'[t].claim].state # "ACTIVE"
    BY <1>2, <1>3 DEF StoreInv, StoreTypeOK, SlotRow, ClaimsAndSlots
  <2> QED BY Zenon, <1>2, <1>4, <2>1, <2>2, <2>3, ClaimsAndSlotsKept
<1>6. BindsNothing
  BY Zenon, <1>1, <1>2 DEF BindsNothing
<1>7. SessionsAndClaims'
  <2>1. \A s \in Sessions : session'[s].state \in Live => claim'[session[s].claim].state = "ACTIVE"
    BY <1>1, <1>2 DEF StoreInv, SessionsAndClaims, SlotOf, Live
  <2>2. \A s \in outbox' : s \in Sessions /\ session[s].state # "NONE"
    BY Zenon DEF StoreInv, StoreTypeOK, SessionsAndClaims, RegisterHost
  <2> QED BY Zenon, <1>1, <1>6, <2>1, <2>2, SessionsAndClaimsKept
<1> QED BY Zenon, <1>4, <1>5, <1>6, <1>7 DEF StoreInv

\* Readiness, heartbeats and drains move no claim.
LEMMA HostsAndSlotsInv ==
  ASSUME StoreInv,
         \/ \E t \in Slots : SetReadiness(t)
         \/ \E h \in Hosts : Heartbeat(h) \/ Drain(h) \/ HeartbeatLapses(h)
  PROVE  StoreInv' /\ BindsNothing
<1>1. UNCHANGED <<claim, leases, outbox>>
  BY Zenon DEF SetReadiness, Heartbeat, Drain, HeartbeatLapses
<1>2. ASSUME NEW t \in Slots
      PROVE  slot'[t] \in SlotRow /\ slot'[t].claim = slot[t].claim
             /\ (slot'[t].state = "RELEASING" => slot[t].state = "RELEASING")
  <2>1. slot[t] \in SlotRow /\ slot \in [Slots -> SlotRow]
    BY Zenon DEF StoreInv, StoreTypeOK
  <2>2. \/ slot'[t] = slot[t]
        \/ slot'[t] = [slot[t] EXCEPT !.state = "READY"]
        \/ slot'[t] = [slot[t] EXCEPT !.state = "DRAINING"]
    BY Zenon, <2>1 DEF SetReadiness, Heartbeat, Drain, HeartbeatLapses
  <2> QED BY Zenon, <2>1, <2>2 DEF SlotRow
<1>3. ASSUME NEW s \in Sessions
      PROVE  /\ session'[s] \in SessionRow /\ session'[s].claim = session[s].claim
             /\ session[s].state = "NONE" => session'[s] = session[s]
             /\ session[s].state # "NONE" => session'[s].state # "NONE"
             /\ session'[s].state \in Live => session[s].state \in Live
  <2>1. session[s] \in SessionRow
    BY Zenon DEF StoreInv, StoreTypeOK
  <2>2. \/ session'[s] = session[s]
        \/ session[s].state = "ACTIVE" /\ session'[s] = [session[s] EXCEPT !.state = "DRAINING"]
    BY Zenon DEF SetReadiness, Heartbeat, Drain, HeartbeatLapses
  <2> QED BY Zenon, <2>1, <2>2 DEF SessionRow, Live
<1>4. StoreTypeOK'
  <2>1. host' \in [Hosts -> HostRow]
    <3>1. host \in [Hosts -> HostRow]
      BY Zenon DEF StoreInv, StoreTypeOK
    <3>2. \/ host' = host
          \/ \E h \in Hosts : \/ host' = [host EXCEPT ![h] = [@ EXCEPT !.fresh = TRUE]]
                              \/ host' = [host EXCEPT ![h] = [@ EXCEPT !.fresh = FALSE]]
                              \/ host' = [host EXCEPT ![h] = [@ EXCEPT !.state = "DRAINING"]]
      BY Zenon DEF SetReadiness, Heartbeat, Drain, HeartbeatLapses
    <3>3. ASSUME NEW r \in HostRow
          PROVE  /\ [r EXCEPT !.fresh = TRUE] \in HostRow /\ [r EXCEPT !.fresh = FALSE] \in HostRow
                 /\ [r EXCEPT !.state = "DRAINING"] \in HostRow
      BY Zenon DEF HostRow
    <3>4. CASE host' # host
      <4>1. PICK h \in Hosts : \/ host' = [host EXCEPT ![h] = [host[h] EXCEPT !.fresh = TRUE]]
                               \/ host' = [host EXCEPT ![h] = [host[h] EXCEPT !.fresh = FALSE]]
                               \/ host' = [host EXCEPT ![h] = [host[h] EXCEPT !.state = "DRAINING"]]
        BY Zenon, <3>2, <3>4
      <4>2. host[h] \in HostRow
        BY Zenon, <3>1
      <4>3. PICK r \in HostRow : host' = [host EXCEPT ![h] = r]
        BY <3>3, <4>1, <4>2, Zenon
      <4> QED BY Zenon, <3>1, <4>3
    <3> QED BY Zenon, <3>1, <3>4
  <2>2. slot' \in [Slots -> SlotRow]
    <3>1. slot' = [t \in Slots |-> slot'[t]]
      BY Zenon DEF SetReadiness, Heartbeat, Drain, HeartbeatLapses, StoreInv, StoreTypeOK
    <3> QED BY Zenon, <3>1, <1>2
  <2>3. session' \in [Sessions -> SessionRow]
    <3>1. session' = [s \in Sessions |-> session'[s]]
      BY Zenon DEF SetReadiness, Heartbeat, Drain, HeartbeatLapses, StoreInv, StoreTypeOK
    <3> QED BY Zenon, <3>1, <1>3
  <2> QED BY Zenon, <1>1, <2>1, <2>2, <2>3 DEF StoreInv, StoreTypeOK
<1>5. ClaimsAndSlots'
  <2>1. \A t \in Slots : slot'[t].state = "RELEASING" /\ slot'[t].claim # None =>
          claim'[slot'[t].claim].state # "ACTIVE"
    BY Zenon, <1>1, <1>2 DEF StoreInv, ClaimsAndSlots
  <2>2. \A c \in Claims : claim'[c].state = "ACTIVE" => slot'[claim[c].slot].claim = slot[claim[c].slot].claim
    BY Zenon, <1>1, <1>2 DEF StoreInv, ClaimsAndSlots
  <2> QED BY Zenon, <1>1, <1>2, <1>4, <2>1, <2>2, ClaimsAndSlotsKept
<1>6. BindsNothing
  BY Zenon, <1>1, <1>3 DEF BindsNothing
<1>7. SessionsAndClaims'
  <2>1. \A s \in Sessions : session'[s].state \in Live => claim'[session[s].claim].state = "ACTIVE"
    BY Zenon, <1>1, <1>3 DEF StoreInv, SessionsAndClaims
  <2>2. \A s \in outbox' : s \in Sessions /\ session[s].state # "NONE"
    BY Zenon, <1>1 DEF StoreInv, StoreTypeOK, SessionsAndClaims
  <2> QED BY Zenon, <1>3, <1>6, <2>1, <2>2, SessionsAndClaimsKept
<1> QED BY Zenon, <1>4, <1>5, <1>6, <1>7 DEF StoreInv

\* Abandoning a claim that no session has.
LEMMA AbortClaimInv ==
  ASSUME StoreInv, NEW c \in Claims, claim[c].state # "NONE",
         \A s \in Sessions : session[s].claim # c, AbortClaim(c)
  PROVE  StoreInv' /\ BindsNothing
<1>1. claim \in [Claims -> ClaimRow] /\ slot \in [Slots -> SlotRow]
  BY Zenon DEF StoreInv, StoreTypeOK
<1>2. ASSUME NEW d \in Claims
      PROVE  /\ claim'[d] \in ClaimRow /\ claim'[d].slot = claim[d].slot
             /\ claim'[d].state = "NONE" <=> claim[d].state = "NONE"
             /\ claim'[d].state = "ACTIVE" <=> claim[d].state = "ACTIVE" /\ d # c
  <2>1. CASE d = c
    BY Zenon, <1>1, <2>1 DEF AbortClaim, ClaimRow
  <2>2. CASE d # c
    BY Zenon, <1>1, <2>2 DEF AbortClaim, ClaimRow
  <2> QED BY Zenon, <2>1, <2>2
<1>3. ASSUME NEW t \in Slots
      PROVE  \/ slot'[t] = slot[t]
             \/ slot'[t] = [state |-> "READY", claim |-> None] /\ slot[t].claim = c
  BY Zenon DEF AbortClaim
<1>4. StoreTypeOK'
  <2>1. claim' \in [Claims -> ClaimRow]
    BY Zenon, <1>1, <1>2 DEF AbortClaim
  <2>2. slot' \in [Slots -> SlotRow]
    BY Zenon, <1>1, <1>3 DEF AbortClaim, SlotRow
  <2> QED BY Zenon, <2>1, <2>2 DEF AbortClaim, StoreInv, StoreTypeOK
<1>5. ClaimsAndSlots'
  <2>1. \A t \in Slots : slot'[t].state = "RELEASING" /\ slot'[t].claim # None =>
          claim'[slot'[t].claim].state # "ACTIVE"
    BY <1>1, <1>2, <1>3 DEF StoreInv, ClaimsAndSlots, SlotRow
  <2>2. \A d \in Claims : claim'[d].state = "ACTIVE" => slot'[claim[d].slot].claim = slot[claim[d].slot].claim
    BY Zenon, <1>2, <1>3 DEF StoreInv, ClaimsAndSlots
  <2> QED BY <1>2, <1>3, <1>4, <2>1, <2>2, ClaimsAndSlotsKept
<1>6. session' = session /\ outbox' = outbox
  BY Zenon DEF AbortClaim
<1>7. BindsNothing
  BY Zenon, <1>2, <1>6 DEF BindsNothing
<1>8. SessionsAndClaims'
  <2>1. \A s \in Sessions : session'[s].state \in Live => claim'[session[s].claim].state = "ACTIVE"
    BY Zenon, <1>2, <1>6 DEF StoreInv, SessionsAndClaims, Live
  <2>2. \A s \in outbox' : s \in Sessions /\ session[s].state # "NONE"
    BY Zenon, <1>6 DEF StoreInv, StoreTypeOK, SessionsAndClaims
  <2> QED BY Zenon, <1>6, <1>7, <2>1, <2>2, SessionsAndClaimsKept
<1> QED BY Zenon, <1>4, <1>5, <1>7, <1>8 DEF StoreInv

\* A step that changes only rows of sessions that exist, and neither their
\* claims nor whether they are live.
LEMMA SessionRowsInv ==
  ASSUME StoreInv, UNCHANGED <<host, slot, outbox>>,
         leases' \subseteq LeaseRow,
         session' \in [Sessions -> SessionRow], claim' \in [Claims -> ClaimRow],
         \A c \in Claims : claim'[c].state = claim[c].state /\ claim'[c].slot = claim[c].slot,
         \A s \in Sessions : /\ session'[s].claim = session[s].claim
                             /\ session[s].state = "NONE" <=> session'[s].state = "NONE"
                             /\ session[s].state = "NONE" =>
                                  session'[s].lease = session[s].lease /\ session'[s].exp = session[s].exp
                             /\ session'[s].state \in Live => session[s].state \in Live
  PROVE  StoreInv' /\ BindsNothing
<1>1. StoreTypeOK'
  BY Zenon DEF StoreInv, StoreTypeOK
<1>2. ClaimsAndSlots'
  <2>1. \A t \in Slots : slot'[t].claim # None => slot'[t].claim \in Claims
    BY Zenon, <1>1 DEF StoreTypeOK, SlotRow
  <2>2. \A t \in Slots : slot'[t].state = "RELEASING" /\ slot'[t].claim # None =>
          claim'[slot'[t].claim].state # "ACTIVE"
    BY <2>1 DEF StoreInv, ClaimsAndSlots
  <2> QED BY Zenon, <1>1, <2>2, ClaimsAndSlotsKept
<1>3. BindsNothing
  BY Zenon DEF BindsNothing
<1>4. SessionsAndClaims'
  <2>1. \A s \in Sessions : session'[s].state \in Live => claim'[session[s].claim].state = "ACTIVE"
    BY DEF StoreInv, SessionsAndClaims, Live
  <2>2. \A s \in outbox' : s \in Sessions /\ session[s].state # "NONE"
    BY Zenon DEF StoreInv, StoreTypeOK, SessionsAndClaims
  <2> QED BY Zenon, <1>3, <2>1, <2>2, SessionsAndClaimsKept
<1> QED BY Zenon, <1>1, <1>2, <1>3, <1>4 DEF StoreInv

\* activate and renew of a session that has a row.
LEMMA LeaseInv ==
  ASSUME StoreInv, NEW s \in Sessions, NEW c \in Claims, NEW he \in Nat, NEW e \in Nat, NEW q \in Nat,
         \/ session[s].state = "BINDING" /\ Activate(s, c, he, e)
         \/ session[s].state = "ACTIVE" /\ Renew(s, c, he, e, q)
  PROVE  StoreInv' /\ BindsNothing
<1>1. session \in [Sessions -> SessionRow] /\ claim \in [Claims -> ClaimRow] /\ leases \subseteq LeaseRow
  BY Zenon DEF StoreInv, StoreTypeOK
<1>2. UNCHANGED <<host, slot, claim, outbox>>
  BY Zenon DEF Activate, Renew
<1>3. leases' \subseteq LeaseRow
  <2>1. \A n \in Nat : NewLease(s, c, he, e, n) \in LeaseRow
    BY Zenon DEF NewLease, LeaseRow
  <2>2. Retire(s, "SUPERSEDED") \subseteq LeaseRow
    BY Zenon, <1>1 DEF Retire, LeaseRow
  <2> QED BY <1>1, <2>1, <2>2 DEF Activate, Renew
<1>4. PICK t \in {"BINDING", "ACTIVE"}, n \in Nat, x \in {"valid", "past"} :
        /\ session[s].state = t
        /\ session' = [session EXCEPT ![s].state = "ACTIVE", ![s].seq = n, ![s].lease = c, ![s].exp = x,
                                      ![s].activity = "recent"]
  <2>1. CASE session[s].state = "BINDING" /\ Activate(s, c, he, e)
    BY <2>1, Zenon DEF Activate
  <2>2. CASE session[s].state = "ACTIVE" /\ Renew(s, c, he, e, q)
    <3>1. session[s] = [session[s] EXCEPT !.state = "ACTIVE"]
      BY Zenon, <1>1, <2>2 DEF SessionRow
    <3>2. session' = [session EXCEPT ![s].state = "ACTIVE", ![s].seq = q, ![s].lease = c, ![s].exp = "valid",
                                     ![s].activity = "recent"]
      BY <1>1, <2>2, <3>1, Zenon DEF Renew, SessionRow
    <3> QED BY <2>2, <3>2, Zenon
  <2> QED BY <2>1, <2>2, Zenon
<1>5. ASSUME NEW u \in Sessions
      PROVE  /\ session'[u] \in SessionRow
             /\ session'[u].claim = session[u].claim
             /\ session[u].state = "NONE" <=> session'[u].state = "NONE"
             /\ session[u].state = "NONE" =>
                  session'[u].lease = session[u].lease /\ session'[u].exp = session[u].exp
             /\ session'[u].state \in Live => session[u].state \in Live
  <2>1. CASE u = s
    <3>1. session[s] \in SessionRow
      BY Zenon, <1>1
    <3>2. session'[s] = [session[s] EXCEPT !.state = "ACTIVE", !.seq = n, !.lease = c, !.exp = x,
                                           !.activity = "recent"]
      BY Zenon, <1>1, <1>4
    <3>3. /\ session'[s] \in SessionRow /\ session'[s].state = "ACTIVE"
          /\ session'[s].claim = session[s].claim
      BY ZenonT(30), <3>1, <3>2 DEF SessionRow, Live
    <3> QED BY Zenon, <1>4, <2>1, <3>3 DEF Live
  <2>2. CASE u # s
    BY Zenon, <1>1, <1>4, <2>2
  <2> QED BY Zenon, <2>1, <2>2
<1>6. session' \in [Sessions -> SessionRow]
  <2>1. session' = [u \in Sessions |-> session'[u]]
    BY <1>1, <1>4, Zenon
  <2> QED BY Zenon, <1>5, <2>1
<1> QED BY Zenon, <1>1, <1>2, <1>3, <1>5, <1>6, SessionRowsInv

\* Expiry and idleness touch no claim and no state.
LEMMA TimeInv ==
  ASSUME StoreInv,
         \/ \E c \in Claims : ExpireClaim(c)
         \/ \E s \in Sessions : ExpireLease(s) \/ BecomeIdle(s)
  PROVE  StoreInv' /\ BindsNothing
<1>1. session \in [Sessions -> SessionRow] /\ claim \in [Claims -> ClaimRow] /\ leases \subseteq LeaseRow
  BY Zenon DEF StoreInv, StoreTypeOK
<1>2. UNCHANGED <<host, slot, leases, outbox>>
  BY Zenon DEF ExpireClaim, ExpireLease, BecomeIdle
<1>3. claim' \in [Claims -> ClaimRow]
      /\ \A c \in Claims : claim'[c].state = claim[c].state /\ claim'[c].slot = claim[c].slot
  <2>1. claim' = claim \/ \E c \in Claims : claim' = [claim EXCEPT ![c].expired = TRUE]
    BY Zenon DEF ExpireClaim, ExpireLease, BecomeIdle
  <2>2. ASSUME NEW c \in Claims
        PROVE  claim'[c] = claim[c] \/ claim'[c] = [claim[c] EXCEPT !.expired = TRUE]
    BY <1>1, <2>1, Zenon
  <2>3. ASSUME NEW c \in Claims
        PROVE  /\ claim'[c] \in ClaimRow
               /\ claim'[c].state = claim[c].state /\ claim'[c].slot = claim[c].slot
    <3>1. claim[c] \in ClaimRow
      BY Zenon, <1>1
    <3> QED BY <3>1, <2>2, Zenon DEF ClaimRow
  <2>4. claim' = [c \in Claims |-> claim'[c]]
    BY Zenon, <1>1, <2>1
  <2> QED BY Zenon, <2>3, <2>4
<1>4. ASSUME NEW s \in Sessions
      PROVE  \/ session'[s] = session[s]
             \/ session'[s] = [session[s] EXCEPT !.exp = "past"] /\ session[s].state # "NONE"
             \/ session'[s] = [session[s] EXCEPT !.activity = "idle"]
  <2>1. ASSUME NEW c \in Claims, ExpireClaim(c), session'[s] # session[s]
        PROVE  session'[s] = [session[s] EXCEPT !.exp = "past"] /\ session[s].state # "NONE"
    BY Zenon, <2>1, StoreAssumption DEF ExpireClaim, StoreInv, SessionsAndClaims
  <2>2. ASSUME NEW u \in Sessions, ExpireLease(u), session'[s] # session[s]
        PROVE  session'[s] = [session[s] EXCEPT !.exp = "past"] /\ session[s].state # "NONE"
    BY Zenon, <1>1, <2>2 DEF ExpireLease, StoreInv, SessionsAndClaims
  <2>3. ASSUME NEW u \in Sessions, BecomeIdle(u), session'[s] # session[s]
        PROVE  session'[s] = [session[s] EXCEPT !.activity = "idle"]
    BY Zenon, <1>1, <2>3 DEF BecomeIdle
  <2> QED BY Zenon, <2>1, <2>2, <2>3
<1>5. ASSUME NEW s \in Sessions
      PROVE  /\ session'[s] \in SessionRow /\ session'[s].claim = session[s].claim
             /\ session'[s].state = session[s].state
             /\ session[s].state = "NONE" =>
                  session'[s].lease = session[s].lease /\ session'[s].exp = session[s].exp
  <2>1. session[s] \in SessionRow
    BY Zenon, <1>1
  <2>2. CASE session'[s] = [session[s] EXCEPT !.exp = "past"] /\ session[s].state # "NONE"
    BY Zenon, <2>1, <2>2 DEF SessionRow
  <2>3. CASE session'[s] = [session[s] EXCEPT !.activity = "idle"]
    BY Zenon, <2>1, <2>3 DEF SessionRow
  <2> QED BY Zenon, <1>4, <2>1, <2>2, <2>3
<1>6. session' \in [Sessions -> SessionRow]
  <2>1. session' = [s \in Sessions |-> session'[s]]
    BY Zenon, <1>1 DEF ExpireClaim, ExpireLease, BecomeIdle
  <2> QED BY Zenon, <1>5, <2>1
<1> QED BY Zenon, <1>1, <1>2, <1>3, <1>5, <1>6, SessionRowsInv

\* _finish_session of rows that exist, alone or with outbox rows for them.
LEMMA FinishInv ==
  ASSUME StoreInv, NEW S \in SUBSET Sessions, \A s \in S : session[s].state # "NONE",
         FinishSessions(S), outbox' \subseteq outbox \cup S
  PROVE  StoreInv' /\ BindsNothing
<1> DEFINE ended == {session[s].claim : s \in S}
<1>1. ASSUME NEW s \in Sessions
      PROVE  /\ session'[s] \in SessionRow /\ session'[s].claim = session[s].claim
             /\ session[s].state = "NONE" <=> session'[s].state = "NONE"
             /\ session[s].state = "NONE" => session'[s] = session[s]
             /\ session'[s].state \in Live => session[s].state \in Live /\ s \notin S
  <2>1. session[s] \in SessionRow
    BY Zenon DEF StoreInv, StoreTypeOK
  <2>2. session'[s] = IF s \in S THEN [session[s] EXCEPT !.state = "INVALID"] ELSE session[s]
    BY Zenon DEF FinishSessions
  <2> QED BY ZenonT(30), <2>1, <2>2 DEF SessionRow, Live
<1>2. ASSUME NEW c \in Claims
      PROVE  /\ claim'[c] \in ClaimRow /\ claim'[c].slot = claim[c].slot
             /\ claim'[c].state = "NONE" <=> claim[c].state = "NONE"
             /\ claim'[c].state = "ACTIVE" <=> claim[c].state = "ACTIVE" /\ c \notin ended
  <2>1. claim[c] \in ClaimRow
    BY Zenon DEF StoreInv, StoreTypeOK
  <2>2. claim'[c] = IF c \in ended /\ claim[c].state = "ACTIVE"
                    THEN [claim[c] EXCEPT !.state = "RELEASED"] ELSE claim[c]
    BY Zenon DEF FinishSessions
  <2> HIDE DEF ended
  <2> QED BY <2>1, <2>2 DEF ClaimRow
<1>3. ASSUME NEW t \in Slots
      PROVE  /\ slot'[t] \in SlotRow /\ slot'[t].claim = slot[t].claim
             /\ slot'[t].state = "RELEASING" => slot[t].state = "RELEASING" \/ slot[t].claim \in ended
  <2>1. slot[t] \in SlotRow
    BY Zenon DEF StoreInv, StoreTypeOK
  <2>2. slot'[t] = IF slot[t].state = "CLAIMED" /\ slot[t].claim \in ended
                   THEN [slot[t] EXCEPT !.state = "RELEASING"] ELSE slot[t]
    BY Zenon DEF FinishSessions
  <2> HIDE DEF ended
  <2> QED BY Zenon, <2>1, <2>2 DEF SlotRow
<1>4. leases' \subseteq LeaseRow
  <2>1. leases \subseteq LeaseRow
    BY Zenon DEF StoreInv, StoreTypeOK
  <2>2. ASSUME NEW l \in LeaseRow PROVE [l EXCEPT !.state = "REVOKED"] \in LeaseRow
    BY Zenon DEF LeaseRow
  <2> QED BY Zenon, <2>1, <2>2 DEF FinishSessions
<1>5. StoreTypeOK'
  <2>1. session' \in [Sessions -> SessionRow]
    BY Zenon, <1>1 DEF FinishSessions
  <2>2. claim' \in [Claims -> ClaimRow]
    BY Zenon, <1>2 DEF FinishSessions
  <2>3. slot' \in [Slots -> SlotRow]
    BY Zenon, <1>3 DEF FinishSessions
  <2>4. host' = host /\ outbox' \subseteq Sessions
    BY Zenon DEF FinishSessions, StoreInv, StoreTypeOK
  <2> QED BY Zenon, <1>4, <2>1, <2>2, <2>3, <2>4 DEF StoreInv, StoreTypeOK
<1>6. ClaimsAndSlots'
  <2>1. \A t \in Slots : slot'[t].state = "RELEASING" /\ slot'[t].claim # None =>
          claim'[slot'[t].claim].state # "ACTIVE"
    <3>1. ASSUME NEW t \in Slots, slot'[t].state = "RELEASING", slot'[t].claim # None
          PROVE  claim'[slot'[t].claim].state # "ACTIVE"
      <4>1. slot[t].claim \in Claims /\ slot'[t].claim = slot[t].claim
        BY Zenon, <1>3, <3>1 DEF StoreInv, StoreTypeOK, SlotRow
      <4> HIDE DEF ended
      <4> QED BY <1>2, <1>3, <3>1, <4>1 DEF StoreInv, ClaimsAndSlots
    <3> QED BY Zenon, <3>1
  <2>2. \A c \in Claims : claim'[c].state = "ACTIVE" => slot'[claim[c].slot].claim = slot[claim[c].slot].claim
    BY Zenon, <1>2, <1>3 DEF StoreInv, ClaimsAndSlots
  <2> HIDE DEF ended
  <2> QED BY Zenon, <1>2, <1>3, <1>5, <2>1, <2>2, ClaimsAndSlotsKept
<1>7. BindsNothing
  BY Zenon, <1>1, <1>2 DEF BindsNothing
<1>8. SessionsAndClaims'
  <2>1. \A s \in Sessions : session'[s].state \in Live => claim'[session[s].claim].state = "ACTIVE"
    <3>1. ASSUME NEW s \in Sessions, session'[s].state \in Live
          PROVE  claim'[session[s].claim].state = "ACTIVE"
      <4>1. session[s].state \in Live /\ s \notin S /\ session[s].state # "NONE"
        BY Zenon, <1>1, <3>1 DEF Live
      <4>2. claim[session[s].claim].state = "ACTIVE" /\ session[s].claim \in Claims
        BY Zenon, <4>1 DEF StoreInv, SessionsAndClaims
      <4>3. session[s].claim \notin ended
        BY Zenon, <4>1, <4>2, StoreAssumption DEF StoreInv, SessionsAndClaims
      <4> HIDE DEF ended
      <4> QED BY Zenon, <1>2, <4>2, <4>3
    <3> QED BY Zenon, <3>1
  <2>2. \A s \in outbox' : s \in Sessions /\ session[s].state # "NONE"
    BY Zenon DEF StoreInv, StoreTypeOK, SessionsAndClaims
  <2> QED BY Zenon, <1>1, <1>7, <2>1, <2>2, SessionsAndClaimsKept
<1> QED BY Zenon, <1>5, <1>6, <1>7, <1>8 DEF StoreInv

\* Only a slot whose claim is over is handed back.
LEMMA CompleteReclaimInv ==
  ASSUME StoreInv, NEW s \in Sessions, CompleteReclaim(s) PROVE StoreInv' /\ BindsNothing
<1>1. UNCHANGED <<host, claim, session, leases>> /\ outbox' \subseteq outbox
  BY Zenon DEF CompleteReclaim
<1>2. ASSUME NEW t \in Slots
      PROVE  \/ slot'[t] = slot[t]
             \/ slot'[t] = [state |-> "READY", claim |-> None] /\ slot[t].state = "RELEASING"
                /\ slot[t].claim # None
  BY Zenon DEF CompleteReclaim
<1>3. StoreTypeOK'
  <2>1. slot' \in [Slots -> SlotRow]
    <3>1. slot \in [Slots -> SlotRow]
      BY Zenon DEF StoreInv, StoreTypeOK
    <3>2. ASSUME NEW t \in Slots PROVE slot'[t] \in SlotRow
      BY <1>2, <3>1, <3>2 DEF SlotRow
    <3>3. slot' = [t \in Slots |-> slot'[t]]
      BY Zenon, <3>1 DEF CompleteReclaim
    <3> QED BY Zenon, <3>2, <3>3
  <2> QED BY Zenon, <1>1, <2>1 DEF StoreInv, StoreTypeOK
<1>4. ClaimsAndSlots'
  <2>1. \A c \in Claims : claim[c].state = "ACTIVE" => slot'[claim[c].slot].claim = slot[claim[c].slot].claim
    BY <1>2 DEF StoreInv, ClaimsAndSlots
  <2>2. \A t \in Slots : slot'[t].state = "RELEASING" /\ slot'[t].claim # None =>
          claim[slot'[t].claim].state # "ACTIVE"
    BY <1>2 DEF StoreInv, ClaimsAndSlots
  <2> QED BY <1>1, <1>2, <1>3, <2>1, <2>2, ClaimsAndSlotsKept
<1>5. BindsNothing
  BY Zenon, <1>1 DEF BindsNothing
<1>6. SessionsAndClaims'
  <2>1. \A u \in Sessions : session[u].state \in Live => claim[session[u].claim].state = "ACTIVE"
    BY Zenon DEF StoreInv, SessionsAndClaims
  <2>2. \A u \in outbox' : u \in Sessions /\ session[u].state # "NONE"
    BY Zenon, <1>1 DEF StoreInv, StoreTypeOK, SessionsAndClaims
  <2> QED BY Zenon, <1>1, <1>5, <2>1, <2>2, SessionsAndClaimsKept
<1> QED BY Zenon, <1>3, <1>4, <1>5, <1>6 DEF StoreInv

\* The slot that is claimed carries no active claim, so the new one displaces none.
LEMMA ClaimReadySlotInv ==
  ASSUME StoreInv, NEW t \in Slots, NEW c \in Claims, claim[c].state = "NONE",
         ~SlotHasActiveClaim(t), ClaimReadySlot(t, c)
  PROVE  StoreInv' /\ BindsNothing
<1>1. slot \in [Slots -> SlotRow] /\ claim \in [Claims -> ClaimRow]
  BY Zenon DEF StoreInv, StoreTypeOK
<1>2. UNCHANGED <<host, session, leases, outbox>>
  BY Zenon DEF ClaimReadySlot
<1>3. \A u \in Slots : slot'[u] = IF u = t THEN [state |-> "CLAIMED", claim |-> c] ELSE slot[u]
  BY Zenon, <1>1 DEF ClaimReadySlot
<1>4. \A d \in Claims : claim'[d] = IF d = c THEN [state |-> "ACTIVE", slot |-> t, expired |-> FALSE]
                                    ELSE claim[d]
  BY Zenon, <1>1 DEF ClaimReadySlot
<1>5. StoreTypeOK'
  <2>1. slot' \in [Slots -> SlotRow] /\ claim' \in [Claims -> ClaimRow]
    BY Zenon, <1>1 DEF ClaimReadySlot, SlotRow, ClaimRow
  <2> QED BY Zenon, <1>2, <2>1 DEF StoreInv, StoreTypeOK
<1>6. ClaimsAndSlots'
  <2>1. \A d \in Claims : claim'[d].state # "NONE" => claim'[d].slot \in Slots
    BY <1>4 DEF StoreInv, ClaimsAndSlots
  <2>2. \A u \in Slots : slot'[u].claim # None =>
          claim'[slot'[u].claim].state # "NONE" /\ claim'[slot'[u].claim].slot = u
    BY <1>3, <1>4 DEF StoreInv, StoreTypeOK, SlotRow, ClaimsAndSlots
  <2>3. \A d \in Claims : claim'[d].state = "ACTIVE" => slot'[claim'[d].slot].claim = d
    BY <1>3, <1>4, SMTT(30) DEF StoreInv, ClaimsAndSlots, SlotHasActiveClaim
  <2>4. \A u \in Slots : slot'[u].state = "RELEASING" /\ slot'[u].claim # None =>
          claim'[slot'[u].claim].state # "ACTIVE"
    BY <1>3, <1>4 DEF StoreInv, StoreTypeOK, SlotRow, ClaimsAndSlots
  <2> QED BY Zenon, <2>1, <2>2, <2>3, <2>4 DEF ClaimsAndSlots
<1>7. BindsNothing
  BY Zenon, <1>2, <1>4 DEF BindsNothing
<1>8. SessionsAndClaims'
  <2>1. \A s \in Sessions : session'[s].state \in Live => claim'[session[s].claim].state = "ACTIVE"
    BY Zenon, <1>2, <1>4 DEF StoreInv, SessionsAndClaims, Live
  <2>2. \A s \in outbox' : s \in Sessions /\ session[s].state # "NONE"
    BY Zenon, <1>2 DEF StoreInv, StoreTypeOK, SessionsAndClaims
  <2> QED BY Zenon, <1>2, <1>7, <2>1, <2>2, SessionsAndClaimsKept
<1> QED BY Zenon, <1>5, <1>6, <1>7, <1>8 DEF StoreInv

\* The one transaction that binds: the claim is active and nobody else's.
LEMMA CreateSessionInv ==
  ASSUME StoreInv, NEW s \in Sessions, NEW c \in Claims, NEW e \in Nat, CreateSessionOK(s, c),
         \A u \in Sessions : session[u].claim # c, CreateSession(s, c, e)
  PROVE  StoreInv'
<1>1. session \in [Sessions -> SessionRow]
  BY Zenon DEF StoreInv, StoreTypeOK
<1>2. UNCHANGED <<host, slot, claim, leases, outbox>>
  BY Zenon DEF CreateSession
<1>3. session'[s] = [state |-> "BINDING", claim |-> c, epoch |-> e, seq |-> 0,
                     lease |-> None, exp |-> "none", activity |-> session[s].activity]
  BY Zenon, <1>1 DEF CreateSession
<1>4. \A u \in Sessions \ {s} : session'[u] = session[u]
  BY Zenon, <1>1 DEF CreateSession
<1>5. session' \in [Sessions -> SessionRow]
  <2>1. session[s].activity \in {"none", "recent", "idle"}
    BY Zenon, <1>1 DEF SessionRow
  <2>2. session'[s] \in SessionRow
    BY <1>3, <2>1 DEF SessionRow, Live
  <2>3. session' = [u \in Sessions |-> session'[u]]
    BY <1>1, Zenon DEF CreateSession
  <2> QED BY Zenon, <1>1, <1>4, <2>2, <2>3
<1>6. StoreTypeOK'
  BY Zenon, <1>2, <1>5 DEF StoreInv, StoreTypeOK
<1>7. ClaimsAndSlots'
  BY Zenon, <1>2 DEF StoreInv, ClaimsAndSlots
<1>8. SessionsAndClaims'
  <2>1. \A u \in Sessions : session'[u].state # "NONE" =>
          session'[u].claim \in Claims /\ claim[session'[u].claim].state # "NONE"
    <3>1. c \in Claims /\ claim[c].state # "NONE" /\ session'[s].claim = c
      BY <1>3 DEF CreateSessionOK
    <3>2. \A u \in Sessions \ {s} : session'[u].state # "NONE" =>
            session'[u].claim \in Claims /\ claim[session'[u].claim].state # "NONE"
      BY Zenon, <1>4 DEF StoreInv, SessionsAndClaims
    <3> QED BY Zenon, <3>1, <3>2
  <2>2. \A u \in Sessions : session'[u].state = "NONE" =>
          session'[u].claim = None /\ session'[u].lease = None /\ session'[u].exp = "none"
    <3>1. session'[s].state # "NONE"
      BY <1>3
    <3> QED BY <1>4, <3>1 DEF StoreInv, SessionsAndClaims
  <2>3. \A u, v \in Sessions : session'[u].claim = session'[v].claim /\ session'[u].claim # None => u = v
    <3>1. session'[s].claim = c
      BY <1>3
    <3>2. \A u \in Sessions \ {s} : session'[u].claim = session[u].claim /\ session'[u].claim # c
      BY Zenon, <1>4
    <3>3. \A u, v \in Sessions : session[u].claim = session[v].claim /\ session[u].claim # None => u = v
      BY Zenon DEF StoreInv, SessionsAndClaims
    <3> QED BY <3>1, <3>2, <3>3
  <2>4. \A u \in Sessions : session'[u].state \in Live => claim[session'[u].claim].state = "ACTIVE"
    <3>1. session'[s].claim = c /\ claim[c].state = "ACTIVE"
      BY <1>3 DEF CreateSessionOK
    <3>2. \A u \in Sessions : session[u].state \in Live => claim[session[u].claim].state = "ACTIVE"
      BY Zenon DEF StoreInv, SessionsAndClaims
    <3> QED BY Zenon, <1>4, <3>1, <3>2
  <2>5. \A u \in outbox : session'[u].state # "NONE"
    <3>1. session'[s].state # "NONE"
      BY <1>3
    <3>2. \A u \in outbox : u \in Sessions /\ session[u].state # "NONE"
      BY Zenon DEF StoreInv, StoreTypeOK, SessionsAndClaims
    <3> QED BY Zenon, <1>4, <3>1, <3>2
  <2> QED BY Zenon, <1>2, <2>1, <2>2, <2>3, <2>4, <2>5 DEF SessionsAndClaims
<1> QED BY Zenon, <1>6, <1>7, <1>8 DEF StoreInv

-----------------------------------------------------------------------------
(***************************************************************************)
(* The inductive invariant: StoreInv for the tables, and what the workers, *)
(* the reaper, the executors and the registrars know of them.              *)
(***************************************************************************)

\* A worker between claim_ready_slot and create_session (or abort_claim) is
\* the only one that knows its claim.
Pending1(w) == worker[w].pc \in {"create", "abort"}

PendingClaims ==
  \A w \in Workers : Pending1(w) =>
    /\ worker[w].claim \in Claims /\ claim[worker[w].claim].state # "NONE"
    /\ \A s \in Sessions : session[s].claim # worker[w].claim
    /\ \A v \in Workers : v # w /\ Pending1(v) => worker[v].claim # worker[w].claim

WorkersNameRows ==
  \A w \in Workers :
    /\ worker[w].pc # "idle" => worker[w].ses \in Sessions
    /\ worker[w].pc \in {"load", "activate", "unload", "renew", "commit"} => worker[w].claim \in Claims

Item == [ses : Sessions, claim : Claims, retry : BOOLEAN]

EnvTypeOK ==
  /\ reaper \in [pc : {"idle", "unload", "complete"}, todo : SUBSET Item, item : Item \cup {None}]
  /\ IF reaper.pc = "complete" THEN reaper.item \in reaper.todo ELSE reaper.item = None
  /\ bound \in [Hosts -> SUBSET Claims]
  /\ late \subseteq Claims
  /\ registrar \in [Hosts -> [pc : {"register", "ready", "beat", "steady"}, left : SUBSET Slots]]
  /\ lateReady \subseteq Slots

Inv ==
  /\ StoreInv /\ EnvTypeOK
  /\ worker \in [Workers -> Job] /\ WorkersNameRows /\ PendingClaims

-----------------------------------------------------------------------------
(* The processes.  A step either binds nothing or is a worker's create.    *)

\* The action of NoResurrection.
FreshBinding ==
  \A s \in Sessions : session[s].state \notin Live /\ session'[s].state \in Live =>
    /\ session'[s].claim # session[s].claim
    /\ \A t \in Sessions : session[t].claim # session'[s].claim

\* A step that makes no session live resurrects none.
LEMMA BindsNothingFresh ==
  ASSUME BindsNothing PROVE FreshBinding
BY Zenon DEF BindsNothing, FreshBinding

\* A worker's locals are well formed and, unless it still holds the claim it
\* had, it holds none that no session has.
JobOK(w) ==
  /\ worker' = [worker EXCEPT ![w] = worker'[w]] /\ worker'[w] \in Job
  /\ worker'[w].pc # "idle" => worker'[w].ses \in Sessions
  /\ worker'[w].pc \in {"load", "activate", "unload", "renew", "commit"} => worker'[w].claim \in Claims
  /\ worker'[w].pc \in {"create", "abort"} => Pending1(w) /\ worker'[w].claim = worker[w].claim

\* A step of one worker that binds nothing.
LEMMA WorkerKeepsInv ==
  ASSUME Inv, NEW w \in Workers, StoreInv', BindsNothing, EnvTypeOK', JobOK(w)
  PROVE  Inv' /\ FreshBinding
<1>1. \A v \in Workers : v # w => worker'[v] = worker[v]
  BY Zenon DEF Inv, JobOK
<1>2. worker' \in [Workers -> Job]
  BY Zenon DEF Inv, JobOK
<1>3. WorkersNameRows'
  BY Zenon, <1>1 DEF Inv, JobOK, WorkersNameRows
<1>4. \A v \in Workers : Pending1(v)' => Pending1(v) /\ worker'[v].claim = worker[v].claim
  BY Zenon, <1>1 DEF JobOK, Pending1
<1>5. PendingClaims'
  <2> SUFFICES ASSUME NEW v \in Workers, Pending1(v)'
               PROVE  (/\ worker[v].claim \in Claims /\ claim[worker[v].claim].state # "NONE"
                       /\ \A s \in Sessions : session[s].claim # worker[v].claim
                       /\ \A x \in Workers : x # v /\ Pending1(x) => worker[x].claim # worker[v].claim)'
    BY Zenon DEF PendingClaims
  <2>1. Pending1(v) /\ worker'[v].claim = worker[v].claim
    BY Zenon, <1>4
  <2>2. /\ worker[v].claim \in Claims /\ claim[worker[v].claim].state # "NONE"
        /\ \A s \in Sessions : session[s].claim # worker[v].claim
        /\ \A x \in Workers : x # v /\ Pending1(x) => worker[x].claim # worker[v].claim
    BY Zenon, <2>1 DEF Inv, PendingClaims
  <2>3. claim'[worker[v].claim].state # "NONE" /\ \A s \in Sessions : session'[s].claim # worker[v].claim
    BY Zenon, <2>2 DEF BindsNothing
  <2>4. \A x \in Workers : x # v /\ Pending1(x)' => worker'[x].claim # worker[v].claim
    BY Zenon, <1>4, <2>2
  <2> QED BY Zenon, <2>1, <2>2, <2>3, <2>4
<1> QED BY Zenon, <1>2, <1>3, <1>5, BindsNothingFresh DEF Inv

\* A step of anything else that binds nothing.
LEMMA OthersKeepInv ==
  ASSUME Inv, StoreInv', BindsNothing, EnvTypeOK', worker' = worker
  PROVE  Inv' /\ FreshBinding
<1>1. WorkersNameRows'
  BY Zenon DEF Inv, WorkersNameRows
<1>2. PendingClaims'
  BY DEF Inv, PendingClaims, BindsNothing, Pending1
<1> QED BY Zenon, <1>1, <1>2, BindsNothingFresh DEF Inv

\* A step that leaves the reaper, the executors and the registrars alone.
LEMMA EnvUnchanged ==
  ASSUME EnvTypeOK, UNCHANGED <<reaper, executorVars, registrarVars>> PROVE EnvTypeOK'
BY Zenon DEF EnvTypeOK, executorVars, registrarVars

\* A session bound on, or released from, its executor.
LEMMA BoundTyped ==
  ASSUME EnvTypeOK, NEW c \in Claims, Bind(c) \/ Unbind(c) \/ UNCHANGED bound
  PROVE  bound' \in [Hosts -> SUBSET Claims]
<1>1. bound \in [Hosts -> SUBSET Claims]
  BY Zenon DEF EnvTypeOK
<1>2. CASE Bind(c)
  BY <1>1, <1>2, Zenon DEF Bind
<1>3. CASE Unbind(c)
  BY <1>1, <1>3, Zenon DEF Unbind
<1>4. CASE UNCHANGED bound
  BY Zenon, <1>1, <1>4
<1> QED BY Zenon, <1>2, <1>3, <1>4

\* A step of the executors alone.
LEMMA ExecutorsStep ==
  ASSUME EnvTypeOK, bound' \in [Hosts -> SUBSET Claims], late' \subseteq Claims,
         UNCHANGED <<reaper, registrarVars>>
  PROVE  EnvTypeOK'
<1>1. reaper' = reaper /\ registrar' = registrar /\ lateReady' = lateReady
  BY Zenon DEF registrarVars
<1> QED BY Zenon, <1>1 DEF EnvTypeOK

\* Finish(w), Step(w, pc) and Fail(w), seen at the worker.
LEMMA Idled ==
  ASSUME Inv, NEW w \in Workers, Finish(w) PROVE JobOK(w)
<1>1. Idle \in Job /\ Idle.pc = "idle"
  BY Zenon DEF Idle, Job, PCs
<1>2. worker' = [worker EXCEPT ![w] = Idle] /\ worker'[w] = Idle
  BY Zenon DEF Inv, Finish
<1> QED BY <1>1, <1>2, Zenon DEF JobOK

\* A request moves on with its locals.
LEMMA Stepped ==
  ASSUME Inv, NEW w \in Workers, NEW pc \in PCs, Step(w, pc), worker[w].pc # "idle",
         pc \in {"load", "activate", "unload", "renew", "commit"} => worker[w].claim \in Claims,
         pc \in {"create", "abort"} => Pending1(w)
  PROVE  JobOK(w)
<1>1. worker[w] \in Job /\ worker[w].ses \in Sessions
  BY Zenon DEF Inv, WorkersNameRows
<1>2. worker'[w] = [worker[w] EXCEPT !.pc = pc] /\ worker' = [worker EXCEPT ![w] = worker'[w]]
  BY Zenon DEF Inv, Step
<1>3. /\ worker'[w] \in Job /\ worker'[w].pc = pc
      /\ worker'[w].ses = worker[w].ses /\ worker'[w].claim = worker[w].claim
  BY Zenon, <1>1, <1>2 DEF Job
<1> QED BY Zenon, <1>1, <1>2, <1>3 DEF JobOK

\* A request turns to releasing its session.
LEMMA Failed ==
  ASSUME Inv, NEW w \in Workers, worker[w].pc # "idle", NEW ret \in {"idle", "claim"},
         worker' = [worker EXCEPT ![w].pc = "finish", ![w].ret = ret, ![w].expect = None]
  PROVE  JobOK(w)
<1>1. worker[w] \in Job /\ worker[w].ses \in Sessions
  BY Zenon DEF Inv, WorkersNameRows
<1>2. /\ worker'[w] = [worker[w] EXCEPT !.pc = "finish", !.ret = ret, !.expect = None]
      /\ worker' = [worker EXCEPT ![w] = worker'[w]]
  BY Zenon DEF Inv
<1>3. worker'[w] \in Job /\ worker'[w].pc = "finish" /\ worker'[w].ses = worker[w].ses
  <2> DEFINE j == worker[w]
             k == [[[j EXCEPT !.pc = "finish"] EXCEPT !.ret = ret] EXCEPT !.expect = None]
  <2>1. [j EXCEPT !.pc = "finish"] \in Job
    BY Zenon, <1>1 DEF Job, PCs
  <2>2. [[j EXCEPT !.pc = "finish"] EXCEPT !.ret = ret] \in Job
    BY <2>1, Zenon DEF Job
  <2>3. k \in Job
    BY <2>2, Zenon DEF Job
  <2>4. worker'[w] = k /\ k.pc = "finish" /\ k.ses = j.ses
    BY Zenon, <1>1, <1>2 DEF Job
  <2> QED BY <2>3, <2>4, Zenon
<1> QED BY Zenon, <1>1, <1>2, <1>3 DEF JobOK

\* A new request.
LEMMA Started ==
  ASSUME Inv, NEW w \in Workers, NEW s \in Sessions, NEW pc \in {"lookup", "finish"}, NEW e \in Nat,
         NEW expect \in Nat \cup {None}, NEW ret \in {"idle", "lookup"}, Start(w, s, pc, e, expect, ret)
  PROVE  JobOK(w)
<1> DEFINE j == [Idle EXCEPT !.pc = pc, !.ses = s, !.epoch = e, !.expect = expect, !.ret = ret]
<1>1. j \in Job /\ j.pc = pc /\ j.ses = s
  BY Zenon DEF Idle, Job, PCs
<1>2. worker' = [worker EXCEPT ![w] = j] /\ worker'[w] = j
  BY Zenon DEF Inv, Start
<1> HIDE DEF j
<1> QED BY <1>1, <1>2, Zenon DEF JobOK

\* The requests the application sends.
LEMMA RequestInv ==
  ASSUME Inv, NEW w \in Workers, Request(w) PROVE Inv' /\ FreshBinding
<1>1. PICK s \in Sessions :
        \/ StartAssign(w, s) \/ StartRebind(w, s) \/ StartRelease(w, s)
        \/ \E e \in (1 .. MaxEpoch) \cup {None} : StartInvalidate(w, s, e)
        \/ \E e \in 1 .. MaxEpoch : StartRenew(w, s, e)
  BY Zenon DEF Request
<1>2. UNCHANGED <<storeVars, reaper, executorVars, registrarVars>>
  BY <1>1, Zenon DEF StartAssign, StartRebind, StartRelease, StartInvalidate, StartRenew
<1>3. session[s] \in SessionRow
  BY Zenon DEF Inv, StoreInv, StoreTypeOK
<1>4. JobOK(w)
  <2>1. CASE StartAssign(w, s)
    BY <2>1, Started, Zenon DEF StartAssign
  <2>2. CASE StartRebind(w, s)
    <3>1. session[s].epoch \in Nat /\ session[s].epoch + 1 \in Nat
      BY <1>3 DEF SessionRow
    <3> QED BY <2>2, <3>1, Started, Zenon DEF StartRebind
  <2>3. CASE StartRelease(w, s)
    BY <2>3, Started, Zenon DEF StartRelease
  <2>4. CASE \E e \in (1 .. MaxEpoch) \cup {None} : StartInvalidate(w, s, e)
    <3>1. PICK e \in Nat \cup {None} : StartInvalidate(w, s, e)
      BY <2>4, ControlPlaneAssumption
    <3> QED BY Zenon, <3>1, Started DEF StartInvalidate
  <2>5. CASE \E e \in 1 .. MaxEpoch : StartRenew(w, s, e)
    <3>1. PICK e \in Nat : StartRenew(w, s, e)
      BY <2>5, ControlPlaneAssumption
    <3> DEFINE j == [Idle EXCEPT !.pc = "renew", !.ses = s, !.claim = session[s].claim,
                                 !.seq = session[s].seq + 1, !.epoch = session[s].epoch, !.expect = e]
    <3>2. session[s].claim \in Claims /\ session[s].seq + 1 \in Nat /\ session[s].epoch \in Nat
      BY <1>3, <3>1 DEF StartRenew, SessionRow, Inv, StoreInv, SessionsAndClaims
    <3>3. j \in Job /\ j.pc = "renew" /\ j.ses = s /\ j.claim = session[s].claim
      BY <3>2, Zenon DEF Idle, Job, PCs
    <3>4. worker' = [worker EXCEPT ![w] = j] /\ worker'[w] = j
      BY Zenon, <3>1 DEF Inv, StartRenew
    <3> HIDE DEF j
    <3> QED BY <3>2, <3>3, <3>4, Zenon DEF JobOK
  <2> QED BY Zenon, <1>1, <2>1, <2>2, <2>3, <2>4, <2>5
<1> QED BY Zenon, <1>2, <1>4, StoreUnchanged, EnvUnchanged, WorkerKeepsInv DEF Inv

\* The steps of _assign up to the binding.
LEMMA AssignInv ==
  ASSUME Inv, NEW w \in Workers,
         \/ Lookup(w) \/ ClaimRefused(w) \/ RejectArtifact(w) \/ Abort(w)
         \/ Load(w) \/ LoadRefused(w) \/ LoadTimesOut(w) \/ ActivateSession(w)
  PROVE  Inv' /\ FreshBinding
<1> USE DEF PCs
<1>1. worker[w] \in Job
  BY Zenon DEF Inv
<1>2. StoreInv /\ EnvTypeOK
  BY Zenon DEF Inv
<1>3. CASE Lookup(w)
  <2>1. JobOK(w)
    BY <1>3, Idled, Stepped, Failed, Zenon DEF Lookup
  <2> QED BY Zenon, <1>2, <1>3, <2>1, StoreUnchanged, EnvUnchanged, WorkerKeepsInv DEF Lookup
<1>4. CASE ClaimRefused(w)
  BY Zenon, <1>2, <1>4, Idled, StoreUnchanged, EnvUnchanged, WorkerKeepsInv DEF ClaimRefused
<1>5. CASE RejectArtifact(w)
  <2>1. JobOK(w)
    BY Zenon, <1>5, Stepped DEF RejectArtifact, Pending1
  <2> QED BY Zenon, <1>2, <1>5, <2>1, StoreUnchanged, EnvUnchanged, WorkerKeepsInv DEF RejectArtifact
<1>6. CASE Abort(w)
  <2>1. JobOK(w)
    BY Zenon, <1>6, Idled DEF Abort
  <2>2. /\ worker[w].claim \in Claims /\ claim[worker[w].claim].state # "NONE"
        /\ \A s \in Sessions : session[s].claim # worker[w].claim
    BY Zenon, <1>6 DEF Abort, Inv, PendingClaims, Pending1
  <2>3. StoreInv' /\ BindsNothing
    BY Zenon, <1>2, <1>6, <2>2, AbortClaimInv DEF Abort
  <2> QED BY Zenon, <1>2, <1>6, <2>1, <2>3, EnvUnchanged, WorkerKeepsInv DEF Abort
<1>7. CASE Load(w)
  <2>1. worker[w].claim \in Claims
    BY Zenon, <1>7 DEF Load, Inv, WorkersNameRows
  <2>2. JobOK(w)
    BY Zenon, <1>7, <2>1, Stepped DEF Load
  <2>3. EnvTypeOK'
    <3>1. bound' \in [Hosts -> SUBSET Claims]
      BY Zenon, <1>2, <1>7, <2>1, BoundTyped DEF Load
    <3>2. late' \subseteq Claims
      BY Zenon, <1>2, <1>7 DEF Load, EnvTypeOK
    <3> QED BY Zenon, <1>2, <1>7, <3>1, <3>2, ExecutorsStep DEF Load
  <2> QED BY Zenon, <1>2, <1>7, <2>2, <2>3, StoreUnchanged, WorkerKeepsInv DEF Load
<1>8. CASE LoadRefused(w)
  <2>1. JobOK(w)
    BY <1>8, Failed, Zenon DEF LoadRefused, Fail
  <2> QED BY Zenon, <1>2, <1>8, <2>1, StoreUnchanged, EnvUnchanged, WorkerKeepsInv DEF LoadRefused
<1>9. CASE LoadTimesOut(w)
  <2>1. worker[w].claim \in Claims
    BY Zenon, <1>9 DEF LoadTimesOut, Inv, WorkersNameRows
  <2>2. JobOK(w)
    BY <1>9, Failed, Zenon DEF LoadTimesOut, Fail
  <2>3. EnvTypeOK'
    <3>1. bound' \in [Hosts -> SUBSET Claims]
      BY Zenon, <1>2, <1>9 DEF LoadTimesOut, EnvTypeOK
    <3>2. late' \subseteq Claims
      BY Zenon, <1>2, <1>9, <2>1 DEF LoadTimesOut, EnvTypeOK
    <3> QED BY Zenon, <1>2, <1>9, <3>1, <3>2, ExecutorsStep DEF LoadTimesOut
  <2> QED BY Zenon, <1>2, <1>9, <2>2, <2>3, StoreUnchanged, WorkerKeepsInv DEF LoadTimesOut
<1>10. CASE ActivateSession(w)
  <2>1. /\ worker[w].ses \in Sessions /\ worker[w].claim \in Claims
        /\ worker[w].hostEpoch \in Nat /\ worker[w].epoch \in Nat
    BY Zenon, <1>1, <1>10 DEF ActivateSession, Inv, WorkersNameRows, Job
  <2>2. JobOK(w)
    BY <1>10, Idled, Failed, Zenon DEF ActivateSession, Fail
  <2>3. StoreInv' /\ BindsNothing
    BY <1>2, <1>10, <2>1, LeaseInv, StoreUnchanged, Zenon DEF ActivateSession, ActivateOK
  <2> QED BY Zenon, <1>2, <1>10, <2>2, <2>3, EnvUnchanged, WorkerKeepsInv DEF ActivateSession
<1> QED BY Zenon, <1>3, <1>4, <1>5, <1>6, <1>7, <1>8, <1>9, <1>10

\* claim_ready_slot: the claim is new, so no session and no worker has it.
LEMMA ClaimSlotInv ==
  ASSUME Inv, NEW w \in Workers, NEW t \in Slots, NEW c \in Claims, ClaimSlot(w, t, c)
  PROVE  Inv' /\ FreshBinding
<1>1. StoreInv' /\ BindsNothing
  BY Zenon, ClaimReadySlotInv DEF ClaimSlot, ClaimReadySlotOK, Inv
<1>2. EnvTypeOK'
  BY Zenon, EnvUnchanged DEF ClaimSlot, Inv
<1>3. host[HostOf[t]].epoch \in Nat
  BY Zenon, StoreAssumption DEF Inv, StoreInv, StoreTypeOK, HostRow
<1>4. worker[w] \in Job /\ worker[w].ses \in Sessions
  BY Zenon DEF Inv, WorkersNameRows, ClaimSlot
<1>5. worker'[w] = [worker[w] EXCEPT !.pc = "create", !.claim = c, !.hostEpoch = host[HostOf[t]].epoch]
  BY Zenon DEF Inv, ClaimSlot
<1>6. /\ worker'[w] \in Job /\ worker'[w].pc = "create" /\ worker'[w].claim = c
      /\ worker'[w].ses = worker[w].ses
  BY <1>3, <1>4, <1>5, Zenon DEF Job, PCs
<1>7. worker' = [worker EXCEPT ![w] = worker'[w]]
  BY Zenon DEF Inv, ClaimSlot
<1>8. \A v \in Workers : v # w => worker'[v] = worker[v]
  BY Zenon, <1>7 DEF Inv
<1>9. worker' \in [Workers -> Job] /\ WorkersNameRows'
  BY Zenon, <1>4, <1>6, <1>7, <1>8 DEF Inv, WorkersNameRows
<1>10. PendingClaims'
  <2>1. claim[c].state = "NONE" /\ claim'[c].state # "NONE"
    BY Zenon DEF ClaimSlot, ClaimReadySlot, Inv, StoreInv, StoreTypeOK
  <2>2. \A s \in Sessions : session'[s].claim # c
    BY <1>1, <2>1, StoreAssumption DEF BindsNothing, Inv, StoreInv, SessionsAndClaims
  <2>3. \A v \in Workers : v # w /\ Pending1(v)' =>
          /\ worker'[v].claim \in Claims /\ worker'[v].claim # c
          /\ claim'[worker'[v].claim].state # "NONE"
          /\ \A s \in Sessions : session'[s].claim # worker'[v].claim
    <3> SUFFICES ASSUME NEW v \in Workers, v # w, Pending1(v)'
                 PROVE  /\ worker'[v].claim \in Claims /\ worker'[v].claim # c
                        /\ claim'[worker'[v].claim].state # "NONE"
                        /\ \A s \in Sessions : session'[s].claim # worker'[v].claim
      BY Zenon
    <3>1. worker'[v] = worker[v] /\ Pending1(v)
      BY Zenon, <1>8 DEF Pending1
    <3>2. /\ worker[v].claim \in Claims /\ claim[worker[v].claim].state # "NONE"
          /\ \A s \in Sessions : session[s].claim # worker[v].claim
      BY Zenon, <3>1 DEF Inv, PendingClaims
    <3> QED BY Zenon, <1>1, <2>1, <3>1, <3>2 DEF BindsNothing
  <2>4. \A u, v \in Workers : u # w /\ v # w /\ u # v /\ Pending1(u)' /\ Pending1(v)' =>
          worker'[u].claim # worker'[v].claim
    BY Zenon, <1>8 DEF Inv, PendingClaims, Pending1
  <2> QED BY Zenon, <1>6, <2>1, <2>2, <2>3, <2>4 DEF PendingClaims
<1> QED BY Zenon, <1>1, <1>2, <1>9, <1>10, BindsNothingFresh DEF Inv

\* create_session: the claim leaves its worker for the session's row.
LEMMA CreateInv ==
  ASSUME Inv, NEW w \in Workers, Create(w) PROVE Inv' /\ FreshBinding
<1> DEFINE s == worker[w].ses
           c == worker[w].claim
<1>1. /\ s \in Sessions /\ c \in Claims /\ worker[w].epoch \in Nat /\ Pending1(w)
      /\ \A u \in Sessions : session[u].claim # c
  BY Zenon DEF Create, Inv, WorkersNameRows, PendingClaims, Pending1, Job
<1>2. EnvTypeOK'
  BY Zenon, EnvUnchanged DEF Create, Inv
<1>3. CASE ~CreateSessionOK(s, c)
  <2>1. Step(w, "abort") /\ UNCHANGED storeVars
    BY Zenon, <1>3 DEF Create
  <2>2. JobOK(w)
    BY Zenon, <1>1, <2>1, Stepped DEF PCs, Create
  <2> QED BY Zenon, <1>2, <2>1, <2>2, StoreUnchanged, WorkerKeepsInv DEF Inv
<1>4. CASE CreateSessionOK(s, c)
  <2>1. CreateSession(s, c, worker[w].epoch) /\ Step(w, "load")
    BY Zenon, <1>4 DEF Create
  <2>2. StoreInv'
    BY Zenon, <1>1, <1>4, <2>1, CreateSessionInv DEF Inv
  <2>3. session'[s].claim = c /\ claim' = claim /\ \A u \in Sessions \ {s} : session'[u] = session[u]
    BY Zenon, <1>1, <2>1 DEF CreateSession, Inv, StoreInv, StoreTypeOK
  <2>4. FreshBinding
    BY Zenon, <1>1, <2>3 DEF FreshBinding
  <2>5. JobOK(w)
    BY Zenon, <1>1, <2>1, Stepped DEF PCs, Create
  <2>6. worker'[w].pc = "load"
    BY Zenon, <2>1 DEF Step, Inv, Job
  <2>7. \A v \in Workers : v # w => worker'[v] = worker[v]
    BY Zenon, <2>5 DEF JobOK, Inv
  <2>8. worker' \in [Workers -> Job] /\ WorkersNameRows'
    BY Zenon, <2>5, <2>7 DEF Inv, JobOK, WorkersNameRows
  <2>9. \A v \in Workers : Pending1(v)' => v # w /\ Pending1(v) /\ worker'[v].claim = worker[v].claim
    BY Zenon, <2>6, <2>7 DEF Pending1
  <2>10. \A v \in Workers : v # w /\ Pending1(v) => worker[v].claim # c
    BY Zenon, <1>1 DEF Inv, PendingClaims
  <2>11. PendingClaims'
    <3> SUFFICES ASSUME NEW v \in Workers, Pending1(v)'
                 PROVE  (/\ worker[v].claim \in Claims /\ claim[worker[v].claim].state # "NONE"
                         /\ \A u \in Sessions : session[u].claim # worker[v].claim
                         /\ \A x \in Workers : x # v /\ Pending1(x) => worker[x].claim # worker[v].claim)'
      BY Zenon DEF PendingClaims
    <3>1. v # w /\ Pending1(v) /\ worker'[v].claim = worker[v].claim /\ worker[v].claim # c
      BY Zenon, <2>9, <2>10
    <3>2. /\ worker[v].claim \in Claims /\ claim[worker[v].claim].state # "NONE"
          /\ \A u \in Sessions : session[u].claim # worker[v].claim
          /\ \A x \in Workers : x # v /\ Pending1(x) => worker[x].claim # worker[v].claim
      BY Zenon, <3>1 DEF Inv, PendingClaims
    <3>3. \A u \in Sessions : session'[u].claim # worker[v].claim
      BY Zenon, <2>3, <3>1, <3>2
    <3>4. \A x \in Workers : x # v /\ Pending1(x)' => worker'[x].claim # worker[v].claim
      BY Zenon, <2>9, <3>2
    <3> QED BY Zenon, <2>3, <3>1, <3>2, <3>3, <3>4
  <2> QED BY Zenon, <1>2, <2>2, <2>4, <2>8, <2>11 DEF Inv
<1> QED BY Zenon, <1>3, <1>4

\* release, invalidate and renew.
LEMMA EndAndRenewInv ==
  ASSUME Inv, NEW w \in Workers,
         \/ FinishSession(w) \/ Unload(w) \/ UnloadFails(w) \/ Complete(w)
         \/ RenewRead(w) \/ RenewCommit(w) \/ WorkerCrash(w)
  PROVE  Inv' /\ FreshBinding
<1> USE DEF PCs
<1>1. worker[w] \in Job /\ StoreInv /\ EnvTypeOK
  BY Zenon DEF Inv
<1>2. worker[w].ses \in Sessions
  BY Zenon DEF FinishSession, Unload, UnloadFails, Complete, RenewRead, RenewCommit, WorkerCrash, Inv, WorkersNameRows
<1>3. CASE FinishSession(w)
  <2> DEFINE s == worker[w].ses
             stale == worker[w].expect # None /\ session[s].epoch # worker[w].expect
  <2>1. EnvTypeOK'
    BY Zenon, <1>1, <1>3, EnvUnchanged DEF FinishSession
  <2>2. CASE session[s].state = "NONE" \/ stale
    <3>1. Finish(w) /\ UNCHANGED storeVars
      BY Zenon, <1>3, <2>2 DEF FinishSession
    <3> QED BY Zenon, <1>1, <2>1, <3>1, Idled, StoreUnchanged, WorkerKeepsInv
  <2>3. CASE ~(session[s].state = "NONE" \/ stale)
    <3>1. /\ FinishSessions({s}) /\ outbox' = outbox
          /\ worker' = [worker EXCEPT ![w].pc = "unload", ![w].claim = session[s].claim]
      BY Zenon, <1>3, <2>3 DEF FinishSession
    <3>2. StoreInv' /\ BindsNothing
      BY Zenon, <1>1, <1>2, <2>3, <3>1, FinishInv
    <3>3. session[s].claim \in Claims
      BY Zenon, <1>1, <1>2, <2>3 DEF StoreInv, SessionsAndClaims
    <3>4. /\ worker'[w] = [worker[w] EXCEPT !.pc = "unload", !.claim = session[s].claim]
          /\ worker' = [worker EXCEPT ![w] = worker'[w]]
      BY <3>1, Zenon DEF Inv
    <3>5. /\ worker'[w] \in Job /\ worker'[w].pc = "unload" /\ worker'[w].ses = worker[w].ses
          /\ worker'[w].claim \in Claims
      BY <1>1, <3>3, <3>4, Zenon DEF Job
    <3>6. JobOK(w)
      BY Zenon, <1>2, <3>4, <3>5 DEF JobOK
    <3> QED BY Zenon, <2>1, <3>2, <3>6, WorkerKeepsInv
  <2> QED BY Zenon, <2>2, <2>3
<1>4. CASE Unload(w)
  <2>1. JobOK(w)
    BY Zenon, <1>4, Stepped DEF Unload
  <2>2. EnvTypeOK'
    <3>1. worker[w].claim \in Claims
      BY Zenon, <1>4 DEF Unload, Inv, WorkersNameRows
    <3>2. bound' \in [Hosts -> SUBSET Claims]
      BY Zenon, <1>1, <1>4, <3>1, BoundTyped DEF Unload
    <3>3. late' \subseteq Claims
      BY Zenon, <1>1, <1>4 DEF Unload, EnvTypeOK
    <3> QED BY Zenon, <1>1, <1>4, <3>2, <3>3, ExecutorsStep DEF Unload
  <2> QED BY Zenon, <1>1, <1>4, <2>1, <2>2, StoreUnchanged, WorkerKeepsInv DEF Unload
<1>5. CASE UnloadFails(w)
  <2>1. JobOK(w)
    BY Zenon, <1>5, Idled DEF UnloadFails
  <2>2. EnvTypeOK'
    <3>1. worker[w].claim \in Claims
      BY Zenon, <1>5 DEF UnloadFails, Inv, WorkersNameRows
    <3>2. bound' \in [Hosts -> SUBSET Claims]
      BY Zenon, <1>1, <1>5, <3>1, BoundTyped DEF UnloadFails
    <3>3. late' \subseteq Claims
      BY Zenon, <1>1, <1>5 DEF UnloadFails, EnvTypeOK
    <3> QED BY Zenon, <1>1, <1>5, <3>2, <3>3, ExecutorsStep DEF UnloadFails
  <2> QED BY Zenon, <1>1, <1>5, <2>1, <2>2, StoreUnchanged, WorkerKeepsInv DEF UnloadFails
<1>6. CASE Complete(w)
  <2>1. worker[w].ret \in {"idle", "lookup", "claim"}
    BY Zenon, <1>1 DEF Job
  <2>2. JobOK(w)
    BY Zenon, <1>6, <2>1, Idled, Stepped DEF Complete
  <2>3. StoreInv' /\ BindsNothing
    BY Zenon, <1>1, <1>2, <1>6, CompleteReclaimInv DEF Complete
  <2> QED BY Zenon, <1>1, <1>6, <2>2, <2>3, EnvUnchanged, WorkerKeepsInv DEF Complete
<1>7. CASE RenewRead(w)
  <2> DEFINE c == worker[w].claim
  <2>1. c \in Claims
    BY Zenon, <1>7 DEF RenewRead, Inv, WorkersNameRows
  <2>2. ASSUME claim[c].state = "ACTIVE" PROVE JobOK(w)
    <3>1. host[HostOfClaim(c)].epoch \in Nat
      <4>1. SlotOf(c) \in Slots
        BY Zenon, <1>1, <2>1, <2>2 DEF SlotOf, StoreInv, ClaimsAndSlots
      <4>2. HostOfClaim(c) \in Hosts
        BY Zenon, <4>1, StoreAssumption DEF HostOfClaim, SlotOf
      <4> QED BY Zenon, <1>1, <4>2 DEF StoreInv, StoreTypeOK, HostRow
    <3>2. /\ worker'[w] = [worker[w] EXCEPT !.pc = "commit", !.hostEpoch = host[HostOfClaim(c)].epoch]
          /\ worker' = [worker EXCEPT ![w] = worker'[w]]
      BY <1>7, <2>2, Zenon DEF RenewRead, Inv
    <3>3. /\ worker'[w] \in Job /\ worker'[w].pc = "commit" /\ worker'[w].ses = worker[w].ses
          /\ worker'[w].claim = c
      BY <1>1, <3>1, <3>2, Zenon DEF Job
    <3> QED BY Zenon, <1>2, <2>1, <3>2, <3>3 DEF JobOK
  <2>3. ASSUME claim[c].state # "ACTIVE" PROVE JobOK(w)
    BY Zenon, <1>7, <2>3, Idled DEF RenewRead
  <2> QED BY Zenon, <1>1, <1>7, <2>2, <2>3, StoreUnchanged, EnvUnchanged, WorkerKeepsInv DEF RenewRead
<1>8. CASE RenewCommit(w)
  <2>1. /\ worker[w].claim \in Claims /\ worker[w].hostEpoch \in Nat
        /\ worker[w].epoch \in Nat /\ worker[w].seq \in Nat
    BY Zenon, <1>1, <1>8 DEF RenewCommit, Inv, WorkersNameRows, Job
  <2>2. StoreInv' /\ BindsNothing
    BY <1>1, <1>2, <1>8, <2>1, LeaseInv, StoreUnchanged, Zenon DEF RenewCommit, RenewOK
  <2>3. JobOK(w)
    BY Zenon, <1>8, Idled DEF RenewCommit
  <2> QED BY Zenon, <1>1, <1>8, <2>2, <2>3, EnvUnchanged, WorkerKeepsInv DEF RenewCommit
<1>9. CASE WorkerCrash(w)
  BY <1>1, <1>9, Idled, StoreUnchanged, EnvUnchanged, WorkerKeepsInv, Zenon DEF WorkerCrash
<1> QED BY Zenon, <1>3, <1>4, <1>5, <1>6, <1>7, <1>8, <1>9

\* The sweep fences first, then releases what it fenced.
LEMMA ReaperInv ==
  ASSUME Inv, ReaperStep PROVE Inv' /\ FreshBinding
<1>1. StoreInv /\ EnvTypeOK
  BY Zenon DEF Inv
<1>2. CASE Sweep
  <2>1. worker' = worker
    BY Zenon, <1>2 DEF Sweep
  <2>2. StoreInv' /\ BindsNothing
    BY Zenon, <1>1, <1>2, FinishInv DEF Sweep, ReclaimInstantSessions, Reclaimable, Live
  <2>3. Pending \in SUBSET Item
    <3>1. outbox' \subseteq Sessions
      BY Zenon, <2>2 DEF StoreInv, StoreTypeOK
    <3>2. \A s \in outbox' : session'[s].claim \in Claims
      BY Zenon, <2>2, <3>1 DEF StoreInv, SessionsAndClaims
    <3>3. ASSUME NEW i \in Pending PROVE i \in Item
      <4>1. PICK s \in outbox' : i = [ses |-> s, claim |-> session'[s].claim, retry |-> s \in outbox]
        BY Zenon, <3>3 DEF Pending
      <4>2. s \in Sessions /\ session'[s].claim \in Claims
        BY Zenon, <3>1, <3>2, <4>1
      <4>3. (s \in outbox) \in BOOLEAN
        OBVIOUS
      <4> QED BY Zenon, <4>1, <4>2, <4>3 DEF Item
    <3> QED BY Zenon, <3>3
  <2>4. EnvTypeOK'
    BY <1>1, <1>2, <2>3, Zenon DEF Sweep, EnvTypeOK, executorVars, registrarVars
  <2> QED BY Zenon, <2>1, <2>2, <2>4, OthersKeepInv
<1>3. CASE \E i \in reaper.todo : ReaperUnload(i) \/ ReaperUnloadFails(i)
  <2>1. PICK i \in reaper.todo : ReaperUnload(i) \/ ReaperUnloadFails(i)
    BY Zenon, <1>3
  <2>2. worker' = worker /\ UNCHANGED storeVars
    BY Zenon, <2>1 DEF ReaperUnload, ReaperUnloadFails
  <2>3. EnvTypeOK'
    <3>1. i \in Item
      BY Zenon, <1>1 DEF EnvTypeOK
    <3>2. CASE ReaperUnload(i)
      <4>1. bound' \in [Hosts -> SUBSET Claims]
        <5>1. i.claim \in Claims
          BY Zenon, <3>1 DEF Item
        <5> QED BY Zenon, <1>1, <3>2, <5>1, BoundTyped DEF ReaperUnload
      <4>2. reaper' = [reaper EXCEPT !.pc = "complete", !.item = i]
        BY Zenon, <3>2 DEF ReaperUnload
      <4>3. UNCHANGED <<late, registrar, lateReady>>
        BY Zenon, <3>2 DEF ReaperUnload, registrarVars
      <4> QED BY <1>1, <3>1, <4>1, <4>2, <4>3, Zenon DEF EnvTypeOK
    <3>3. CASE ReaperUnloadFails(i)
      BY Zenon, <1>1, <3>3 DEF ReaperUnloadFails, Asleep, EnvTypeOK, executorVars, registrarVars
    <3> QED BY Zenon, <2>1, <3>2, <3>3
  <2> QED BY Zenon, <1>1, <2>2, <2>3, StoreUnchanged, OthersKeepInv
<1>4. CASE ReaperComplete
  <2>1. worker' = worker
    BY Zenon, <1>4 DEF ReaperComplete
  <2>2. reaper.item \in Item /\ reaper.item.ses \in Sessions
    BY Zenon, <1>1, <1>4 DEF ReaperComplete, EnvTypeOK, Item
  <2>3. StoreInv' /\ BindsNothing
    BY Zenon, <1>1, <1>4, <2>2, CompleteReclaimInv DEF ReaperComplete
  <2>4. EnvTypeOK'
    BY Zenon, <1>1, <1>4 DEF ReaperComplete, Asleep, EnvTypeOK, executorVars, registrarVars
  <2> QED BY Zenon, <2>1, <2>3, <2>4, OthersKeepInv
<1>5. CASE ReaperStops
  <2>1. worker' = worker /\ UNCHANGED storeVars
    BY Zenon, <1>5 DEF ReaperStops
  <2>2. EnvTypeOK'
    BY Zenon, <1>1, <1>5 DEF ReaperStops, Asleep, EnvTypeOK, executorVars, registrarVars
  <2> QED BY Zenon, <1>1, <2>1, <2>2, StoreUnchanged, OthersKeepInv
<1> QED BY Zenon, <1>2, <1>3, <1>4, <1>5 DEF ReaperStep

\* The registration loops, restarts and drains of the hosts.
LEMMA HostInv ==
  ASSUME Inv, NEW h \in Hosts, HostStep(h) PROVE Inv' /\ FreshBinding
<1>1. StoreInv /\ EnvTypeOK /\ SlotsOf(h) \subseteq Slots
  BY Zenon DEF Inv, SlotsOf
<1>2. worker' = worker
  BY Zenon DEF HostStep, Register, Beat, LifecycleFails, ExecutorRestart, DrainHost, ReportReady, ReportTimesOut
<1>3. StoreInv' /\ BindsNothing
  <2>1. \/ RegisterHost(h) \/ Heartbeat(h) \/ Drain(h) \/ UNCHANGED storeVars
        \/ \E s \in Slots : SetReadiness(s)
    BY <1>1, Zenon DEF HostStep, Register, Beat, LifecycleFails, ExecutorRestart, DrainHost, ReportReady, ReportTimesOut
  <2> QED BY Zenon, <1>1, <2>1, RegisterHostInv, HostsAndSlotsInv, StoreUnchanged
<1>4. EnvTypeOK'
  <2>1. \/ UNCHANGED registrar
        \/ \E pc \in {"register", "ready", "beat", "steady"}, left \in SUBSET Slots : Registering(h, pc, left)
    <3>1. registrar[h].left \in SUBSET Slots
      BY Zenon, <1>1 DEF EnvTypeOK
    <3>2. CASE Register(h) \/ Beat(h) \/ LifecycleFails(h) \/ ExecutorRestart(h) \/ DrainHost(h)
      BY Zenon, <1>1, <3>2 DEF Register, Beat, LifecycleFails, ExecutorRestart, DrainHost, registrarVars
    <3>3. CASE \E s \in SlotsOf(h) : ReportReady(h, s) \/ ReportTimesOut(h, s)
      BY Zenon, <3>1, <3>3 DEF ReportReady, ReportTimesOut
    <3> QED BY Zenon, <3>2, <3>3 DEF HostStep
  <2>2. registrar' \in [Hosts -> [pc : {"register", "ready", "beat", "steady"}, left : SUBSET Slots]]
    BY <1>1, <2>1 DEF EnvTypeOK, Registering
  <2>3. /\ reaper' = reaper /\ bound' \in [Hosts -> SUBSET Claims] /\ late' \subseteq Claims
        /\ lateReady' \subseteq Slots
    BY <1>1, Zenon DEF EnvTypeOK, HostStep, Register, Beat, LifecycleFails, ExecutorRestart, DrainHost, ReportReady,
         ReportTimesOut, executorVars, registrarVars
  <2> QED BY Zenon, <1>1, <2>2, <2>3 DEF EnvTypeOK
<1> QED BY Zenon, <1>2, <1>3, <1>4, OthersKeepInv

\* Late effects of calls that timed out, and the passage of time.
LEMMA LateAndTimeInv ==
  ASSUME Inv,
         \/ \E c \in Claims : LateBind(c)
         \/ \E s \in Slots : LateReport(s)
         \/ Time
  PROVE  Inv' /\ FreshBinding
<1>1. StoreInv /\ EnvTypeOK
  BY Zenon DEF Inv
<1>2. CASE \E c \in Claims : LateBind(c)
  <2>1. worker' = worker /\ UNCHANGED storeVars
    BY Zenon, <1>2 DEF LateBind
  <2>2. EnvTypeOK'
    <3>1. PICK c \in Claims : LateBind(c)
      BY Zenon, <1>2
    <3>2. bound' \in [Hosts -> SUBSET Claims]
      BY Zenon, <1>1, <3>1, BoundTyped DEF LateBind
    <3>3. late' \subseteq Claims
      BY Zenon, <1>1, <3>1 DEF LateBind, EnvTypeOK
    <3> QED BY Zenon, <1>1, <3>1, <3>2, <3>3, ExecutorsStep DEF LateBind
  <2> QED BY Zenon, <1>1, <2>1, <2>2, StoreUnchanged, OthersKeepInv
<1>3. CASE \E s \in Slots : LateReport(s)
  <2>1. worker' = worker /\ (UNCHANGED storeVars \/ \E s \in Slots : SetReadiness(s))
    BY Zenon, <1>3 DEF LateReport
  <2>2. EnvTypeOK'
    <3>1. UNCHANGED <<reaper, bound, late, registrar>> /\ lateReady' \subseteq lateReady
      BY Zenon, <1>3 DEF LateReport, executorVars
    <3> QED BY Zenon, <1>1, <3>1 DEF EnvTypeOK
  <2> QED BY Zenon, <1>1, <2>1, <2>2, StoreUnchanged, HostsAndSlotsInv, OthersKeepInv
<1>4. CASE Time
  <2>1. StoreInv' /\ BindsNothing
    BY Zenon, <1>1, <1>4, TimeInv, HostsAndSlotsInv DEF Time
  <2> QED BY Zenon, <1>1, <1>4, <2>1, EnvUnchanged, OthersKeepInv DEF Time
<1> QED BY Zenon, <1>2, <1>3, <1>4

-----------------------------------------------------------------------------

\* The invariant holds initially.
LEMMA InitInv ==
  ASSUME Init PROVE Inv
<1>1. StoreInv
  BY Zenon, StoreInitInv DEF Init
<1>2. worker \in [Workers -> Job] /\ \A w \in Workers : worker[w].pc = "idle"
  BY Zenon DEF Init, Idle, Job, PCs
<1>3. EnvTypeOK
  BY Zenon DEF Init, Asleep, EnvTypeOK
<1> QED BY Zenon, <1>1, <1>2, <1>3 DEF Inv, WorkersNameRows, PendingClaims, Pending1

\* Every step keeps the invariant and binds only fresh claims.
LEMMA NextInv ==
  ASSUME Inv, [Next]_vars PROVE Inv' /\ FreshBinding
<1>1. CASE UNCHANGED vars
  <2>1. UNCHANGED <<storeVars, worker, reaper, executorVars, registrarVars>>
    BY Zenon, <1>1 DEF vars, storeVars, executorVars, registrarVars
  <2> QED BY Zenon, <2>1, StoreUnchanged, EnvUnchanged, OthersKeepInv DEF Inv
<1>2. ASSUME NEW w \in Workers, Serve(w) PROVE Inv' /\ FreshBinding
  BY Zenon, <1>2, AssignInv, ClaimSlotInv, CreateInv, EndAndRenewInv DEF Serve
<1> QED BY Zenon, <1>1, <1>2, RequestInv, EndAndRenewInv, ReaperInv, HostInv, LateAndTimeInv DEF Next

\* The inductive invariant holds in every reachable state.
THEOREM Invariance == Spec => []Inv
<1>1. Init => Inv
  BY Zenon, InitInv
<1>2. Inv /\ [Next]_vars => Inv'
  BY Zenon, NextInv
<1> QED BY <1>1, <1>2, PTL DEF Spec

\* The rows, workers, reaper and hosts keep their types.
THEOREM TypeCorrect == Spec => []TypeOK
<1>1. Inv => TypeOK
  BY Zenon DEF Inv, StoreInv, EnvTypeOK, TypeOK, Item
<1> QED BY <1>1, Invariance, PTL

\* Whatever claim_ready_slot, abort_claim, the reaper, late readiness
\* reports, drains and registrations do, in any interleaving and with any of
\* the faults, a live session's claim is ACTIVE and its slot's current claim.
THEOREM HoldsClaim == Spec => []LiveSessionHoldsClaim
<1>1. Inv => LiveSessionHoldsClaim
  BY DEF Inv, StoreInv, ClaimsAndSlots, SessionsAndClaims, LiveSessionHoldsClaim, SlotOf, Live
<1> QED BY <1>1, Invariance, PTL

\* Two live sessions never hold the same warm slot, with any number of
\* control-plane processes and whether or not the application serialises its
\* requests: the unique index on active claims is enough.
THEOREM Exclusive == Spec => []SlotExclusive
<1>1. ASSUME Inv, NEW s \in Sessions, NEW t \in Sessions, s # t,
             session[s].state \in Live, session[t].state \in Live
      PROVE  SlotOf(session[s].claim) # SlotOf(session[t].claim)
  <2>1. session[s].claim \in Claims /\ session[t].claim \in Claims
    BY Zenon, <1>1 DEF Inv, StoreInv, SessionsAndClaims, Live
  <2>2. session[s].claim # session[t].claim
    BY Zenon, <1>1, <2>1, StoreAssumption DEF Inv, StoreInv, SessionsAndClaims
  <2>3. /\ slot[SlotOf(session[s].claim)].claim = session[s].claim
        /\ slot[SlotOf(session[t].claim)].claim = session[t].claim
    BY Zenon, <1>1, <2>1 DEF Inv, StoreInv, SessionsAndClaims, ClaimsAndSlots, SlotOf
  <2> QED BY Zenon, <2>2, <2>3
<1>2. Inv => SlotExclusive
  BY Zenon, <1>1 DEF SlotExclusive
<1> QED BY <1>2, Invariance, PTL

\* A binding that release, invalidate, the reaper or a registration ended
\* never becomes live again: create_session is the only way to a live row and
\* its claim belongs to no session before.
THEOREM EndedStaysEnded == Spec => NoResurrection
<1>1. ASSUME Inv, [Next]_vars
      PROVE  [\A s \in Sessions : session[s].state \notin Live /\ session'[s].state \in Live =>
                /\ session'[s].claim # session[s].claim
                /\ \A t \in Sessions : session[t].claim # session'[s].claim]_vars
  BY Zenon, <1>1, NextInv DEF FreshBinding
<1> QED BY <1>1, Invariance, PTL DEF Spec, NoResurrection

(***************************************************************************)
(* What holds only where callers and hosts behave.                         *)
(***************************************************************************)
\* A readiness report is answered before the host's next registration.
PromptReports == "late_readiness" \notin Faults

\* A host registers once: no lifecycle request fails, no executor restarts, no
\* host is drained.
RegistersOnce == PromptReports /\ "reregister" \notin Faults /\ "restart" \notin Faults /\ "drain" \notin Faults

\* Every release is carried out: executors answer every release call, and a pass
\* of the reaper runs to its end.
ReleasesComplete == "call_error" \notin Faults /\ "reaper_stop" \notin Faults

\* Then no report is pending, and a slot whose readiness is still to be reported
\* has no claim.
ReadinessInv ==
  /\ lateReady = {}
  /\ \A h \in Hosts, s \in Slots : registrar[h].pc = "ready" /\ s \in registrar[h].left =>
       HostOf[s] = h /\ slot[s].state \in {"STARTING", "DRAINING"} /\ ~SlotHasActiveClaim(s)
  /\ ReadyIsUnclaimed

\* Requests of one session exclude each other, so a worker that binds or renews
\* a session works on the claim the session has.
BindingInv ==
  /\ \A v, w \in Workers : v # w /\ worker[v].pc # "idle" /\ worker[w].pc # "idle" => worker[v].ses # worker[w].ses
  /\ \A w \in Workers : worker[w].pc \in {"load", "activate", "renew", "commit"} =>
       session[worker[w].ses].claim = worker[w].claim
  /\ LeaseNamesBinding

\* What a sweep still has to release is over, and the outbox asks for no more.
SweepInv ==
  /\ reaper.pc = "idle" => reaper.todo = {}
  /\ \A s \in outbox : \E i \in reaper.todo : i.ses = s
  /\ \A i \in reaper.todo : claim[i.claim].state = "RELEASED"

\* What a sweep has ended itself is over.
FencedInv == \A i \in reaper.todo : ~i.retry => claim[i.claim].state = "RELEASED"

\* A worker unloads a claim that is over and activates one its executor confirmed.
LoadedInv ==
  /\ \A w \in Workers : worker[w].pc = "unload" => claim[worker[w].claim].state = "RELEASED"
  /\ \A w \in Workers : worker[w].pc = "activate" /\ claim[worker[w].claim].state = "ACTIVE" =>
       worker[w].claim \in bound[HostOfClaim(worker[w].claim)]
  /\ ActiveIsBound

-----------------------------------------------------------------------------
(* What a step does to the tables. *)

\* No claim is made; a claim may end.
ClaimsWane ==
  \A c \in Claims :
    /\ claim'[c].slot = claim[c].slot
    /\ claim'[c].state = claim[c].state \/ (claim[c].state # "NONE" /\ claim'[c].state = "RELEASED")

\* No session gets a claim or a lease; a session may end or start to drain.
SessionsFade ==
  \A s \in Sessions :
    /\ session'[s].claim = session[s].claim /\ session'[s].lease = session[s].lease
    /\ \/ session'[s].state = session[s].state \/ session'[s].state = "INVALID"
       \/ session[s].state = "ACTIVE" /\ session'[s].state = "DRAINING"

\* No slot becomes READY but one that a claim or a release gave back.
SlotsQuiet ==
  \A t \in Slots :
    /\ slot'[t].state = "READY" => slot[t].state = "READY"
                                   \/ (slot[t].state \in {"CLAIMED", "RELEASING"} /\ ~SlotHasActiveClaim(t)')
    /\ slot[t].state \in {"STARTING", "DRAINING"} => slot'[t].state \in {"STARTING", "DRAINING"}

Creates(w) == Create(w) /\ CreateSessionOK(worker[w].ses, worker[w].claim)
Activates(w) == ActivateSession(w) /\ ActivateOK(worker[w].ses, worker[w].epoch)
Renews(w) == RenewCommit(w) /\ RenewOK(worker[w].ses, worker[w].expect, worker[w].seq)

\* Every step is one transaction on the tables, or none.
LEMMA Transactions ==
  ASSUME Inv, [Next]_vars
  PROVE  \/ UNCHANGED storeVars
         \/ \E h \in Hosts : Register(h) \/ Heartbeat(h) \/ HeartbeatLapses(h) \/ DrainHost(h)
         \/ \E t \in Slots : SetReadiness(t) /\ (LateReport(t) \/ \E h \in Hosts : ReportReady(h, t))
         \/ \E w \in Workers, t \in Slots, c \in Claims : ClaimSlot(w, t, c)
         \/ \E w \in Workers : Abort(w) \/ Creates(w) \/ Activates(w) \/ Renews(w)
         \/ \E S \in SUBSET Sessions : FinishSessions(S) /\ \A s \in S : session[s].state # "NONE"
         \/ \E s \in Sessions : CompleteReclaim(s) \/ ExpireLease(s) \/ BecomeIdle(s)
         \/ \E c \in Claims : ExpireClaim(c)
<1> DEFINE Goal == \/ UNCHANGED storeVars
                   \/ \E h \in Hosts : Register(h) \/ Heartbeat(h) \/ HeartbeatLapses(h) \/ DrainHost(h)
                   \/ \E t \in Slots : SetReadiness(t) /\ (LateReport(t) \/ \E h \in Hosts : ReportReady(h, t))
                   \/ \E w \in Workers, t \in Slots, c \in Claims : ClaimSlot(w, t, c)
                   \/ \E w \in Workers : Abort(w) \/ Creates(w) \/ Activates(w) \/ Renews(w)
                   \/ \E S \in SUBSET Sessions : FinishSessions(S) /\ \A s \in S : session[s].state # "NONE"
                   \/ \E s \in Sessions : CompleteReclaim(s) \/ ExpireLease(s) \/ BecomeIdle(s)
                   \/ \E c \in Claims : ExpireClaim(c)
<1>1. CASE UNCHANGED vars
  BY Zenon, <1>1 DEF vars, storeVars
<1>2. ASSUME NEW w \in Workers, Request(w) \/ WorkerCrash(w)  PROVE Goal
  BY Zenon, <1>2 DEF Request, WorkerCrash, StartAssign, StartRebind, StartRelease, StartInvalidate, StartRenew
<1>3. ASSUME NEW w \in Workers, Serve(w)  PROVE Goal
  <2>1. CASE \/ Lookup(w) \/ ClaimRefused(w) \/ RejectArtifact(w) \/ Load(w) \/ LoadRefused(w) \/ LoadTimesOut(w)
             \/ Unload(w) \/ UnloadFails(w) \/ RenewRead(w)
    BY Zenon, <2>1 DEF Lookup, ClaimRefused, RejectArtifact, Load, LoadRefused, LoadTimesOut, Unload, UnloadFails,
         RenewRead
  <2>2. CASE Create(w) \/ ActivateSession(w) \/ RenewCommit(w)
    BY Zenon, <2>2 DEF Create, ActivateSession, RenewCommit, Creates, Activates, Renews
  <2>3. CASE FinishSession(w)
    <3>1. worker[w].ses \in Sessions
      BY Zenon, <2>3 DEF FinishSession, Inv, WorkersNameRows
    <3>2. UNCHANGED storeVars \/ (session[worker[w].ses].state # "NONE" /\ FinishSessions({worker[w].ses}))
      BY Zenon, <2>3 DEF FinishSession
    <3>3. {worker[w].ses} \in SUBSET Sessions
      BY Zenon, <3>1
    <3> QED BY Zenon, <3>2, <3>3
  <2>4. CASE Complete(w)
    <3>1. worker[w].ses \in Sessions /\ CompleteReclaim(worker[w].ses)
      BY Zenon, <2>4 DEF Complete, Inv, WorkersNameRows
    <3> QED BY Zenon, <3>1
  <2> QED BY Zenon, <1>3, <2>1, <2>2, <2>3, <2>4 DEF Serve
<1>4. ASSUME ReaperStep  PROVE Goal
  <2>1. CASE Sweep
    <3>1. FinishSessions(Reclaimable("idle" \in Faults))
      BY Zenon, <2>1 DEF Sweep, ReclaimInstantSessions
    <3>2. /\ Reclaimable("idle" \in Faults) \in SUBSET Sessions
          /\ \A s \in Reclaimable("idle" \in Faults) : session[s].state # "NONE"
      BY Zenon DEF Reclaimable, Live
    <3> QED BY Zenon, <3>1, <3>2
  <2>2. CASE \E i \in reaper.todo : ReaperUnload(i) \/ ReaperUnloadFails(i)
    BY Zenon, <2>2 DEF ReaperUnload, ReaperUnloadFails
  <2>3. CASE ReaperComplete
    <3>1. reaper.item.ses \in Sessions /\ CompleteReclaim(reaper.item.ses)
      BY Zenon, <2>3 DEF ReaperComplete, Inv, EnvTypeOK, Item
    <3> QED BY Zenon, <3>1
  <2>4. CASE ReaperStops
    BY Zenon, <2>4 DEF ReaperStops
  <2> QED BY Zenon, <1>4, <2>1, <2>2, <2>3, <2>4 DEF ReaperStep
<1>5. ASSUME NEW h \in Hosts, HostStep(h)  PROVE Goal
  <2>1. CASE Register(h) \/ Beat(h) \/ LifecycleFails(h) \/ ExecutorRestart(h) \/ DrainHost(h)
    BY Zenon, <2>1 DEF Beat, LifecycleFails, ExecutorRestart
  <2>2. CASE \E t \in SlotsOf(h) : ReportReady(h, t) \/ ReportTimesOut(h, t)
    <3>1. PICK t \in Slots : ReportReady(h, t) \/ ReportTimesOut(h, t)
      BY Zenon, <2>2 DEF SlotsOf
    <3> QED BY Zenon, <3>1 DEF ReportReady, ReportTimesOut
  <2> QED BY Zenon, <1>5, <2>1, <2>2 DEF HostStep
<1>6. ASSUME (\E c \in Claims : LateBind(c)) \/ (\E t \in Slots : LateReport(t)) \/ Time  PROVE Goal
  BY Zenon, <1>6 DEF LateBind, LateReport, Time
<1> QED BY Zenon, <1>1, <1>2, <1>3, <1>4, <1>5, <1>6 DEF Next

\* Only claim_ready_slot makes a claim.
LEMMA NextClaims ==
  ASSUME Inv, [Next]_vars
  PROVE  ClaimsWane \/ \E w \in Workers, t \in Slots, c \in Claims : ClaimSlot(w, t, c)
<1>1. claim \in [Claims -> ClaimRow]
  BY Zenon DEF Inv, StoreInv, StoreTypeOK
<1>2. CASE claim' = claim
  BY Zenon, <1>2 DEF ClaimsWane
<1>3. CASE \E h \in Hosts : Register(h)
  BY <1>1, <1>3 DEF Register, RegisterHost, ClaimsWane, ClaimRow
<1>4. CASE \E w \in Workers : Abort(w)
  <2>1. PICK w \in Workers : Abort(w)
    BY Zenon, <1>4
  <2>2. worker[w].claim \in Claims /\ claim[worker[w].claim].state # "NONE"
    BY Zenon, <2>1 DEF Abort, Inv, PendingClaims, Pending1
  <2>3. claim' = [claim EXCEPT ![worker[w].claim].state = "RELEASED"]
    BY Zenon, <2>1 DEF Abort, AbortClaim
  <2> QED BY Zenon, <1>1, <2>2, <2>3 DEF ClaimsWane, ClaimRow
<1>5. CASE \E S \in SUBSET Sessions : FinishSessions(S)
  BY <1>1, <1>5 DEF FinishSessions, ClaimsWane, ClaimRow
<1>6. CASE \E c \in Claims : ExpireClaim(c)
  BY <1>1, <1>6 DEF ExpireClaim, ClaimsWane, ClaimRow
<1>7. \/ claim' = claim
      \/ \E h \in Hosts : Register(h)
      \/ \E w \in Workers : Abort(w)
      \/ \E S \in SUBSET Sessions : FinishSessions(S)
      \/ \E c \in Claims : ExpireClaim(c)
      \/ \E w \in Workers, t \in Slots, c \in Claims : ClaimSlot(w, t, c)
  BY ZenonT(30), Transactions DEF storeVars, Heartbeat, HeartbeatLapses, DrainHost, Drain, SetReadiness, Creates,
       Create, CreateSession,
       Activates, ActivateSession, Activate, Renews, RenewCommit, Renew, CompleteReclaim, ExpireLease, BecomeIdle
<1> QED BY Zenon, <1>2, <1>3, <1>4, <1>5, <1>6, <1>7

\* Only create_session, activate and renew bind a session.
LEMMA NextSessions ==
  ASSUME Inv, [Next]_vars
  PROVE  SessionsFade \/ \E w \in Workers : Creates(w) \/ Activates(w) \/ Renews(w)
<1>1. session \in [Sessions -> SessionRow]
  BY Zenon DEF Inv, StoreInv, StoreTypeOK
<1>2. CASE session' = session
  BY Zenon, <1>2 DEF SessionsFade
<1>3. CASE \E h \in Hosts : Register(h)
  BY <1>1, <1>3 DEF Register, RegisterHost, SessionsFade, SessionRow
<1>4. CASE \E h \in Hosts : DrainHost(h)
  BY <1>1, <1>4 DEF DrainHost, Drain, SessionsFade, SessionRow
<1>5. CASE \E S \in SUBSET Sessions : FinishSessions(S)
  BY <1>1, <1>5 DEF FinishSessions, SessionsFade, SessionRow
<1>6. CASE \E s \in Sessions : ExpireLease(s) \/ BecomeIdle(s)
  BY <1>1, <1>6 DEF ExpireLease, BecomeIdle, SessionsFade, SessionRow
<1>7. CASE \E c \in Claims : ExpireClaim(c)
  BY <1>1, <1>7 DEF ExpireClaim, SessionsFade, SessionRow
<1>8. \/ session' = session
      \/ \E h \in Hosts : Register(h)
      \/ \E h \in Hosts : DrainHost(h)
      \/ \E S \in SUBSET Sessions : FinishSessions(S)
      \/ \E s \in Sessions : ExpireLease(s) \/ BecomeIdle(s)
      \/ \E c \in Claims : ExpireClaim(c)
      \/ \E w \in Workers : Creates(w) \/ Activates(w) \/ Renews(w)
  BY Zenon, Transactions DEF storeVars, Heartbeat, HeartbeatLapses, SetReadiness, ClaimSlot, ClaimReadySlot, Abort,
       AbortClaim,
       CompleteReclaim
<1> QED BY Zenon, <1>2, <1>3, <1>4, <1>5, <1>6, <1>7, <1>8

\* Only a readiness report offers a slot that no claim and no release gave back.
LEMMA NextSlots ==
  ASSUME Inv, [Next]_vars
  PROVE  SlotsQuiet \/ \E t \in Slots : SetReadiness(t) /\ (LateReport(t) \/ \E h \in Hosts : ReportReady(h, t))
<1>1. /\ slot \in [Slots -> SlotRow] /\ claim \in [Claims -> ClaimRow] /\ ClaimsAndSlots /\ SessionsAndClaims
      /\ None \notin Claims
  BY Zenon, StoreAssumption DEF Inv, StoreInv, StoreTypeOK
<1>2. CASE slot' = slot
  BY Zenon, <1>2 DEF SlotsQuiet
<1>3. CASE \E h \in Hosts : Register(h) \/ DrainHost(h)
  BY <1>1, <1>3 DEF Register, RegisterHost, DrainHost, Drain, SlotsQuiet, SlotRow
<1>4. CASE \E w \in Workers, t \in Slots, c \in Claims : ClaimSlot(w, t, c)
  <2>1. PICK w \in Workers, t \in Slots, c \in Claims : ClaimSlot(w, t, c)
    BY Zenon, <1>4
  <2>2. slot[t].state = "READY" /\ slot' = [slot EXCEPT ![t] = [state |-> "CLAIMED", claim |-> c]]
    BY Zenon, <2>1 DEF ClaimSlot, ClaimReadySlotOK, Claimable, ClaimReadySlot
  <2>3. slot'[t].state = "CLAIMED" /\ \A u \in Slots : u # t => slot'[u] = slot[u]
    BY Zenon, <1>1, <2>2
  <2> QED BY Zenon, <2>2, <2>3 DEF SlotsQuiet
<1>5. CASE \E w \in Workers : Abort(w)
  <2>1. PICK w \in Workers : Abort(w)
    BY Zenon, <1>5
  <2> DEFINE c == worker[w].claim
  <2>2. c \in Claims /\ claim[c].state # "NONE"
    BY Zenon, <2>1 DEF Abort, Inv, PendingClaims, Pending1
  <2>3. claim' = [claim EXCEPT ![c].state = "RELEASED"]
        /\ slot' = [t \in Slots |->
             IF claim[c].state = "ACTIVE" /\ claim[c].slot = t /\ slot[t].claim = c /\ slot[t].state = "CLAIMED"
             THEN [state |-> "READY", claim |-> None] ELSE slot[t]]
    BY Zenon, <2>1 DEF Abort, AbortClaim
  <2> HIDE DEF c
  <2>4. ASSUME NEW t \in Slots, slot'[t] # slot[t]
        PROVE  slot[t].state = "CLAIMED" /\ ~SlotHasActiveClaim(t)'
    <3>1. slot[t].claim = c /\ slot[t].state = "CLAIMED"
      BY Zenon, <2>3, <2>4
    <3>2. claim'[c].state = "RELEASED" /\ \A d \in Claims : d # c => claim'[d] = claim[d]
      BY Zenon, <1>1, <2>2, <2>3 DEF ClaimRow
    <3>3. \A d \in Claims : claim[d].state = "ACTIVE" /\ claim[d].slot = t => d = c
      BY Zenon, <1>1, <3>1 DEF ClaimsAndSlots
    <3> QED BY Zenon, <3>1, <3>2, <3>3 DEF SlotHasActiveClaim
  <2>5. \A t \in Slots : slot[t].state \in {"STARTING", "DRAINING"} => slot'[t] = slot[t]
    BY Zenon, <2>3
  <2> QED BY Zenon, <2>4, <2>5 DEF SlotsQuiet
<1>6. CASE \E S \in SUBSET Sessions : FinishSessions(S)
  BY <1>1, <1>6 DEF FinishSessions, SlotsQuiet, SlotRow
<1>7. CASE \E s \in Sessions : CompleteReclaim(s)
  <2>1. PICK s \in Sessions : CompleteReclaim(s)
    BY Zenon, <1>7
  <2> DEFINE c == session[s].claim
  <2>2. /\ claim' = claim
        /\ slot' = [t \in Slots |->
             IF /\ c # None /\ SlotOf(c) = t
                /\ slot[t].claim = c /\ slot[t].state = "RELEASING"
             THEN [state |-> "READY", claim |-> None] ELSE slot[t]]
    BY Zenon, <2>1 DEF CompleteReclaim
  <2> HIDE DEF c
  <2>3. ASSUME NEW t \in Slots, slot'[t] # slot[t]
        PROVE  slot[t].state = "RELEASING" /\ ~SlotHasActiveClaim(t)'
    <3>1. slot[t].claim = c /\ slot[t].state = "RELEASING" /\ c # None
      BY Zenon, <2>2, <2>3
    <3>2. claim[c].state # "ACTIVE"
      BY Zenon, <1>1, <3>1 DEF ClaimsAndSlots
    <3>3. \A d \in Claims : claim[d].state = "ACTIVE" /\ claim[d].slot = t => d = c
      BY Zenon, <1>1, <3>1 DEF ClaimsAndSlots
    <3> QED BY Zenon, <2>2, <3>1, <3>2, <3>3 DEF SlotHasActiveClaim
  <2>4. \A t \in Slots : slot[t].state \in {"STARTING", "DRAINING"} => slot'[t] = slot[t]
    BY Zenon, <2>2
  <2> QED BY Zenon, <2>3, <2>4 DEF SlotsQuiet
<1>8. \/ slot' = slot
      \/ \E h \in Hosts : Register(h) \/ DrainHost(h)
      \/ \E w \in Workers, t \in Slots, c \in Claims : ClaimSlot(w, t, c)
      \/ \E w \in Workers : Abort(w)
      \/ \E S \in SUBSET Sessions : FinishSessions(S)
      \/ \E s \in Sessions : CompleteReclaim(s)
      \/ \E t \in Slots : SetReadiness(t) /\ (LateReport(t) \/ \E h \in Hosts : ReportReady(h, t))
  BY ZenonT(30), Transactions DEF storeVars, Heartbeat, HeartbeatLapses, Creates, Create, CreateSession,
       Activates, ActivateSession, Activate, Renews, RenewCommit, Renew, ExpireLease, BecomeIdle, ExpireClaim
<1> QED BY Zenon, <1>2, <1>3, <1>4, <1>5, <1>6, <1>7, <1>8

-----------------------------------------------------------------------------
(* Readiness. *)

\* A registrar has no more slots to report, unless it registers its host again.
LeftShrinks ==
  \A h \in Hosts : registrar'[h].pc = "ready" =>
    registrar[h].pc = "ready" /\ registrar'[h].left \subseteq registrar[h].left

\* Only the hosts' own loops, and reports that come late, concern readiness.
LEMMA LoopsAlone ==
  ASSUME [Next]_vars
  PROVE  \/ UNCHANGED registrarVars
         \/ \E h \in Hosts : HostStep(h)
         \/ \E t \in Slots : LateReport(t) /\ registrar' = registrar
<1>1. ASSUME NEW w \in Workers, Request(w) \/ Serve(w) \/ WorkerCrash(w)  PROVE UNCHANGED registrarVars
  <2>1. CASE Request(w) \/ WorkerCrash(w)
    BY Zenon, <2>1 DEF Request, WorkerCrash, StartAssign, StartRebind, StartRelease, StartInvalidate, StartRenew
  <2>2. CASE Serve(w)
    BY Zenon, <2>2 DEF Serve, Lookup, ClaimRefused, ClaimSlot, RejectArtifact, Create, Abort, Load, LoadRefused,
         LoadTimesOut, ActivateSession, FinishSession, Unload, UnloadFails, Complete, RenewRead, RenewCommit
  <2> QED BY Zenon, <1>1, <2>1, <2>2
<1>2. ASSUME ReaperStep \/ (\E c \in Claims : LateBind(c)) \/ Time \/ UNCHANGED vars  PROVE UNCHANGED registrarVars
  BY Zenon, <1>2 DEF ReaperStep, Sweep, ReaperUnload, ReaperUnloadFails, ReaperComplete, ReaperStops, LateBind, Time, vars,
       registrarVars
<1>3. ASSUME NEW t \in Slots, LateReport(t)  PROVE registrar' = registrar
  BY Zenon, <1>3 DEF LateReport
<1> QED BY Zenon, <1>1, <1>2, <1>3 DEF Next

LEMMA NextRegistrars ==
  ASSUME Inv, [Next]_vars
  PROVE  LeftShrinks \/ \E h \in Hosts : Register(h)
<1>1. registrar \in [Hosts -> [pc : {"register", "ready", "beat", "steady"}, left : SUBSET Slots]]
  BY Zenon DEF Inv, EnvTypeOK
<1>2. ASSUME registrar' = registrar  PROVE LeftShrinks
  BY Zenon, <1>2 DEF LeftShrinks
<1>3. ASSUME NEW h \in Hosts, NEW pc, NEW left, Registering(h, pc, left), pc = "ready" => registrar[h].pc = "ready",
             left \subseteq registrar[h].left
      PROVE  LeftShrinks
  <2>1. registrar'[h] = [pc |-> pc, left |-> left] /\ \A g \in Hosts : g # h => registrar'[g] = registrar[g]
    BY Zenon, <1>1, <1>3 DEF Registering
  <2>2. registrar'[h].pc = pc /\ registrar'[h].left = left
    BY <2>1
  <2> QED BY Zenon, <1>3, <2>1, <2>2 DEF LeftShrinks
<1>4. ASSUME NEW h \in Hosts, HostStep(h)  PROVE LeftShrinks \/ Register(h)
  <2>1. CASE Beat(h) \/ LifecycleFails(h) \/ ExecutorRestart(h) \/ DrainHost(h)
    <3>1. registrar' = registrar \/ \E pc \in {"steady", "register"} : Registering(h, pc, {})
      BY Zenon, <2>1 DEF Beat, LifecycleFails, ExecutorRestart, DrainHost, registrarVars
    <3>2. ASSUME NEW pc \in {"steady", "register"}, Registering(h, pc, {})  PROVE LeftShrinks
      <4>1. pc # "ready" /\ {} \subseteq registrar[h].left
        BY Zenon, <3>2
      <4> QED BY Zenon, <3>2, <4>1, <1>3
    <3> QED BY Zenon, <3>1, <3>2, <1>2
  <2>2. CASE \E t \in SlotsOf(h) : ReportReady(h, t) \/ ReportTimesOut(h, t)
    <3>1. PICK t \in SlotsOf(h) : ReportReady(h, t) \/ ReportTimesOut(h, t)
      BY Zenon, <2>2
    <3>2. CASE Registering(h, "register", {})
      BY Zenon, <3>2, <1>3
    <3>3. CASE \E pc \in {"beat", "ready"} : Registering(h, pc, registrar[h].left \ {t}) /\ registrar[h].pc = "ready"
      BY Zenon, <3>3, <1>3
    <3>4. \/ Registering(h, "register", {})
          \/ \E pc \in {"beat", "ready"} : Registering(h, pc, registrar[h].left \ {t}) /\ registrar[h].pc = "ready"
      BY Zenon, <3>1 DEF ReportReady, ReportTimesOut
    <3> QED BY Zenon, <3>2, <3>3, <3>4
  <2> QED BY Zenon, <1>4, <2>1, <2>2 DEF HostStep
<1> QED BY Zenon, <1>2, <1>4, LoopsAlone DEF registrarVars

\* No report is ever late.
LEMMA NoneLate ==
  ASSUME PromptReports, lateReady = {}, [Next]_vars
  PROVE  lateReady' = {}
<1>1. lateReady' = lateReady \/ \E t \in Slots : LateReport(t)
  <2>1. ASSUME NEW h \in Hosts, HostStep(h)  PROVE lateReady' = lateReady
    BY Zenon, <2>1 DEF HostStep, Register, Beat, LifecycleFails, ExecutorRestart, DrainHost, ReportReady,
         ReportTimesOut,
         PromptReports, registrarVars
  <2> QED BY Zenon, <2>1, LoopsAlone DEF registrarVars
<1> QED BY Zenon, <1>1 DEF LateReport

LEMMA NextReadiness ==
  ASSUME PromptReports, Inv, ReadinessInv, [Next]_vars
  PROVE  ReadinessInv'
<1>1. /\ slot \in [Slots -> SlotRow] /\ claim \in [Claims -> ClaimRow]
      /\ registrar \in [Hosts -> [pc : {"register", "ready", "beat", "steady"}, left : SUBSET Slots]]
  BY Zenon DEF Inv, StoreInv, StoreTypeOK, EnvTypeOK
<1>2. lateReady' = {} /\ ReadyIsUnclaimed
  BY Zenon, NoneLate DEF ReadinessInv
<1>3. ASSUME ClaimsWane, NEW t \in Slots, SlotHasActiveClaim(t)'  PROVE SlotHasActiveClaim(t)
  BY Zenon, <1>3 DEF ClaimsWane, SlotHasActiveClaim
<1>4. CASE ClaimsWane /\ SlotsQuiet
  <2>1. ReadyIsUnclaimed'
    BY Zenon, <1>2, <1>3, <1>4 DEF ReadyIsUnclaimed, SlotsQuiet
  <2>2. CASE LeftShrinks
    BY Zenon, <1>2, <1>3, <1>4, <2>1, <2>2 DEF ReadinessInv, LeftShrinks, SlotsQuiet
  <2>3. CASE \E h \in Hosts : Register(h)
    <3>1. PICK h \in Hosts : Register(h)
      BY Zenon, <2>3
    <3>2. /\ registrar'[h].left = SlotsOf(h) /\ \A g \in Hosts : g # h => registrar'[g] = registrar[g]
      BY Zenon, <1>1, <3>1 DEF Register, Registering
    <3>3. \A t \in SlotsOf(h) : t \in Slots /\ HostOf[t] = h /\ slot'[t].state = "STARTING" /\ ~SlotHasActiveClaim(t)'
      <4>1. \A t \in SlotsOf(h) : t \in Slots /\ HostOf[t] = h /\ slot'[t].state = "STARTING"
        BY Zenon, <3>1 DEF Register, RegisterHost, SlotsOf
      <4>2. \A c \in Claims : claim'[c].state = "ACTIVE" => claim'[c].slot \notin SlotsOf(h)
        BY Zenon, <1>1, <3>1 DEF Register, RegisterHost, ClaimRow
      <4> QED BY Zenon, <4>1, <4>2 DEF SlotHasActiveClaim
    <3>4. ASSUME NEW g \in Hosts, NEW t \in Slots, registrar'[g].pc = "ready", t \in registrar'[g].left
          PROVE  HostOf[t] = g /\ slot'[t].state \in {"STARTING", "DRAINING"} /\ ~SlotHasActiveClaim(t)'
      <4>1. CASE g = h
        BY Zenon, <4>1, <3>2, <3>3, <3>4
      <4>2. CASE g # h
        BY ZenonT(30), <4>2, <3>2, <3>4, <1>3, <1>4 DEF ReadinessInv, SlotsQuiet
      <4> QED BY Zenon, <4>1, <4>2
    <3> QED BY Zenon, <1>2, <2>1, <3>4 DEF ReadinessInv
  <2> QED BY Zenon, <2>2, <2>3, NextRegistrars
<1>5. CASE \E w \in Workers, t \in Slots, c \in Claims : ClaimSlot(w, t, c)
  <2>1. PICK w \in Workers, t \in Slots, c \in Claims : ClaimSlot(w, t, c)
    BY Zenon, <1>5
  <2>2. /\ slot[t].state = "READY" /\ slot' = [slot EXCEPT ![t] = [state |-> "CLAIMED", claim |-> c]]
        /\ claim' = [claim EXCEPT ![c] = [state |-> "ACTIVE", slot |-> t, expired |-> FALSE]]
        /\ registrar' = registrar
    BY Zenon, <2>1 DEF ClaimSlot, ClaimReadySlotOK, Claimable, ClaimReadySlot, registrarVars
  <2>3. slot'[t].state = "CLAIMED" /\ \A u \in Slots : u # t => slot'[u] = slot[u]
    BY Zenon, <1>1, <2>2
  <2>4. claim'[c].slot = t /\ \A d \in Claims : d # c => claim'[d] = claim[d]
    BY Zenon, <1>1, <2>2
  <2>5. \A u \in Slots : u # t /\ SlotHasActiveClaim(u)' => SlotHasActiveClaim(u)
    BY Zenon, <2>4 DEF SlotHasActiveClaim
  <2>6. ReadyIsUnclaimed'
    BY Zenon, <1>2, <2>3, <2>5 DEF ReadyIsUnclaimed
  <2>7. ASSUME NEW h \in Hosts, NEW u \in Slots, registrar'[h].pc = "ready", u \in registrar'[h].left
        PROVE  HostOf[u] = h /\ slot'[u].state \in {"STARTING", "DRAINING"} /\ ~SlotHasActiveClaim(u)'
    <3>1. HostOf[u] = h /\ slot[u].state \in {"STARTING", "DRAINING"} /\ ~SlotHasActiveClaim(u)
      BY Zenon, <2>2, <2>7 DEF ReadinessInv
    <3>2. u # t
      BY Zenon, <2>2, <3>1
    <3> QED BY Zenon, <3>1, <3>2, <2>3, <2>5
  <2> QED BY Zenon, <1>2, <2>6, <2>7 DEF ReadinessInv
<1>6. CASE \E t \in Slots : SetReadiness(t) /\ (LateReport(t) \/ \E h \in Hosts : ReportReady(h, t))
  <2>1. PICK t \in Slots : SetReadiness(t) /\ (LateReport(t) \/ \E h \in Hosts : ReportReady(h, t))
    BY Zenon, <1>6
  <2>2. PICK h \in Hosts : ReportReady(h, t)
    BY Zenon, <2>1 DEF LateReport, ReadinessInv
  <2>3. /\ registrar[h].pc = "ready" /\ t \in registrar[h].left
        /\ HostOf[t] = h /\ ~SlotHasActiveClaim(t)
    BY Zenon, <2>2 DEF ReportReady, ReadinessInv
  <2>4. claim' = claim /\ slot'[t].state = "READY" /\ \A u \in Slots : u # t => slot'[u] = slot[u]
    BY ZenonT(30), <1>1, <2>1 DEF SetReadiness, SlotRow
  <2>5. \A u \in Slots : SlotHasActiveClaim(u)' <=> SlotHasActiveClaim(u)
    BY Zenon, <2>4 DEF SlotHasActiveClaim
  <2>6. ReadyIsUnclaimed'
    BY Zenon, <1>2, <2>3, <2>4, <2>5 DEF ReadyIsUnclaimed
  <2>7. /\ \A g \in Hosts : g # h => registrar'[g] = registrar[g]
        /\ registrar'[h].left \subseteq registrar[h].left \ {t}
    BY <1>1, <2>2 DEF ReportReady, Registering
  <2>8. ASSUME NEW g \in Hosts, NEW u \in Slots, registrar'[g].pc = "ready", u \in registrar'[g].left
        PROVE  HostOf[u] = g /\ slot'[u].state \in {"STARTING", "DRAINING"} /\ ~SlotHasActiveClaim(u)'
    <3>1. registrar[g].pc = "ready" /\ u \in registrar[g].left /\ (g = h => u # t)
      BY Zenon, <2>3, <2>7, <2>8
    <3>2. HostOf[u] = g /\ slot[u].state \in {"STARTING", "DRAINING"} /\ ~SlotHasActiveClaim(u)
      BY Zenon, <3>1 DEF ReadinessInv
    <3>3. u # t
      BY Zenon, <3>1, <3>2, <2>3
    <3> QED BY Zenon, <3>2, <3>3, <2>4, <2>5
  <2> QED BY Zenon, <1>2, <2>6, <2>8 DEF ReadinessInv
<1> QED BY Zenon, <1>4, <1>5, <1>6, NextClaims, NextSlots

\* A slot is offered only when no active claim is left on it, so claim_ready_slot
\* never runs into the unique index of migration 001, whatever workers crash,
\* calls fail, hosts register again, restart or drain: as long as a readiness
\* report that timed out is not served after the next registration.
THEOREM ReadyUnclaimed == ASSUME PromptReports PROVE Spec => []ReadyIsUnclaimed
<1>1. Init => ReadinessInv
  <2> SUFFICES ASSUME Init  PROVE ReadinessInv
    BY Zenon
  <2>1. (\A h \in Hosts : registrar[h].pc = "register") /\ \A t \in Slots : slot[t].state = "ABSENT"
    BY Zenon DEF Init, StoreInit
  <2> QED BY Zenon, <2>1 DEF Init, ReadinessInv, ReadyIsUnclaimed
<1>2. Inv /\ ReadinessInv /\ [Next]_vars => ReadinessInv'
  BY Zenon, NextReadiness
<1>3. ReadinessInv => ReadyIsUnclaimed
  BY Zenon DEF ReadinessInv
<1> QED BY <1>1, <1>2, <1>3, Invariance, PTL DEF Spec

-----------------------------------------------------------------------------
(* Leases. *)

\* The claims, hosts and loops while every host registers once.
HostsOnce ==
  \A h \in Hosts : IF registrar[h].pc = "register"
                   THEN host[h].state # "ACTIVE" /\ \A c \in Claims : claim[c].slot \notin SlotsOf(h)
                   ELSE host[h].state = "ACTIVE"

\* Who has an active lease row.
LeasesLive == \A l \in leases : l.state = "ACTIVE" => session[l.session].state \in {"ACTIVE", "DRAINING"}

LEMMA NextHostsOnce ==
  ASSUME RegistersOnce, Inv, HostsOnce, [Next]_vars
  PROVE  HostsOnce'
<1>1. /\ registrar \in [Hosts -> [pc : {"register", "ready", "beat", "steady"}, left : SUBSET Slots]]
      /\ host \in [Hosts -> HostRow] /\ claim \in [Claims -> ClaimRow] /\ HostOf \in [Slots -> Hosts]
  BY Zenon, StoreAssumption DEF Inv, StoreInv, StoreTypeOK, EnvTypeOK
<1>2. ASSUME ClaimsWane, \A h \in Hosts : host'[h].state = host[h].state,
             \A h \in Hosts : registrar'[h].pc = "register" <=> registrar[h].pc = "register"
      PROVE  HostsOnce'
  BY Zenon, <1>2 DEF HostsOnce, ClaimsWane
<1>3. CASE \E h \in Hosts : Register(h)
  <2>1. PICK h \in Hosts : Register(h)
    BY Zenon, <1>3
  <2>2. /\ host'[h].state = "ACTIVE" /\ \A g \in Hosts : g # h => host'[g] = host[g]
        /\ registrar'[h].pc = "ready" /\ \A g \in Hosts : g # h => registrar'[g] = registrar[g]
    BY Zenon, <1>1, <2>1 DEF Register, RegisterHost, Registering
  <2>3. \A c \in Claims : claim'[c].slot = claim[c].slot
    BY Zenon, <1>1, <2>1 DEF Register, RegisterHost, ClaimRow
  <2> QED BY <2>2, <2>3 DEF HostsOnce
<1>4. CASE \E w \in Workers, t \in Slots, c \in Claims : ClaimSlot(w, t, c)
  <2>1. PICK w \in Workers, t \in Slots, c \in Claims : ClaimSlot(w, t, c)
    BY Zenon, <1>4
  <2>2. /\ host[HostOf[t]].state = "ACTIVE" /\ host' = host /\ registrar' = registrar
        /\ claim' = [claim EXCEPT ![c] = [state |-> "ACTIVE", slot |-> t, expired |-> FALSE]]
    BY Zenon, <2>1 DEF ClaimSlot, ClaimReadySlotOK, Claimable, ClaimReadySlot, registrarVars
  <2>3. claim'[c].slot = t /\ \A d \in Claims : d # c => claim'[d] = claim[d]
    BY Zenon, <1>1, <2>2
  <2>4. \A h \in Hosts : registrar[h].pc = "register" => t \notin SlotsOf(h)
    BY Zenon, <2>2 DEF HostsOnce, SlotsOf
  <2> QED BY ZenonT(30), <2>2, <2>3, <2>4 DEF HostsOnce
<1>5. CASE ClaimsWane /\ ~\E h \in Hosts : Register(h)
  <2>1. \A h \in Hosts : host'[h].state = host[h].state
    <3>1. host' = host \/ \E h \in Hosts : Heartbeat(h) \/ HeartbeatLapses(h)
      BY ZenonT(30), <1>5, Transactions DEF storeVars, DrainHost, RegistersOnce, SetReadiness, ClaimSlot,
           ClaimReadySlot, Abort,
           AbortClaim, Creates, Create, CreateSession, Activates, ActivateSession, Activate, Renews, RenewCommit, Renew,
           FinishSessions, CompleteReclaim, ExpireLease, BecomeIdle, ExpireClaim
    <3> QED BY <1>1, <3>1 DEF Heartbeat, HeartbeatLapses, HostRow
  <2>2. \A h \in Hosts : registrar'[h].pc = "register" <=> registrar[h].pc = "register"
    <3>1. CASE registrar' = registrar
      BY Zenon, <3>1
    <3>2. ASSUME NEW h \in Hosts, HostStep(h)
          PROVE  \/ registrar' = registrar
                 \/ /\ registrar[h].pc # "register"
                    /\ \E pc \in {"ready", "beat", "steady"}, left \in SUBSET Slots : Registering(h, pc, left)
      <4>1. CASE Beat(h)
        <5>1. registrar[h].pc # "register" /\ Registering(h, "steady", {}) /\ {} \in SUBSET Slots
          BY Zenon, <4>1 DEF Beat
        <5> QED BY Zenon, <5>1
      <4>2. ASSUME NEW t \in SlotsOf(h), ReportReady(h, t)
            PROVE  /\ registrar[h].pc = "ready" /\ registrar[h].left \ {t} \in SUBSET Slots
                   /\ Registering(h, IF registrar[h].left = {t} THEN "beat" ELSE "ready", registrar[h].left \ {t})
        <5>1. registrar[h].pc = "ready" /\ SetReadinessOK(t)
          BY Zenon, <4>2 DEF ReportReady, SetReadinessOK, HostsOnce, SlotsOf
        <5>2. Registering(h, IF registrar[h].left = {t} THEN "beat" ELSE "ready", registrar[h].left \ {t})
          BY Zenon, <4>2, <5>1 DEF ReportReady
        <5> QED BY Zenon, <1>1, <5>1, <5>2
      <4>3. ~Register(h) /\ ~LifecycleFails(h) /\ ~ExecutorRestart(h) /\ ~DrainHost(h)
            /\ \A t \in SlotsOf(h) : ~ReportTimesOut(h, t)
        BY Zenon, <1>5 DEF LifecycleFails, ExecutorRestart, DrainHost, ReportTimesOut, RegistersOnce, PromptReports
      <4>4. ASSUME NEW t \in SlotsOf(h), ReportReady(h, t)
            PROVE  /\ registrar[h].pc # "register"
                   /\ \E pc \in {"ready", "beat", "steady"}, left \in SUBSET Slots : Registering(h, pc, left)
        BY Zenon, <4>2, <4>4
      <4> QED BY Zenon, <3>2, <4>1, <4>3, <4>4 DEF HostStep
    <3>3. ASSUME NEW h \in Hosts, registrar[h].pc # "register", NEW pc \in {"ready", "beat", "steady"},
                 NEW left \in SUBSET Slots, Registering(h, pc, left)
          PROVE  \A g \in Hosts : registrar'[g].pc = "register" <=> registrar[g].pc = "register"
      <4>1. registrar'[h].pc = pc /\ \A g \in Hosts : g # h => registrar'[g] = registrar[g]
        BY Zenon, <1>1, <3>3 DEF Registering
      <4> QED BY Zenon, <3>3, <4>1
    <3> QED BY Zenon, <3>1, <3>2, <3>3, LoopsAlone DEF registrarVars
  <2> QED BY Zenon, <1>2, <1>5, <2>1, <2>2
<1> QED BY Zenon, <1>3, <1>4, <1>5, NextClaims

\* A session's active leases end with it.
LEMMA RevokesLeases ==
  ASSUME StoreInv, LeasesLive, OneActiveLease, NEW S \in SUBSET Sessions, FinishSessions(S)
  PROVE  LeasesLive' /\ OneActiveLease'
<1>1. /\ session \in [Sessions -> SessionRow] /\ leases \subseteq LeaseRow
      /\ session' = [s \in Sessions |-> IF s \in S THEN [session[s] EXCEPT !.state = "INVALID"] ELSE session[s]]
      /\ leases' = {IF l.session \in S /\ l.state = "ACTIVE" THEN [l EXCEPT !.state = "REVOKED"] ELSE l : l \in leases}
  BY Zenon DEF StoreInv, StoreTypeOK, FinishSessions
<1>2. ASSUME NEW k \in leases', k.state = "ACTIVE"  PROVE k \in leases /\ k.session \in Sessions /\ k.session \notin S
  <2>1. PICK l \in leases : k = IF l.session \in S /\ l.state = "ACTIVE" THEN [l EXCEPT !.state = "REVOKED"] ELSE l
    BY Zenon, <1>1
  <2>2. l \in LeaseRow
    BY Zenon, <1>1
  <2>3. ~(l.session \in S /\ l.state = "ACTIVE")
    BY Zenon, <1>2, <2>1, <2>2 DEF LeaseRow
  <2> QED BY Zenon, <1>2, <2>1, <2>2, <2>3 DEF LeaseRow
<1>3. LeasesLive'
  BY Zenon, <1>1, <1>2 DEF LeasesLive
<1>4. OneActiveLease'
  BY Zenon, <1>2 DEF OneActiveLease
<1> QED BY Zenon, <1>3, <1>4

\* activate and renew write the claim the worker has into the lease of its session.
LEMMA LeaseFields ==
  ASSUME Inv, NEW w \in Workers, Activates(w) \/ Renews(w)
  PROVE  /\ worker[w].ses \in Sessions
         /\ session'[worker[w].ses].state = "ACTIVE" /\ session'[worker[w].ses].lease = worker[w].claim
         /\ session'[worker[w].ses].claim = session[worker[w].ses].claim
         /\ \A u \in Sessions : u # worker[w].ses => session'[u] = session[u]
<1> DEFINE s == worker[w].ses
           c == worker[w].claim
<1>1. session \in [Sessions -> SessionRow] /\ s \in Sessions
  BY Zenon DEF Inv, StoreInv, StoreTypeOK, WorkersNameRows, Activates, ActivateSession, Renews, RenewCommit
<1>2. CASE Activates(w)
  <2>1. PICK x : session' = [session EXCEPT ![s].state = "ACTIVE", ![s].seq = 1, ![s].lease = c, ![s].exp = x,
                                            ![s].activity = "recent"]
    BY Zenon, <1>2 DEF Activates, ActivateSession, Activate
  <2> HIDE DEF s, c
  <2>2. session[s] \in SessionRow /\ \A u \in Sessions : u # s => session'[u] = session[u]
    BY Zenon, <1>1, <2>1
  <2>3. session'[s] = [session[s] EXCEPT !.state = "ACTIVE", !.seq = 1, !.lease = c, !.exp = x, !.activity = "recent"]
    BY Zenon, <1>1, <2>1
  <2>4. session'[s].state = "ACTIVE" /\ session'[s].lease = c /\ session'[s].claim = session[s].claim
    BY Zenon, <2>2, <2>3 DEF SessionRow
  <2> QED BY Zenon, <1>1, <2>2, <2>4 DEF s, c
<1>3. CASE Renews(w)
  <2>1. session[s].state = "ACTIVE" /\ session' = [session EXCEPT ![s].seq = worker[w].seq, ![s].lease = c,
                                                      ![s].exp = "valid", ![s].activity = "recent"]
    BY Zenon, <1>3 DEF Renews, RenewCommit, RenewOK, Renew
  <2> HIDE DEF s, c
  <2>2. session[s] \in SessionRow /\ \A u \in Sessions : u # s => session'[u] = session[u]
    BY Zenon, <1>1, <2>1
  <2>3. session'[s] = [session[s] EXCEPT !.seq = worker[w].seq, !.lease = c, !.exp = "valid", !.activity = "recent"]
    BY Zenon, <1>1, <2>1
  <2>4. session'[s].lease = c /\ session'[s].claim = session[s].claim
    BY Zenon, <2>2, <2>3 DEF SessionRow
  <2>5. session'[s].state = session[s].state
    BY Zenon, <2>2, <2>3 DEF SessionRow
  <2> QED BY Zenon, <1>1, <2>1, <2>2, <2>4, <2>5 DEF s, c
<1> QED BY Zenon, <1>2, <1>3

\* activate writes the first lease of a session that had none.
LEMMA ActivatesLease ==
  ASSUME Inv, LeasesLive, OneActiveLease, NEW w \in Workers, Activates(w)
  PROVE  LeasesLive' /\ OneActiveLease'
<1> DEFINE s == worker[w].ses
           n == NewLease(s, worker[w].claim, worker[w].hostEpoch, worker[w].epoch, 1)
<1>1. /\ session \in [Sessions -> SessionRow] /\ leases \subseteq LeaseRow /\ s \in Sessions
  BY Zenon DEF Inv, StoreInv, StoreTypeOK, WorkersNameRows, Activates, ActivateSession
<1>2. session[s].state = "BINDING" /\ Activate(s, worker[w].claim, worker[w].hostEpoch, worker[w].epoch)
  BY Zenon DEF Activates, ActivateSession, ActivateOK
<1>3. leases' = leases \cup {n} /\ n.session = s
  BY Zenon, <1>2 DEF Activate, NewLease
<1>4. session'[s].state = "ACTIVE" /\ \A u \in Sessions : u # s => session'[u] = session[u]
  BY Zenon, LeaseFields
<1> HIDE DEF n, s
<1>5. \A l \in leases : l.session = s => l.state # "ACTIVE"
  BY Zenon, <1>2 DEF LeasesLive
<1>6. \A l \in leases : l.session \in Sessions
  BY Zenon, <1>1 DEF LeaseRow
<1>7. LeasesLive'
  BY Zenon, <1>3, <1>4, <1>6 DEF LeasesLive
<1>8. OneActiveLease'
  BY Zenon, <1>3, <1>5 DEF OneActiveLease
<1> QED BY Zenon, <1>7, <1>8

\* renew supersedes the lease it replaces.
LEMMA RenewsLease ==
  ASSUME Inv, LeasesLive, OneActiveLease, NEW w \in Workers, Renews(w)
  PROVE  LeasesLive' /\ OneActiveLease'
<1> DEFINE s == worker[w].ses
           n == NewLease(s, worker[w].claim, worker[w].hostEpoch, worker[w].epoch, worker[w].seq)
<1>1. /\ session \in [Sessions -> SessionRow] /\ leases \subseteq LeaseRow /\ s \in Sessions
  BY Zenon DEF Inv, StoreInv, StoreTypeOK, WorkersNameRows, Renews, RenewCommit
<1>2. session[s].state = "ACTIVE" /\ Renew(s, worker[w].claim, worker[w].hostEpoch, worker[w].epoch, worker[w].seq)
  BY Zenon DEF Renews, RenewCommit, RenewOK
<1>3. leases' = Retire(s, "SUPERSEDED") \cup {n} /\ n.session = s
  BY ZenonT(30), <1>2 DEF Renew, NewLease
<1>4. \A u \in Sessions : session'[u].state = session[u].state
  BY ZenonT(90), <1>1, <1>2 DEF Renew, SessionRow
<1> HIDE DEF n, s
<1>5. ASSUME NEW k \in Retire(s, "SUPERSEDED"), k.state = "ACTIVE"  PROVE k \in leases /\ k.session # s
  <2>1. CASE k \in {l \in leases : l.session # s \/ l.state # "ACTIVE"}
    BY Zenon, <1>5, <2>1
  <2>2. ASSUME NEW l \in leases, k = [l EXCEPT !.state = "SUPERSEDED"]  PROVE FALSE
    BY Zenon, <1>1, <1>5, <2>2 DEF LeaseRow
  <2> QED BY Zenon, <1>5, <2>1, <2>2 DEF Retire
<1>6. \A l \in leases : l.session \in Sessions
  BY Zenon, <1>1 DEF LeaseRow
<1>7. LeasesLive'
  BY Zenon, <1>1, <1>2, <1>3, <1>4, <1>5, <1>6 DEF LeasesLive
<1>8. OneActiveLease'
  BY Zenon, <1>3, <1>5 DEF OneActiveLease
<1> QED BY Zenon, <1>7, <1>8

LEMMA NextLeases ==
  ASSUME RegistersOnce, Inv, HostsOnce, LeasesLive, OneActiveLease, [Next]_vars
  PROVE  LeasesLive' /\ OneActiveLease'
<1>1. /\ session \in [Sessions -> SessionRow] /\ leases \subseteq LeaseRow /\ StoreInv
      /\ \A l \in leases : l.session \in Sessions
  BY Zenon DEF Inv, StoreInv, StoreTypeOK, LeaseRow
<1>2. ASSUME leases' = leases, \A s \in Sessions : session[s].state \in {"ACTIVE", "DRAINING"} =>
                                                   session'[s].state \in {"ACTIVE", "DRAINING"}
      PROVE  LeasesLive' /\ OneActiveLease'
  BY Zenon, <1>1, <1>2 DEF LeasesLive, OneActiveLease
<1>3. CASE \E h \in Hosts : Register(h)
  <2>1. PICK h \in Hosts : Register(h)
    BY Zenon, <1>3
  <2>2. \A c \in Claims : claim[c].slot \notin SlotsOf(h)
    BY Zenon, <2>1 DEF Register, HostsOnce
  <2>3. leases' = leases /\ \A s \in Sessions : session[s].state \in Live => session[s].claim \in Claims
    BY Zenon, <1>1, <2>1 DEF Register, RegisterHost, StoreInv, SessionsAndClaims, Live
  <2>4. \A s \in Sessions : session'[s] = session[s]
    BY Zenon, <2>1, <2>2, <2>3 DEF Register, RegisterHost, SlotOf
  <2> QED BY Zenon, <2>3, <2>4, <1>2
<1>4. CASE \E w \in Workers : Creates(w)
  <2>1. PICK w \in Workers : Creates(w)
    BY Zenon, <1>4
  <2>2. /\ worker[w].ses \in Sessions /\ session[worker[w].ses].state \notin Live
        /\ CreateSession(worker[w].ses, worker[w].claim, worker[w].epoch)
    BY Zenon, <2>1 DEF Creates, Create, CreateSessionOK, Inv, WorkersNameRows
  <2>3. leases' = leases /\ \A s \in Sessions : s # worker[w].ses => session'[s] = session[s]
    BY Zenon, <1>1, <2>2 DEF CreateSession
  <2> QED BY Zenon, <2>2, <2>3, <1>2 DEF Live
<1>6. CASE \E s \in Sessions : ExpireLease(s) \/ BecomeIdle(s)
  <2>1. leases' = leases /\ \A s \in Sessions : session'[s].state = session[s].state
    BY SMTT(20), <1>1, <1>6 DEF ExpireLease, BecomeIdle, SessionRow
  <2> QED BY Zenon, <2>1, <1>2
<1>7. CASE \E c \in Claims : ExpireClaim(c)
  <2>1. leases' = leases /\ \A s \in Sessions : session'[s].state = session[s].state
    BY <1>1, <1>7 DEF ExpireClaim, SessionRow
  <2> QED BY Zenon, <2>1, <1>2
<1>8. \/ leases' = leases /\ session' = session
      \/ \E h \in Hosts : Register(h)
      \/ \E w \in Workers : Creates(w) \/ Activates(w) \/ Renews(w)
      \/ \E S \in SUBSET Sessions : FinishSessions(S)
      \/ \E s \in Sessions : ExpireLease(s) \/ BecomeIdle(s)
      \/ \E c \in Claims : ExpireClaim(c)
  BY ZenonT(30), Transactions DEF storeVars, Heartbeat, HeartbeatLapses, DrainHost, RegistersOnce, SetReadiness,
       ClaimSlot,
       ClaimReadySlot, Abort, AbortClaim, CompleteReclaim
<1> QED BY Zenon, <1>1, <1>2, <1>3, <1>4, <1>6, <1>7, <1>8, ActivatesLease, RenewsLease, RevokesLeases

\* While every host registers once, a session has at most one active lease row,
\* whatever requests race, calls fail, leases expire and workers crash: activate
\* finds none, renew supersedes and _finish_session revokes.
THEOREM LeaseUnique == ASSUME RegistersOnce PROVE Spec => []OneActiveLease
<1>1. Init => HostsOnce /\ LeasesLive /\ OneActiveLease
  <2> SUFFICES ASSUME Init  PROVE HostsOnce /\ LeasesLive /\ OneActiveLease
    BY Zenon
  <2>1. /\ \A h \in Hosts : registrar[h].pc = "register" /\ host[h].state = "ABSENT"
        /\ \A c \in Claims : claim[c].slot = None
        /\ leases = {} /\ None \notin Slots
    BY Zenon, StoreAssumption DEF Init, StoreInit
  <2> QED BY Zenon, <2>1 DEF HostsOnce, LeasesLive, OneActiveLease, SlotsOf
<1>2. Inv /\ (HostsOnce /\ LeasesLive /\ OneActiveLease) /\ [Next]_vars => (HostsOnce /\ LeasesLive /\ OneActiveLease)'
  BY Zenon, NextHostsOnce, NextLeases
<1> QED BY <1>1, <1>2, Invariance, PTL DEF Spec

-----------------------------------------------------------------------------
(* Bindings. *)

Binding == {"load", "activate", "renew", "commit"}

\* A step of worker w: it ends its request, goes on with it, or starts one.
Ends(w) == worker'[w].pc = "idle"

GoesOn(w) ==
  /\ worker[w].pc # "idle" /\ worker'[w].ses = worker[w].ses
  /\ worker'[w].pc \in Binding => worker'[w].claim = worker[w].claim /\ (worker[w].pc \in Binding \/ Creates(w))
  /\ worker'[w].pc = "activate" => Load(w)
  /\ worker'[w].pc = "unload" => worker'[w].claim = session[worker[w].ses].claim /\ FinishSessions({worker[w].ses})
                                 /\ session[worker[w].ses].state # "NONE"

Starts(w) ==
  /\ MayStart(w, worker'[w].ses) /\ worker'[w].pc \in {"lookup", "finish", "renew"}
  /\ worker'[w].pc = "renew" => worker'[w].claim = session[worker'[w].ses].claim

Moves(w) == (Ends(w) \/ GoesOn(w) \/ Starts(w)) /\ \A v \in Workers : v # w => worker'[v] = worker[v]

LEMMA FinishMoves ==
  ASSUME Inv, NEW w \in Workers, Finish(w)  PROVE Moves(w)
<1>1. worker'[w] = Idle /\ \A v \in Workers : v # w => worker'[v] = worker[v]
  BY Zenon DEF Inv, Finish
<1>2. Idle.pc = "idle"
  BY Zenon DEF Idle
<1> QED BY Zenon, <1>1, <1>2 DEF Moves, Ends

LEMMA StepMoves ==
  ASSUME Inv, NEW w \in Workers, NEW pc, Step(w, pc), worker[w].pc # "idle", pc # "unload",
         pc \in Binding => worker[w].pc \in Binding \/ Creates(w),
         pc = "activate" => Load(w)
  PROVE  Moves(w)
<1>1. worker[w] \in Job /\ \A v \in Workers : v # w => worker'[v] = worker[v]
  BY Zenon DEF Inv, Step
<1>2. worker'[w] = [worker[w] EXCEPT !.pc = pc]
  BY Zenon DEF Inv, Step
<1>3. worker'[w].pc = pc /\ worker'[w].ses = worker[w].ses /\ worker'[w].claim = worker[w].claim
  BY Zenon, <1>1, <1>2 DEF Job
<1> QED BY Zenon, <1>1, <1>3 DEF Moves, GoesOn

LEMMA FailMoves ==
  ASSUME Inv, NEW w \in Workers, NEW ret \in {"idle", "claim"}, worker[w].pc # "idle",
         worker' = [worker EXCEPT ![w].pc = "finish", ![w].ret = ret, ![w].expect = None]
  PROVE  Moves(w)
<1>1. worker[w] \in Job /\ \A v \in Workers : v # w => worker'[v] = worker[v]
  BY Zenon DEF Inv
<1>2. worker'[w] = [worker[w] EXCEPT !.pc = "finish", !.ret = ret, !.expect = None]
  BY Zenon DEF Inv
<1>3. worker'[w].pc = "finish" /\ worker'[w].ses = worker[w].ses
  <2> DEFINE j == worker[w]
             k == [[[j EXCEPT !.pc = "finish"] EXCEPT !.ret = ret] EXCEPT !.expect = None]
  <2>1. worker'[w] = k /\ k.pc = "finish" /\ k.ses = j.ses
    BY Zenon, <1>1, <1>2 DEF Job
  <2> QED BY Zenon, <2>1
<1>4. "finish" \notin Binding
  BY Zenon DEF Binding
<1> QED BY Zenon, <1>1, <1>3, <1>4 DEF Moves, GoesOn

LEMMA StartMoves ==
  ASSUME Inv, NEW w \in Workers, NEW s \in Sessions, MayStart(w, s), NEW pc \in {"lookup", "finish"}, NEW e, NEW expect,
         NEW ret, Start(w, s, pc, e, expect, ret)
  PROVE  Moves(w)
<1>1. \A v \in Workers : v # w => worker'[v] = worker[v]
  BY Zenon DEF Inv, Start
<1>2. worker'[w] = [Idle EXCEPT !.pc = pc, !.ses = s, !.epoch = e, !.expect = expect, !.ret = ret]
  BY Zenon DEF Inv, Start
<1>3. worker'[w].pc = pc /\ worker'[w].ses = s
  BY Zenon, <1>2 DEF Idle
<1> QED BY Zenon, <1>1, <1>3 DEF Moves, Starts

LEMMA RequestMoves ==
  ASSUME Inv, NEW w \in Workers, Request(w)  PROVE Moves(w)
<1>1. PICK s \in Sessions :
        \/ StartAssign(w, s) \/ StartRebind(w, s) \/ StartRelease(w, s)
        \/ \E e \in (1 .. MaxEpoch) \cup {None} : StartInvalidate(w, s, e)
        \/ \E e \in 1 .. MaxEpoch : StartRenew(w, s, e)
  BY Zenon DEF Request
<1>2. ASSUME \E e \in 1 .. MaxEpoch : StartRenew(w, s, e)  PROVE Moves(w)
  <2>1. PICK e \in 1 .. MaxEpoch : StartRenew(w, s, e)
    BY Zenon, <1>2
  <2>2. MayStart(w, s) /\ \A v \in Workers : v # w => worker'[v] = worker[v]
    BY Zenon, <2>1 DEF Inv, StartRenew
  <2>3. worker'[w] = [Idle EXCEPT !.pc = "renew", !.ses = s, !.claim = session[s].claim,
                                  !.seq = session[s].seq + 1, !.epoch = session[s].epoch, !.expect = e]
    BY Zenon, <2>1 DEF Inv, StartRenew
  <2>4. worker'[w].pc = "renew" /\ worker'[w].ses = s /\ worker'[w].claim = session[s].claim
    BY Zenon, <2>3 DEF Idle
  <2> QED BY Zenon, <2>2, <2>4 DEF Moves, Starts
<1>3. CASE StartAssign(w, s) \/ StartRebind(w, s)
  BY Zenon, <1>3, StartMoves DEF StartAssign, StartRebind
<1>4. CASE StartRelease(w, s) \/ \E e \in (1 .. MaxEpoch) \cup {None} : StartInvalidate(w, s, e)
  BY Zenon, <1>4, StartMoves DEF StartRelease, StartInvalidate
<1> QED BY Zenon, <1>1, <1>2, <1>3, <1>4

LEMMA ServeMoves ==
  ASSUME Inv, NEW w \in Workers, Serve(w)  PROVE Moves(w)
<1>1. worker[w] \in Job /\ worker[w].ret \in {"idle", "lookup", "claim"}
  BY Zenon DEF Inv, Job
<1>2. /\ "abort" \notin Binding /\ "claim" \notin Binding /\ "complete" \notin Binding /\ "lookup" \notin Binding
      /\ "create" \notin Binding /\ "unload" \notin Binding /\ "load" \in Binding /\ "renew" \in Binding
  BY Zenon DEF Binding
<1>3. CASE Lookup(w)
  BY Zenon, <1>2, <1>3, FinishMoves, StepMoves, FailMoves DEF Lookup
<1>4. CASE ClaimRefused(w) \/ Abort(w) \/ UnloadFails(w) \/ RenewCommit(w)
  BY Zenon, <1>4, FinishMoves DEF ClaimRefused, Abort, UnloadFails, RenewCommit
<1>5. CASE RejectArtifact(w) \/ Create(w)
  BY Zenon, <1>2, <1>5, StepMoves DEF RejectArtifact, Create, Creates
<1>6. CASE Load(w)
  BY Zenon, <1>2, <1>6, StepMoves DEF Load
<1>7. CASE LoadRefused(w) \/ LoadTimesOut(w) \/ ActivateSession(w)
  BY Zenon, <1>7, FinishMoves, FailMoves DEF LoadRefused, LoadTimesOut, ActivateSession, Fail
<1>8. CASE Unload(w)
  BY Zenon, <1>2, <1>8, StepMoves DEF Unload
<1>9. CASE Complete(w)
  BY Zenon, <1>1, <1>2, <1>9, FinishMoves, StepMoves DEF Complete
<1>10. CASE \E t \in Slots, c \in Claims : ClaimSlot(w, t, c)
  <2>1. PICK t \in Slots, c \in Claims : ClaimSlot(w, t, c)
    BY Zenon, <1>10
  <2>2. worker[w].pc # "idle" /\ \A v \in Workers : v # w => worker'[v] = worker[v]
    BY Zenon, <2>1 DEF ClaimSlot, Inv
  <2>3. worker'[w] = [worker[w] EXCEPT !.pc = "create", !.claim = c, !.hostEpoch = host[HostOf[t]].epoch]
    BY Zenon, <2>1 DEF ClaimSlot, Inv
  <2>4. worker'[w].pc = "create" /\ worker'[w].ses = worker[w].ses
    BY Zenon, <1>1, <2>3 DEF Job
  <2> QED BY Zenon, <1>2, <2>2, <2>4 DEF Moves, GoesOn
<1>11. CASE FinishSession(w)
  <2>1. CASE Finish(w)
    BY Zenon, <2>1, FinishMoves
  <2>2. CASE ~Finish(w)
    <3>1. /\ worker[w].pc # "idle" /\ FinishSessions({worker[w].ses}) /\ session[worker[w].ses].state # "NONE"
          /\ worker' = [worker EXCEPT ![w].pc = "unload", ![w].claim = session[worker[w].ses].claim]
      BY Zenon, <1>11, <2>2 DEF FinishSession
    <3>2. /\ worker'[w] = [worker[w] EXCEPT !.pc = "unload", !.claim = session[worker[w].ses].claim]
          /\ \A v \in Workers : v # w => worker'[v] = worker[v]
      BY Zenon, <3>1 DEF Inv
    <3>3. worker'[w].pc = "unload" /\ worker'[w].ses = worker[w].ses /\ worker'[w].claim = session[worker[w].ses].claim
      BY Zenon, <1>1, <3>2 DEF Job
    <3> QED BY Zenon, <1>2, <3>1, <3>2, <3>3 DEF Moves, GoesOn
  <2> QED BY Zenon, <2>1, <2>2
<1>12. CASE RenewRead(w)
  <2>1. CASE Finish(w)
    BY Zenon, <2>1, FinishMoves
  <2>2. CASE ~Finish(w)
    <3>1. worker[w].pc = "renew"
          /\ worker' = [worker EXCEPT ![w].pc = "commit", ![w].hostEpoch = host[HostOfClaim(worker[w].claim)].epoch]
      BY Zenon, <1>12, <2>2 DEF RenewRead
    <3>2. /\ worker'[w] = [worker[w] EXCEPT !.pc = "commit", !.hostEpoch = host[HostOfClaim(worker[w].claim)].epoch]
          /\ \A v \in Workers : v # w => worker'[v] = worker[v]
      BY Zenon, <3>1 DEF Inv
    <3>3. worker'[w].pc = "commit" /\ worker'[w].ses = worker[w].ses /\ worker'[w].claim = worker[w].claim
      BY Zenon, <1>1, <3>2 DEF Job
    <3> QED BY Zenon, <1>2, <3>1, <3>2, <3>3 DEF Moves, GoesOn
  <2> QED BY Zenon, <2>1, <2>2
<1> QED BY ZenonT(30), <1>3, <1>4, <1>5, <1>6, <1>7, <1>8, <1>9, <1>10, <1>11, <1>12 DEF Serve

\* At most one worker moves in a step.
LEMMA WorkersMove ==
  ASSUME Inv, [Next]_vars
  PROVE  worker' = worker \/ \E w \in Workers : Moves(w)
<1>1. ASSUME NEW w \in Workers, WorkerCrash(w)  PROVE Moves(w)
  BY Zenon, <1>1, FinishMoves DEF WorkerCrash
<1>2. ASSUME \/ ReaperStep \/ Time \/ UNCHANGED vars \/ (\E c \in Claims : LateBind(c)) \/ \E t \in Slots : LateReport(t)
      PROVE  worker' = worker
  BY Zenon, <1>2 DEF ReaperStep, Sweep, ReaperUnload, ReaperUnloadFails, ReaperComplete, ReaperStops, Time, vars, LateBind,
       LateReport
<1>3. ASSUME NEW h \in Hosts, HostStep(h)  PROVE worker' = worker
  BY Zenon, <1>3 DEF HostStep, Register, Beat, LifecycleFails, ExecutorRestart, DrainHost, ReportReady, ReportTimesOut
<1> QED BY Zenon, <1>1, <1>2, <1>3, RequestMoves, ServeMoves DEF Next

\* The fields create_session writes.
LEMMA CreateFields ==
  ASSUME Inv, NEW w \in Workers, Creates(w)
  PROVE  /\ worker[w].ses \in Sessions /\ worker[w].pc = "create"
         /\ session'[worker[w].ses].state = "BINDING" /\ session'[worker[w].ses].claim = worker[w].claim
         /\ \A u \in Sessions : u # worker[w].ses => session'[u] = session[u]
         /\ worker'[w].pc = "load" /\ worker'[w].ses = worker[w].ses /\ worker'[w].claim = worker[w].claim
         /\ \A v \in Workers : v # w => worker'[v] = worker[v]
<1>1. /\ session \in [Sessions -> SessionRow] /\ worker[w].ses \in Sessions /\ worker[w] \in Job
      /\ worker[w].pc = "create" /\ CreateSession(worker[w].ses, worker[w].claim, worker[w].epoch) /\ Step(w, "load")
  BY Zenon DEF Inv, StoreInv, StoreTypeOK, WorkersNameRows, Creates, Create
<1>2. /\ session'[worker[w].ses].state = "BINDING" /\ session'[worker[w].ses].claim = worker[w].claim
      /\ \A u \in Sessions : u # worker[w].ses => session'[u] = session[u]
  BY Zenon, <1>1 DEF CreateSession
<1>3. worker'[w] = [worker[w] EXCEPT !.pc = "load"] /\ \A v \in Workers : v # w => worker'[v] = worker[v]
  BY Zenon, <1>1 DEF Inv, Step
<1>4. worker'[w].pc = "load" /\ worker'[w].ses = worker[w].ses /\ worker'[w].claim = worker[w].claim
  BY Zenon, <1>1, <1>3 DEF Job
<1> QED BY Zenon, <1>1, <1>2, <1>3, <1>4

LEMMA NextBinding ==
  ASSUME SingleFlight, Inv, BindingInv, [Next]_vars
  PROVE  BindingInv'
<1> DEFINE Apart == \A v, w \in Workers :
                      v # w /\ worker[v].pc # "idle" /\ worker[w].pc # "idle" => worker[v].ses # worker[w].ses
           Bound == \A w \in Workers : worker[w].pc \in Binding => session[worker[w].ses].claim = worker[w].claim
<1>1. Apart /\ Bound /\ LeaseNamesBinding /\ WorkersNameRows
  BY Zenon DEF BindingInv, Binding, Inv
<1>2. Apart'
  <2>1. CASE worker' = worker
    BY Zenon, <1>1, <2>1
  <2>2. ASSUME NEW w \in Workers, Moves(w)  PROVE Apart'
    <3>1. \A v \in Workers : v # w => worker'[v] = worker[v]
      BY Zenon, <2>2 DEF Moves
    <3>2. CASE Ends(w)
      BY ZenonT(30), <1>1, <3>1, <3>2 DEF Ends
    <3>3. CASE GoesOn(w)
      BY <1>1, <3>1, <3>3 DEF GoesOn
    <3>4. CASE Starts(w)
      BY <1>1, <3>1, <3>4 DEF Starts, MayStart
    <3> QED BY Zenon, <2>2, <3>2, <3>3, <3>4 DEF Moves
  <2> QED BY Zenon, <2>1, <2>2, WorkersMove
<1>3. /\ "create" \notin Binding /\ "load" \in Binding /\ "renew" \in Binding /\ "lookup" \notin Binding
      /\ "finish" \notin Binding /\ "idle" \notin Binding
      /\ "BINDING" \notin {"ACTIVE", "DRAINING"} /\ "INVALID" \notin {"ACTIVE", "DRAINING"}
  BY Zenon DEF Binding
<1>4. ASSUME NEW u \in Workers, Creates(u)  PROVE Bound' /\ LeaseNamesBinding'
  <2>1. /\ worker[u].ses \in Sessions /\ worker[u].pc = "create"
        /\ session'[worker[u].ses].state = "BINDING" /\ session'[worker[u].ses].claim = worker[u].claim
        /\ \A x \in Sessions : x # worker[u].ses => session'[x] = session[x]
        /\ worker'[u].pc = "load" /\ worker'[u].ses = worker[u].ses /\ worker'[u].claim = worker[u].claim
        /\ \A v \in Workers : v # u => worker'[v] = worker[v]
    BY Zenon, <1>4, CreateFields
  <2>2. ASSUME NEW v \in Workers, worker'[v].pc \in Binding  PROVE session'[worker'[v].ses].claim = worker'[v].claim
    <3>1. CASE v = u
      BY Zenon, <2>1, <3>1
    <3>2. CASE v # u
      <4>1. worker'[v] = worker[v] /\ worker[v].pc # "idle" /\ worker[u].pc # "idle"
        BY Zenon, <1>3, <2>1, <2>2, <3>2
      <4>2. worker[v].ses # worker[u].ses /\ worker[v].ses \in Sessions
        BY Zenon, <1>1, <3>2, <4>1 DEF WorkersNameRows
      <4> QED BY SMTT(20), <1>1, <2>1, <2>2, <4>1, <4>2
    <3> QED BY Zenon, <3>1, <3>2
  <2>3. LeaseNamesBinding'
    BY Zenon, <1>1, <1>3, <2>1 DEF LeaseNamesBinding
  <2> QED BY Zenon, <2>2, <2>3
<1>5. ASSUME \A s \in Sessions : session'[s].claim = session[s].claim, \A w \in Workers : ~Creates(w)  PROVE Bound'
  <2>1. CASE worker' = worker
    BY Zenon, <1>1, <1>3, <1>5, <2>1 DEF WorkersNameRows
  <2>2. ASSUME NEW w \in Workers, Moves(w)  PROVE Bound'
    <3>1. ASSUME NEW v \in Workers, v # w, worker'[v].pc \in Binding
          PROVE  session'[worker'[v].ses].claim = worker'[v].claim
      BY SMTT(20), <1>1, <1>3, <1>5, <2>2, <3>1 DEF Moves, WorkersNameRows
    <3>2. ASSUME worker'[w].pc \in Binding  PROVE session'[worker'[w].ses].claim = worker'[w].claim
      <4>1. CASE GoesOn(w)
        BY ZenonT(30), <1>1, <1>5, <3>2, <4>1 DEF GoesOn, WorkersNameRows
      <4>2. CASE Starts(w)
        <5>1. worker'[w].pc = "renew" /\ worker'[w].claim = session[worker'[w].ses].claim
          BY Zenon, <1>3, <3>2, <4>2 DEF Starts
        <5>2. worker'[w].ses \in Sessions
          BY Zenon, <5>1, NextInv DEF Inv, WorkersNameRows
        <5> QED BY Zenon, <1>5, <5>1, <5>2
      <4>3. ~Ends(w)
        BY Zenon, <1>3, <3>2 DEF Ends
      <4> QED BY Zenon, <2>2, <4>1, <4>2, <4>3 DEF Moves
    <3> QED BY Zenon, <3>1, <3>2
  <2> QED BY Zenon, <2>1, <2>2, WorkersMove
<1>6. ASSUME NEW u \in Workers, Activates(u) \/ Renews(u)  PROVE Bound' /\ LeaseNamesBinding'
  <2>1. /\ worker[u].ses \in Sessions /\ session'[worker[u].ses].lease = worker[u].claim
        /\ session'[worker[u].ses].claim = session[worker[u].ses].claim
        /\ \A x \in Sessions : x # worker[u].ses => session'[x] = session[x]
    BY Zenon, <1>6, LeaseFields
  <2>2. worker[u].pc \in Binding /\ worker[u].pc # "create" /\ \A w \in Workers : ~Creates(w)
    <3>1. worker[u].pc \in {"activate", "commit"}
      BY Zenon, <1>6 DEF Activates, ActivateSession, Renews, RenewCommit
    <3>2. ASSUME NEW w \in Workers, Creates(w)  PROVE FALSE
      <4>1. worker'[u].pc = "idle" /\ worker[u].pc # "create"
        BY <1>6, <3>1 DEF Activates, ActivateSession, Renews, RenewCommit, Finish, Idle, Inv
      <4>2. worker[w].pc = "create" /\ worker'[w].pc = "load" /\ \A v \in Workers : v # w => worker'[v] = worker[v]
        BY Zenon, <3>2, CreateFields
      <4>3. u # w
        BY Zenon, <4>1, <4>2
      <4> QED BY ZenonT(30), <3>1, <4>1, <4>2, <4>3
    <3> QED BY Zenon, <3>1, <3>2 DEF Binding
  <2>3. session[worker[u].ses].claim = worker[u].claim
    BY Zenon, <1>1, <2>2
  <2>4. LeaseNamesBinding'
    BY Zenon, <1>1, <2>1, <2>3 DEF LeaseNamesBinding
  <2> QED BY Zenon, <1>5, <2>1, <2>2, <2>4
<1>7. ASSUME SessionsFade, \A w \in Workers : ~Creates(w)  PROVE Bound' /\ LeaseNamesBinding'
  BY Zenon, <1>1, <1>3, <1>5, <1>7 DEF SessionsFade, LeaseNamesBinding
<1>8. Bound' /\ LeaseNamesBinding'
  BY Zenon, <1>4, <1>6, <1>7, NextSessions
<1> QED BY Zenon, <1>2, <1>8 DEF BindingInv, Binding

\* The lease of a live session names the claim the session is bound to, whatever
\* calls fail or come late, workers crash, hosts register again and leases
\* expire: as long as the application lets one request of a session run at a
\* time, as activate and renew select their row without the claim.
THEOREM LeaseBound == ASSUME SingleFlight PROVE Spec => []LeaseNamesBinding
<1>1. Init => BindingInv
  <2> SUFFICES ASSUME Init  PROVE BindingInv
    BY Zenon
  <2>1. (\A w \in Workers : worker[w].pc = "idle") /\ \A s \in Sessions : session[s].state = "NONE"
    BY Zenon DEF Init, StoreInit, Idle
  <2> QED BY Zenon, <2>1 DEF BindingInv, LeaseNamesBinding
<1>2. Inv /\ BindingInv /\ [Next]_vars => BindingInv'
  BY Zenon, NextBinding
<1>3. BindingInv => LeaseNamesBinding
  BY Zenon DEF BindingInv
<1> QED BY <1>1, <1>2, <1>3, Invariance, PTL DEF Spec

-----------------------------------------------------------------------------
(* The sweep. *)

\* A claim that was released stays released.
LEMMA ReleasedStays ==
  ASSUME Inv, [Next]_vars, NEW c \in Claims
  PROVE  /\ claim[c].state = "RELEASED" => claim'[c].state = "RELEASED"
         /\ claim[c].state # "NONE" => claim'[c].slot = claim[c].slot
         /\ claim'[c].state = "ACTIVE" => claim[c].state \in {"NONE", "ACTIVE"}
<1>1. CASE ClaimsWane
  BY Zenon, <1>1 DEF ClaimsWane
<1>2. CASE \E w \in Workers, t \in Slots, d \in Claims : ClaimSlot(w, t, d)
  <2>1. PICK t \in Slots, d \in Claims : claim[d].state = "NONE" /\ ClaimReadySlot(t, d)
    BY Zenon, <1>2 DEF ClaimSlot
  <2>2. claim \in [Claims -> ClaimRow] /\ \A e \in Claims : e # d => claim'[e] = claim[e]
    BY Zenon, <2>1 DEF ClaimReadySlot, Inv, StoreInv, StoreTypeOK
  <2>3. CASE c = d
    BY Zenon, <2>1, <2>3
  <2>4. CASE c # d
    BY Zenon, <2>2, <2>4 DEF ClaimRow
  <2> QED BY Zenon, <2>3, <2>4
<1> QED BY Zenon, <1>1, <1>2, NextClaims

\* Only the reaper's own transaction adds to the outbox.
LEMMA OutboxShrinks ==
  ASSUME [Next]_vars
  PROVE  ReaperStep \/ (reaper' = reaper /\ outbox' \subseteq outbox)
<1>1. ASSUME NEW w \in Workers, Request(w) \/ WorkerCrash(w)  PROVE reaper' = reaper /\ outbox' \subseteq outbox
  BY Zenon, <1>1 DEF Request, WorkerCrash, StartAssign, StartRebind, StartRelease, StartInvalidate, StartRenew,
       storeVars
<1>2. ASSUME NEW w \in Workers, Serve(w)  PROVE reaper' = reaper /\ outbox' \subseteq outbox
  <2>1. reaper' = reaper
    BY Zenon, <1>2 DEF Serve, Lookup, ClaimRefused, ClaimSlot, RejectArtifact, Create, Abort, Load, LoadRefused,
         LoadTimesOut, ActivateSession, FinishSession, Unload, UnloadFails, Complete, RenewRead, RenewCommit
  <2>2. outbox' = outbox \/ \E s : outbox' = outbox \ {s}
    BY Zenon, <1>2 DEF Serve, Lookup, ClaimRefused, ClaimSlot, RejectArtifact, Create, Abort, Load, LoadRefused,
         LoadTimesOut, ActivateSession, FinishSession, Unload, UnloadFails, Complete, RenewRead, RenewCommit, storeVars,
         ClaimReadySlot, CreateSession, AbortClaim, Activate, CompleteReclaim, Renew
  <2> QED BY Zenon, <2>1, <2>2
<1>3. ASSUME NEW h \in Hosts, HostStep(h)  PROVE reaper' = reaper /\ outbox' \subseteq outbox
  BY Zenon, <1>3 DEF HostStep, Register, Beat, LifecycleFails, ExecutorRestart, DrainHost, ReportReady, ReportTimesOut,
       storeVars, RegisterHost, Heartbeat, Drain, SetReadiness
<1>4. ASSUME Time \/ UNCHANGED vars \/ (\E c \in Claims : LateBind(c)) \/ \E t \in Slots : LateReport(t)
      PROVE  reaper' = reaper /\ outbox' \subseteq outbox
  BY Zenon, <1>4 DEF Time, vars, LateBind, LateReport, storeVars, ExpireClaim, ExpireLease, BecomeIdle,
       HeartbeatLapses, SetReadiness
<1> QED BY Zenon, <1>1, <1>2, <1>3, <1>4 DEF Next

LEMMA NextSweep ==
  ASSUME ReleasesComplete, Inv, SweepInv, [Next]_vars
  PROVE  SweepInv'
<1>1. /\ reaper \in [pc : {"idle", "unload", "complete"}, todo : SUBSET Item, item : Item \cup {None}]
      /\ \A i \in reaper.todo : i.ses \in Sessions /\ i.claim \in Claims
  BY Zenon DEF Inv, EnvTypeOK, Item
<1>2. \A i \in reaper.todo : claim'[i.claim].state = "RELEASED"
  BY Zenon, <1>1, ReleasedStays DEF SweepInv
<1>3. CASE reaper' = reaper /\ outbox' \subseteq outbox
  BY Zenon, <1>2, <1>3 DEF SweepInv
<1>4. CASE Sweep
  <2> DEFINE R == Reclaimable("idle" \in Faults)
  <2>1. /\ reaper.pc = "idle" /\ FinishSessions(R) /\ outbox' = outbox \cup R
        /\ reaper' = [reaper EXCEPT !.pc = "unload", !.todo = Pending]
    BY Zenon, <1>4 DEF Sweep, ReclaimInstantSessions
  <2>2. outbox = {}
    BY Zenon, <2>1 DEF SweepInv
  <2>3. reaper'.pc = "unload" /\ reaper'.todo = Pending
    BY Zenon, <1>1, <2>1
  <2>4. \A s \in R : s \in Sessions /\ session[s].state \in Live
    BY Zenon DEF Reclaimable
  <2>5. session \in [Sessions -> SessionRow] /\ claim \in [Claims -> ClaimRow] /\ SessionsAndClaims
    BY Zenon DEF Inv, StoreInv, StoreTypeOK
  <2> HIDE DEF R
  <2>6. \A s \in R : session[s].claim \in Claims /\ claim[session[s].claim].state = "ACTIVE"
    BY Zenon, <2>4, <2>5 DEF SessionsAndClaims, Live
  <2>7. \A s \in R : session'[s].claim = session[s].claim
    BY SMTT(20), <2>1, <2>4, <2>5 DEF FinishSessions, SessionRow
  <2>8. ASSUME NEW s \in R  PROVE claim'[session[s].claim].state = "RELEASED"
    <3>1. claim'[session[s].claim] = [claim[session[s].claim] EXCEPT !.state = "RELEASED"]
      BY Zenon, <2>1, <2>6 DEF FinishSessions
    <3> QED BY <2>5, <2>6, <3>1 DEF ClaimRow
  <2>9. \A s \in outbox' : s \in R
    BY Zenon, <2>1, <2>2
  <2>10. \A i \in Pending : \E s \in outbox' : i.claim = session'[s].claim
    BY DEF Pending
  <2>11. \A s \in outbox' : \E i \in Pending : i.ses = s
    <3> SUFFICES ASSUME NEW s \in outbox'  PROVE \E i \in Pending : i.ses = s
      BY Zenon
    <3>1. [ses |-> s, claim |-> session'[s].claim, retry |-> s \in outbox] \in Pending
      BY Zenon DEF Pending
    <3>2. [ses |-> s, claim |-> session'[s].claim, retry |-> s \in outbox].ses = s
      BY Zenon
    <3> QED BY Zenon, <3>1, <3>2
  <2>12. \A i \in Pending : claim'[i.claim].state = "RELEASED"
    <3> SUFFICES ASSUME NEW i \in Pending  PROVE claim'[i.claim].state = "RELEASED"
      BY Zenon
    <3>1. PICK s \in outbox' : i.claim = session'[s].claim
      BY Zenon, <2>10
    <3> QED BY Zenon, <2>7, <2>8, <2>9, <3>1
  <2> QED BY Zenon, <2>3, <2>11, <2>12 DEF SweepInv
<1>5. CASE \E i \in reaper.todo : ReaperUnload(i) \/ ReaperUnloadFails(i)
  <2>1. PICK i \in reaper.todo : ReaperUnload(i)
    BY Zenon, <1>5 DEF ReaperUnloadFails, ReleasesComplete
  <2>2. reaper'.pc = "complete" /\ reaper'.todo = reaper.todo /\ outbox' = outbox
    BY Zenon, <1>1, <2>1 DEF ReaperUnload, storeVars
  <2> QED BY Zenon, <1>2, <2>2 DEF SweepInv
<1>6. CASE ReaperComplete
  <2> DEFINE rest == reaper.todo \ {reaper.item}
  <2>1. /\ outbox' = outbox \ {reaper.item.ses}
        /\ reaper' = IF rest = {} THEN Asleep ELSE [pc |-> "unload", todo |-> rest, item |-> None]
    BY Zenon, <1>6 DEF ReaperComplete, CompleteReclaim
  <2>2. reaper'.todo = rest /\ (reaper'.pc = "idle" => rest = {})
    BY Zenon, <2>1 DEF Asleep
  <2>3. \A s \in outbox' : \E i \in rest : i.ses = s
    BY Zenon, <2>1 DEF SweepInv
  <2> QED BY Zenon, <1>2, <2>2, <2>3 DEF SweepInv
<1>7. ~ReaperStops
  BY Zenon DEF ReaperStops, ReleasesComplete
<1> QED BY Zenon, <1>3, <1>4, <1>5, <1>6, <1>7, OutboxShrinks DEF ReaperStep

\* What a pass has ended itself stays ended.
LEMMA NextFenced ==
  ASSUME Inv, FencedInv, [Next]_vars
  PROVE  FencedInv'
<1>1. /\ reaper \in [pc : {"idle", "unload", "complete"}, todo : SUBSET Item, item : Item \cup {None}]
      /\ \A i \in reaper.todo : i.ses \in Sessions /\ i.claim \in Claims
  BY Zenon DEF Inv, EnvTypeOK, Item
<1>2. \A i \in reaper.todo : ~i.retry => claim'[i.claim].state = "RELEASED"
  BY Zenon, <1>1, ReleasedStays DEF FencedInv
<1>3. ASSUME reaper'.todo \subseteq reaper.todo  PROVE FencedInv'
  BY Zenon, <1>2, <1>3 DEF FencedInv
<1>4. CASE Sweep
  <2> DEFINE R == Reclaimable("idle" \in Faults)
  <2>1. /\ FinishSessions(R) /\ outbox' = outbox \cup R
        /\ reaper' = [reaper EXCEPT !.pc = "unload", !.todo = Pending]
    BY Zenon, <1>4 DEF Sweep, ReclaimInstantSessions
  <2>2. reaper'.todo = Pending
    BY Zenon, <1>1, <2>1
  <2>3. \A s \in R : s \in Sessions /\ session[s].state \in Live
    BY Zenon DEF Reclaimable
  <2>4. session \in [Sessions -> SessionRow] /\ claim \in [Claims -> ClaimRow] /\ SessionsAndClaims
    BY Zenon DEF Inv, StoreInv, StoreTypeOK
  <2> HIDE DEF R
  <2>5. \A s \in R : session[s].claim \in Claims /\ claim[session[s].claim].state = "ACTIVE"
    BY Zenon, <2>3, <2>4 DEF SessionsAndClaims, Live
  <2>6. \A s \in R : session'[s].claim = session[s].claim
    BY SMTT(20), <2>1, <2>3, <2>4 DEF FinishSessions, SessionRow
  <2>7. ASSUME NEW s \in R  PROVE claim'[session[s].claim].state = "RELEASED"
    <3>1. claim'[session[s].claim] = [claim[session[s].claim] EXCEPT !.state = "RELEASED"]
      BY Zenon, <2>1, <2>5 DEF FinishSessions
    <3> QED BY <2>4, <2>5, <3>1 DEF ClaimRow
  <2>8. ASSUME NEW i \in Pending, ~i.retry  PROVE claim'[i.claim].state = "RELEASED"
    <3>1. PICK s \in outbox' : i = [ses |-> s, claim |-> session'[s].claim, retry |-> s \in outbox]
      BY Zenon, <2>8 DEF Pending
    <3>2. i.claim = session'[s].claim /\ s \notin outbox
      BY Zenon, <2>8, <3>1
    <3>3. s \in R
      BY Zenon, <2>1, <3>1, <3>2
    <3> QED BY Zenon, <2>6, <2>7, <3>2, <3>3
  <2> QED BY Zenon, <2>2, <2>8 DEF FencedInv
<1>5. ASSUME NEW i \in reaper.todo, ReaperUnload(i) \/ ReaperUnloadFails(i)  PROVE reaper'.todo \subseteq reaper.todo
  <2>1. CASE ReaperUnload(i)
    <3>1. reaper'.todo = reaper.todo
      BY Zenon, <1>1, <2>1 DEF ReaperUnload
    <3> QED BY <3>1
  <2>2. CASE ReaperUnloadFails(i)
    <3>1. reaper'.todo = {}
      BY Zenon, <2>2 DEF ReaperUnloadFails, Asleep
    <3> QED BY <3>1
  <2> QED BY Zenon, <1>5, <2>1, <2>2
<1>6. ASSUME ReaperComplete \/ ReaperStops  PROVE reaper'.todo \subseteq reaper.todo
  <2> DEFINE rest == reaper.todo \ {reaper.item}
  <2>1. reaper'.todo = {} \/ reaper'.todo = rest
    <3>1. \/ reaper' = Asleep
          \/ reaper' = [pc |-> "unload", todo |-> rest, item |-> None]
      BY Zenon, <1>6 DEF ReaperComplete, ReaperStops
    <3>2. Asleep.todo = {} /\ [pc |-> "unload", todo |-> rest, item |-> None].todo = rest
      BY Zenon DEF Asleep
    <3> HIDE DEF rest
    <3> QED BY Zenon, <3>1, <3>2
  <2> QED BY <2>1
<1> QED BY Zenon, <1>3, <1>4, <1>5, <1>6, OutboxShrinks DEF ReaperStep

\* A binding that a pass of the reaper has ended is released at its executor
\* without harm to any live one, although sessions come back between the fence
\* and the call, calls fail and passes break off: every fault is allowed.  Only a
\* row left over from an earlier pass is excepted, for the next pass reads the
\* session's current claim with it.
THEOREM FirstReleaseSpares == Spec => []FirstReleaseSparesLive
<1>1. Init => FencedInv
  <2> SUFFICES ASSUME Init  PROVE FencedInv
    BY Zenon
  <2>1. reaper.todo = {}
    BY Zenon DEF Init, Asleep
  <2> QED BY Zenon, <2>1 DEF FencedInv
<1>2. Inv /\ FencedInv /\ [Next]_vars => FencedInv'
  BY Zenon, NextFenced
<1>3. Inv /\ FencedInv => FirstReleaseSparesLive
  <2> SUFFICES ASSUME Inv, FencedInv, NEW i \in reaper.todo, ~i.retry, NEW s \in Sessions,
                      session[s].state \in Live, session[s].claim = i.claim
               PROVE  FALSE
    BY Zenon DEF FirstReleaseSparesLive
  <2>1. claim[session[s].claim].state = "ACTIVE"
    BY Zenon DEF Inv, StoreInv, SessionsAndClaims
  <2> QED BY Zenon, <2>1 DEF FencedInv
<1> QED BY <1>1, <1>2, <1>3, Invariance, PTL DEF Spec

-----------------------------------------------------------------------------
(* Executors. *)

\* Releases are carried out and no executor restarts.
ExecutorsStay == ReleasesComplete /\ "restart" \notin Faults

\* An executor keeps what it has bound, but for the claims it is told to release,
\* and those are over.
LEMMA BoundKept ==
  ASSUME ExecutorsStay, Inv, SweepInv, LoadedInv, [Next]_vars, NEW c \in Claims, claim[c].state = "ACTIVE",
         c \in bound[HostOfClaim(c)]
  PROVE  c \in bound'[HostOfClaim(c)]
<1>1. bound \in [Hosts -> SUBSET Claims] /\ HostOfClaim(c) \in Hosts
  BY Zenon, StoreAssumption DEF Inv, EnvTypeOK, HostOfClaim, SlotOf, StoreInv, ClaimsAndSlots
<1>2. ASSUME NEW d, Bind(d)  PROVE c \in bound'[HostOfClaim(c)]
  BY Zenon, <1>1, <1>2 DEF Bind
<1>3. ASSUME NEW d, Unbind(d), c # d  PROVE c \in bound'[HostOfClaim(c)]
  BY Zenon, <1>1, <1>3 DEF Unbind
<1>4. ASSUME NEW w \in Workers, Unload(w)  PROVE c # worker[w].claim /\ Unbind(worker[w].claim)
  BY Zenon, <1>4 DEF Unload, LoadedInv
<1>5. ASSUME NEW i \in reaper.todo, ReaperUnload(i)  PROVE c # i.claim /\ Unbind(i.claim)
  BY Zenon, <1>5 DEF ReaperUnload, SweepInv
<1>6. ASSUME NEW w \in Workers, Request(w) \/ WorkerCrash(w)  PROVE bound' = bound
  BY Zenon, <1>6 DEF Request, WorkerCrash, StartAssign, StartRebind, StartRelease, StartInvalidate, StartRenew,
       executorVars
<1>7. ASSUME NEW w \in Workers, Serve(w)  PROVE bound' = bound \/ Bind(worker[w].claim) \/ Unload(w)
  BY Zenon, <1>7 DEF Serve, Lookup, ClaimRefused, ClaimSlot, RejectArtifact, Create, Abort, Load, LoadRefused,
       LoadTimesOut, ActivateSession, FinishSession, UnloadFails, Complete, RenewRead, RenewCommit, executorVars,
       ExecutorsStay, ReleasesComplete
<1>8. ASSUME NEW h \in Hosts, HostStep(h)  PROVE bound' = bound
  BY Zenon, <1>8 DEF HostStep, Register, Beat, LifecycleFails, ExecutorRestart, DrainHost, ReportReady, ReportTimesOut,
       executorVars, ExecutorsStay
<1>9. ASSUME ReaperStep  PROVE bound' = bound \/ \E i \in reaper.todo : ReaperUnload(i)
  BY Zenon, <1>9 DEF ReaperStep, Sweep, ReaperUnloadFails, ReaperComplete, ReaperStops, executorVars
<1>10. ASSUME Time \/ UNCHANGED vars \/ (\E d \in Claims : LateBind(d)) \/ \E t \in Slots : LateReport(t)
       PROVE  bound' = bound \/ \E d : Bind(d)
  BY Zenon, <1>10 DEF Time, vars, LateBind, LateReport, executorVars
<1>11. bound' = bound => c \in bound'[HostOfClaim(c)]
  BY Zenon
<1> QED BY ZenonT(30), <1>2, <1>3, <1>4, <1>5, <1>6, <1>7, <1>8, <1>9, <1>10, <1>11 DEF Next

\* A claim that is active and was made before this step was active before it and
\* is where it was.
LEMMA ActiveBefore ==
  ASSUME Inv, [Next]_vars, NEW c \in Claims, claim[c].state # "NONE", claim'[c].state = "ACTIVE"
  PROVE  claim[c].state = "ACTIVE" /\ claim'[c].slot = claim[c].slot
<1>1. claim'[c].slot = claim[c].slot /\ claim[c].state \in {"NONE", "ACTIVE"}
  BY Zenon, ReleasedStays
<1> QED BY Zenon, <1>1

LEMMA NextLoaded ==
  ASSUME ExecutorsStay, Inv, BindingInv, SweepInv, LoadedInv, [Next]_vars
  PROVE  LoadedInv'
<1>1. /\ session \in [Sessions -> SessionRow] /\ claim \in [Claims -> ClaimRow] /\ SessionsAndClaims /\ WorkersNameRows
      /\ bound \in [Hosts -> SUBSET Claims]
  BY Zenon DEF Inv, StoreInv, StoreTypeOK, EnvTypeOK
<1>2. \A w \in Workers : \/ worker'[w] = worker[w] \/ Ends(w) \/ GoesOn(w) \/ Starts(w)
  BY Zenon, WorkersMove DEF Moves
<1>3. ASSUME NEW w \in Workers, worker'[w].pc = "unload"  PROVE claim'[worker'[w].claim].state = "RELEASED"
  <2>1. CASE worker'[w] = worker[w]
    BY Zenon, <1>1, <1>3, <2>1, ReleasedStays DEF LoadedInv, WorkersNameRows
  <2>2. CASE GoesOn(w)
    <3> DEFINE s == worker[w].ses
               c == session[s].claim
    <3>1. worker'[w].claim = c /\ FinishSessions({s}) /\ s \in Sessions /\ session[s].state # "NONE"
      BY Zenon, <1>1, <1>3, <2>2 DEF GoesOn, WorkersNameRows
    <3>2. c \in Claims /\ claim[c].state # "NONE" /\ claim[c] \in ClaimRow
      BY Zenon, <1>1, <3>1 DEF SessionsAndClaims
    <3>3. claim'[c] = IF claim[c].state = "ACTIVE" THEN [claim[c] EXCEPT !.state = "RELEASED"] ELSE claim[c]
      BY Zenon, <3>1, <3>2 DEF FinishSessions
    <3> HIDE DEF c
    <3>4. claim'[c].state = "RELEASED"
      BY Zenon, <3>2, <3>3 DEF ClaimRow
    <3> QED BY Zenon, <3>1, <3>4
  <2>3. ~Ends(w) /\ ~Starts(w)
    BY Zenon, <1>3 DEF Ends, Starts
  <2> QED BY Zenon, <1>2, <2>1, <2>2, <2>3
<1>4. ASSUME NEW w \in Workers, worker'[w].pc = "activate", claim'[worker'[w].claim].state = "ACTIVE"
      PROVE  worker'[w].claim \in bound'[HostOf[claim'[worker'[w].claim].slot]]
  <2>1. CASE worker'[w] = worker[w]
    <3> DEFINE c == worker[w].claim
    <3>1. c \in Claims /\ worker[w].ses \in Sessions /\ session[worker[w].ses].claim = c /\ None \notin Claims
      BY Zenon, <1>1, <1>4, <2>1, StoreAssumption DEF BindingInv, WorkersNameRows
    <3>2. claim[c].state # "NONE"
      BY ZenonT(30), <1>1, <3>1 DEF SessionsAndClaims
    <3> HIDE DEF c
    <3>3. claim'[c].state = "ACTIVE"
      BY Zenon, <1>4, <2>1 DEF c
    <3>4. claim[c].state = "ACTIVE" /\ claim'[c].slot = claim[c].slot
      BY Zenon, <3>1, <3>2, <3>3, ActiveBefore
    <3>5. c \in bound[HostOfClaim(c)]
      BY Zenon, <1>4, <2>1, <3>4 DEF LoadedInv, c
    <3>6. c \in bound'[HostOfClaim(c)]
      BY Zenon, <3>1, <3>4, <3>5, BoundKept
    <3> QED BY Zenon, <2>1, <3>4, <3>6 DEF c, HostOfClaim, SlotOf
  <2>2. CASE GoesOn(w)
    <3> DEFINE c == worker[w].claim
    <3>1. Load(w) /\ c \in Claims /\ worker'[w].claim = c /\ claim' = claim
      BY Zenon, <1>1, <1>4, <2>2 DEF GoesOn, WorkersNameRows, Load, Binding, storeVars
    <3>2. HostOfClaim(c) \in Hosts
      BY Zenon, <1>4, <3>1, StoreAssumption DEF HostOfClaim, SlotOf, Inv, StoreInv, ClaimsAndSlots
    <3>3. c \in bound'[HostOfClaim(c)]
      BY Zenon, <1>1, <3>1, <3>2 DEF Load, Bind
    <3> QED BY Zenon, <3>1, <3>3 DEF HostOfClaim, SlotOf
  <2>3. ~Ends(w) /\ ~Starts(w)
    BY Zenon, <1>4 DEF Ends, Starts
  <2> QED BY Zenon, <1>2, <2>1, <2>2, <2>3
<1>5. ASSUME NEW s \in Sessions, session'[s].state = "ACTIVE"
      PROVE  session'[s].claim \in bound'[HostOf[claim'[session'[s].claim].slot]]
  <2> DEFINE c == session[s].claim
  <2>1. ASSUME session'[s].claim = c, c \in Claims, claim[c].state = "ACTIVE", c \in bound[HostOfClaim(c)]
        PROVE  session'[s].claim \in bound'[HostOf[claim'[session'[s].claim].slot]]
    <3> HIDE DEF c
    <3>1. claim'[c].state = "ACTIVE"
      <4>1. claim'[session'[s].claim].state = "ACTIVE"
        BY Zenon, <1>5, NextInv DEF Inv, StoreInv, SessionsAndClaims, Live
      <4> QED BY Zenon, <2>1, <4>1
    <3>2. claim'[c].slot = claim[c].slot
      <4>1. claim[c].state # "NONE"
        BY Zenon, <2>1
      <4> QED BY Zenon, <2>1, <3>1, <4>1, ActiveBefore
    <3>3. c \in bound'[HostOfClaim(c)]
      BY Zenon, <2>1, BoundKept
    <3> QED BY Zenon, <2>1, <3>2, <3>3 DEF HostOfClaim, SlotOf
  <2>2. session[s].state = "ACTIVE" => c \in Claims /\ claim[c].state = "ACTIVE" /\ c \in bound[HostOfClaim(c)]
    BY Zenon, <1>1 DEF SessionsAndClaims, Live, LoadedInv, ActiveIsBound
  <2>3. CASE SessionsFade
    <3>1. session'[s].claim = c /\ session[s].state = "ACTIVE"
      BY Zenon, <1>5, <2>3 DEF SessionsFade
    <3> QED BY Zenon, <2>1, <2>2, <3>1
  <2>4. ASSUME NEW w \in Workers, Creates(w)  PROVE session'[s].claim = c /\ session[s].state = "ACTIVE"
    BY Zenon, <1>5, <2>4, CreateFields
  <2>5. ASSUME NEW w \in Workers, Activates(w) \/ Renews(w), s # worker[w].ses
        PROVE  session'[s].claim = c /\ session[s].state = "ACTIVE"
    BY Zenon, <1>5, <2>5, LeaseFields
  <2>6. ASSUME NEW w \in Workers, Renews(w), s = worker[w].ses
        PROVE  session'[s].claim = c /\ session[s].state = "ACTIVE"
    BY Zenon, <2>6, LeaseFields DEF Renews, RenewOK
  <2>7. ASSUME NEW w \in Workers, Activates(w), s = worker[w].ses
        PROVE  session'[s].claim = c /\ c \in Claims /\ claim[c].state = "ACTIVE" /\ c \in bound[HostOfClaim(c)]
    <3>1. session'[s].claim = c /\ worker[w].pc = "activate" /\ claim[c].state = "ACTIVE"
      BY Zenon, <2>7, LeaseFields DEF Activates, ActivateSession, ActivateOK
    <3>2. worker[w].claim = c /\ worker[w].claim \in Claims
      BY Zenon, <1>1, <2>7, <3>1 DEF BindingInv, WorkersNameRows
    <3> QED BY Zenon, <3>1, <3>2 DEF LoadedInv
  <2> QED BY Zenon, <2>1, <2>2, <2>3, <2>4, <2>5, <2>6, <2>7, NextSessions
<1> QED BY Zenon, <1>3, <1>4, <1>5 DEF LoadedInv, ActiveIsBound, HostOfClaim, SlotOf

\* An ACTIVE session's assignment is bound at its executor, whatever calls come
\* late, workers crash, hosts register again or drain and leases expire: activate
\* follows the executor's answer, and a release names a claim that is over.
THEOREM ActiveBound ==
  ASSUME SingleFlight, ExecutorsStay PROVE Spec => []ActiveIsBound
<1>1. Init => BindingInv /\ SweepInv /\ LoadedInv
  <2> SUFFICES ASSUME Init  PROVE BindingInv /\ SweepInv /\ LoadedInv
    BY Zenon
  <2>1. (\A w \in Workers : worker[w].pc = "idle") /\ \A s \in Sessions : session[s].state = "NONE"
    BY Zenon DEF Init, StoreInit, Idle
  <2>2. reaper.todo = {} /\ outbox = {}
    BY Zenon DEF Init, StoreInit, Asleep
  <2>3. BindingInv
    BY Zenon, <2>1 DEF BindingInv, LeaseNamesBinding
  <2>4. SweepInv
    BY Zenon, <2>2 DEF SweepInv
  <2>5. LoadedInv
    BY Zenon, <2>1 DEF LoadedInv, ActiveIsBound
  <2> QED BY Zenon, <2>3, <2>4, <2>5
<1>2. Inv /\ (BindingInv /\ SweepInv /\ LoadedInv) /\ [Next]_vars => (BindingInv /\ SweepInv /\ LoadedInv)'
  BY Zenon, NextBinding, NextSweep, NextLoaded DEF ExecutorsStay
<1>3. LoadedInv => ActiveIsBound
  BY Zenon DEF LoadedInv
<1> QED BY <1>1, <1>2, <1>3, Invariance, PTL DEF Spec
=============================================================================
