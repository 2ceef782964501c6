--------------------------- MODULE WebClientProofs ---------------------------
(***************************************************************************)
(* Proofs about WebClient, for any number of sockets, attempts and runs of *)
(* the effect: the two invariants of run web_client.                       *)
(***************************************************************************)
EXTENDS WebClient, FiniteSetTheorems, TLAPS

-----------------------------------------------------------------------------
(* The inductive invariant.                                                *)

\* Sockets and timeouts are as many as the runs of the effect, at most.
Chains == IsFiniteSet(Alive) /\ NeverForks

IInv == TypeOK /\ Chains

\* Sockets that connect or close change Alive by one.
LEMMA ConnectAlive ==
  ASSUME TypeOK, Chains, Connect
  PROVE  /\ readyState' \in [Socket -> {"connecting", "open", "closing", "closed"}]
         /\ subscribed' \in [Socket -> Nat]
         /\ ws' \in Socket
         /\ Alive' = Alive \cup {ws'}
         /\ IsFiniteSet(Alive') /\ Cardinality(Alive') = Cardinality(Alive) + 1
<1>1. PICK s \in Socket :
        /\ readyState[s] = "closed"
        /\ readyState' = [readyState EXCEPT ![s] = "connecting"]
        /\ subscribed' = [subscribed EXCEPT ![s] = 0]
        /\ ws' = s
  BY DEF Connect
<1>2. /\ readyState' \in [Socket -> {"connecting", "open", "closing", "closed"}]
      /\ subscribed' \in [Socket -> Nat]
     
  BY <1>1 DEF TypeOK
<1>3. s \notin Alive /\ Alive' = Alive \cup {s}
  BY <1>1 DEF Alive, TypeOK
<1>4. IsFiniteSet(Alive') /\ Cardinality(Alive') = Cardinality(Alive) + 1
  BY <1>3, FS_AddElement DEF Chains
<1> QED  BY <1>1, <1>2, <1>3, <1>4

LEMMA InitInv == Init => IInv
<1> SUFFICES ASSUME Init PROVE IInv
  OBVIOUS
<1>1. TypeOK
  <2>1. 0 \in 0..maxReconnectAttempts /\ 0 \in 0..MaxMounts
    BY BoundsAssumption
  <2> QED  BY <2>1 DEF Init, TypeOK
<1>2. Alive = {}
  BY DEF Init, Alive
<1>3. Chains
  BY <1>2, FS_EmptySet DEF Init, Chains, NeverForks
<1> QED  BY <1>1, <1>3 DEF IInv

LEMMA MountStep == IInv /\ Mount => IInv'
<1> SUFFICES ASSUME IInv, Mount PROVE IInv'
  OBVIOUS
<1> USE DEF IInv
<1>1. /\ mounts < MaxMounts /\ mounts' = mounts + 1 /\ mounted' = TRUE
      /\ UNCHANGED <<reconnectAttempts, scheduled, up>> /\ Connect
  BY DEF Mount
<1>2. /\ readyState' \in [Socket -> {"connecting", "open", "closing", "closed"}]
      /\ subscribed' \in [Socket -> Nat]
      /\ ws' \in Socket
      /\ Alive' = Alive \cup {ws'}
      /\ IsFiniteSet(Alive') /\ Cardinality(Alive') = Cardinality(Alive) + 1
  BY <1>1, ConnectAlive
<1>3. mounts \in Nat /\ mounts' \in 0..MaxMounts /\ scheduled \in Nat
  BY <1>1, BoundsAssumption DEF TypeOK
<1>4. TypeOK'
  BY <1>1, <1>2, <1>3 DEF TypeOK, Alive
<1>5. Chains'
  <2>1. Cardinality(Alive) \in Nat
    BY FS_CardinalityType DEF Chains
  <2> QED  BY <1>1, <1>2, <1>3, <2>1 DEF Chains, NeverForks
<1> QED  BY <1>4, <1>5

LEMMA ReconnectStep == IInv /\ Reconnect => IInv'
<1> SUFFICES ASSUME IInv, Reconnect PROVE IInv'
  OBVIOUS
<1> USE DEF IInv
<1>1. /\ scheduled > 0 /\ scheduled' = scheduled - 1
      /\ UNCHANGED <<reconnectAttempts, up, mounted, mounts>> /\ Connect
  BY DEF Reconnect
<1>2. /\ readyState' \in [Socket -> {"connecting", "open", "closing", "closed"}]
      /\ subscribed' \in [Socket -> Nat]
      /\ ws' \in Socket
      /\ Alive' = Alive \cup {ws'}
      /\ IsFiniteSet(Alive') /\ Cardinality(Alive') = Cardinality(Alive) + 1
  BY <1>1, ConnectAlive
<1>3. scheduled \in Nat /\ mounts \in Nat
  BY BoundsAssumption DEF TypeOK
<1>4. TypeOK'
  BY <1>1, <1>2, <1>3 DEF TypeOK, Alive
<1>5. Chains'
  <2>1. Cardinality(Alive) \in Nat
    BY FS_CardinalityType DEF Chains
  <2> QED  BY <1>1, <1>2, <1>3, <2>1 DEF Chains, NeverForks
<1> QED  BY <1>4, <1>5

LEMMA OpenStep ==
  ASSUME IInv, NEW s \in Socket, Open(s)
  PROVE  IInv'
<1> USE DEF IInv
<1>1. /\ readyState[s] = "connecting"
      /\ readyState' = [readyState EXCEPT ![s] = "open"]
      /\ reconnectAttempts' = 0
      /\ subscribed' = IF ws # NoSocket /\ readyState'[ws] = "open"
                       THEN [subscribed EXCEPT ![ws] = @ + 1] ELSE subscribed
      /\ UNCHANGED <<ws, scheduled, up, mounted, mounts>>
  BY DEF Open, Send
<1>2. Alive' = Alive /\ s \in Alive
  BY <1>1 DEF Alive, TypeOK
<1>3. subscribed' \in [Socket -> Nat]
  BY <1>1 DEF TypeOK
<1>4. TypeOK'
  BY <1>1, <1>3, BoundsAssumption DEF TypeOK
<1>5. Chains'
  BY <1>1, <1>2 DEF Chains, NeverForks
<1> QED  BY <1>4, <1>5

LEMMA ClosedStep ==
  ASSUME IInv, NEW s \in Socket, Closed(s)
  PROVE  IInv'
<1> USE DEF IInv
<1>1. /\ readyState' = [readyState EXCEPT ![s] = "closed"]
      /\ Retry
      /\ UNCHANGED <<ws, subscribed, up, mounted, mounts>>
  BY DEF Closed
<1>2. s \in Alive
  BY DEF Closed, Alive
<1>3. /\ Alive' = Alive \ {s}
      /\ \A t \in Alive' : readyState'[t] = readyState[t]
  BY <1>1 DEF Alive, TypeOK
<1>4. /\ IsFiniteSet(Alive') /\ Cardinality(Alive') = Cardinality(Alive) - 1
      /\ Cardinality(Alive) \in Nat
  BY <1>2, <1>3, FS_RemoveElement, FS_CardinalityType DEF Chains
<1>5. scheduled \in Nat /\ scheduled' \in Nat /\ scheduled' <= scheduled + 1
  BY <1>1 DEF Retry, TypeOK
<1>6. reconnectAttempts' \in 0..maxReconnectAttempts
  BY <1>1, BoundsAssumption DEF Retry, TypeOK
<1>7. TypeOK'
  BY <1>1, <1>5, <1>6 DEF TypeOK
<1>8. Chains'
  <2>1. mounts \in Nat
    BY BoundsAssumption DEF TypeOK
  <2> QED  BY <1>1, <1>4, <1>5, <2>1 DEF Chains, NeverForks
<1> QED  BY <1>7, <1>8

LEMMA UnmountStep == IInv /\ Unmount => IInv'
<1> SUFFICES ASSUME IInv, Unmount PROVE IInv'
  OBVIOUS
<1> USE DEF IInv
<1>1. /\ readyState' = IF ws \in Alive THEN [readyState EXCEPT ![ws] = "closing"]
                       ELSE readyState
      /\ ws' = NoSocket /\ mounted' = FALSE
      /\ UNCHANGED <<reconnectAttempts, scheduled, subscribed, up, mounts>>
  BY DEF Unmount
<1>2. Alive' = Alive
  BY <1>1 DEF Alive, TypeOK
<1>3. TypeOK'
  BY <1>1 DEF TypeOK
<1>4. Chains'
  BY <1>1, <1>2 DEF Chains, NeverForks
<1> QED  BY <1>3, <1>4

LEMMA NextInv == IInv /\ [Next]_vars => IInv'
<1> SUFFICES ASSUME IInv, [Next]_vars PROVE IInv'
  OBVIOUS
<1>1. CASE Gateway \/ UNCHANGED vars
  <2>1. up' \in BOOLEAN /\
        UNCHANGED <<ws, reconnectAttempts, scheduled, readyState, subscribed,
                    mounted, mounts>>
    BY <1>1 DEF Gateway, vars, IInv, TypeOK
  <2>2. Alive' = Alive
    BY <2>1 DEF Alive
  <2> QED
    BY <2>1, <2>2 DEF IInv, TypeOK, Chains, NeverForks
<1>2. CASE \E s \in Socket : Open(s) \/ Closed(s)
  BY <1>2, OpenStep, ClosedStep
<1> QED  BY <1>1, <1>2, MountStep, UnmountStep, ReconnectStep DEF Next

-----------------------------------------------------------------------------
(* The theorems.                                                           *)

\* IInv holds in every state of the client (services/ws.ts, app/App.tsx).
THEOREM ClientInvariance == Spec => []IInv
<1> QED  BY InitInv, NextInv, PTL DEF Spec

\* Every variable of the client keeps its type; reconnectAttempts never exceeds
\* maxReconnectAttempts (ws.ts:40).
THEOREM ClientTypeCorrect == Spec => []TypeOK
<1>1. IInv => TypeOK
  BY DEF IInv
<1> QED  BY <1>1, ClientInvariance, PTL

\* However often connections are lost, closed and retried (ws.ts:36-48), a run
\* of the effect leaves one socket or one timeout, and no more.
THEOREM ReconnectsNeverFork == Spec => []NeverForks
<1>1. IInv => NeverForks
  BY DEF IInv, Chains
<1> QED  BY <1>1, ClientInvariance, PTL

=============================================================================
