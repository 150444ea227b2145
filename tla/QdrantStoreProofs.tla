-------------------------- MODULE QdrantStoreProofs --------------------------
(* For every number of goroutines, upserts, attempts and outages: reconnects *)
(* that overlap leave the store with an open client, and a nil or closed one *)
(* is met only while another goroutine is replacing it.                      *)
EXTENDS QdrantStore, TLAPS

USE StoreAssumption

LEMMA InitInv == Init => IInv
<1> SUFFICES ASSUME Init PROVE IInv
  OBVIOUS
<1>1. /\ "check" \in Places /\ "none" \in Reasons /\ 0 < MaxAttempts
      /\ 0 \in 0..Requests /\ 0 \in 0..MaxAttempts /\ 0 \in 0..MaxOutages
      /\ 0 \in 0..1 /\ 1 \in 0..1 /\ {1} \subseteq 1..1 /\ 1 \in Nat \ {0}
  BY DEF Places, Reasons
<1> QED
  BY <1>1 DEF Init, IInv, TypeOK, CountsOK, SomeoneRepairs, Nil

\* A step of a caller that leaves the connection alone, and was and is not
\* reconnecting, cannot take away the goroutine that repairs.
LEMMA RepairKept ==
  ASSUME SomeoneRepairs, UNCHANGED connVars, NEW c \in Callers, NEW l, NEW S,
         pc \in [Callers -> S], pc' = [pc EXCEPT ![c] = l],
         pc[c] \notin Reconnecting
  PROVE  SomeoneRepairs'
<1>1. client' = client /\ open' = open
  BY DEF connVars
<1>2. ASSUME NEW d \in Callers, pc[d] \in Reconnecting
      PROVE  pc'[d] = pc[d]
  BY <1>2
<1> QED
  BY <1>1, <1>2 DEF SomeoneRepairs, Reconnecting

\* A step of a caller moves that caller only, and to a place where an attempt and
\* an upsert are left if they have to be.
Moves(c, l, r, h, s, a) ==
    /\ l \in Places /\ r \in Reasons
    /\ h \in 0..made /\ s \in 0..Requests /\ a \in 0..MaxAttempts
    /\ l # "failed" => a < MaxAttempts
    /\ l \in {"read", "upsert"} => s < Requests
    /\ pc' = [pc EXCEPT ![c] = l]
    /\ why' = [why EXCEPT ![c] = r]
    /\ handle' = [handle EXCEPT ![c] = h]
    /\ sent' = [sent EXCEPT ![c] = s]
    /\ attempt' = [attempt EXCEPT ![c] = a]

CallTypes ==
    /\ pc \in [Callers -> Places]
    /\ why \in [Callers -> Reasons]
    /\ handle \in [Callers -> 0..made]
    /\ sent \in [Callers -> 0..Requests]
    /\ attempt \in [Callers -> 0..MaxAttempts]

ConnTypes ==
    /\ made \in Nat \ {0} /\ client \in 0..made /\ open \subseteq 1..made

LEMMA CallerMoves ==
  ASSUME CallTypes, ConnTypes, CountsOK, NEW c \in Callers, Store(c)
  PROVE  \E l, r, h, s, a : Moves(c, l, r, h, s, a)
<1> USE DEF CallTypes, Goto, Fail, Nil
<1>0. /\ why = [why EXCEPT ![c] = why[c]] /\ handle = [handle EXCEPT ![c] = handle[c]]
      /\ sent = [sent EXCEPT ![c] = sent[c]]
      /\ attempt = [attempt EXCEPT ![c] = attempt[c]]
      /\ why[c] \in Reasons /\ handle[c] \in 0..made
      /\ sent[c] \in 0..Requests /\ attempt[c] \in 0..MaxAttempts
      /\ pc[c] # "failed" => attempt[c] < MaxAttempts
      /\ pc[c] \in {"read", "upsert"} => sent[c] < Requests
  BY DEF CountsOK
<1>n. 0 \in 0..Requests /\ 0 < Requests /\ 0 \in 0..MaxAttempts /\ 0 < MaxAttempts
  OBVIOUS
<1>p. /\ {"check", "read", "upsert", "wait", "close", "nil", "connect", "ok", "failed", "panic"}
             \subseteq Places
      /\ {"not connected", "nil client", "attempts", "rejected", "context"} \subseteq Reasons
  BY DEF Places, Reasons, Reconnecting, Ended
<1>1. CASE Check(c)
  <2>1. CASE client = Nil
    <3>1. Moves(c, "failed", "not connected", handle[c], 0, attempt[c])
      BY <1>0, <1>n, <1>p, <1>1, <2>1 DEF Check, Moves
    <3> QED
      BY <3>1
  <2>2. CASE client # Nil
    <3>1. Moves(c, "read", why[c], handle[c], 0, attempt[c])
      BY <1>0, <1>n, <1>p, <1>1, <2>2 DEF Check, Moves
    <3> QED
      BY <3>1
  <2> QED
    BY <2>1, <2>2
<1>2. CASE Read(c)
  <2>1. CASE client = Nil
    <3>1. Moves(c, "panic", "nil client", handle[c], sent[c], attempt[c])
      BY <1>0, <1>p, <1>2, <2>1 DEF Read, Moves
    <3> QED
      BY <3>1
  <2>2. CASE client # Nil
    <3>1. Moves(c, "upsert", why[c], client, sent[c], attempt[c])
      BY <1>0, <1>p, <1>2, <2>2 DEF Read, Moves, ConnTypes
    <3> QED
      BY <3>1
  <2> QED
    BY <2>1, <2>2
<1>3. CASE Answered(c)
  <2>1. sent' = [sent EXCEPT ![c] = sent[c] + 1] /\ sent[c] + 1 \in 0..Requests
    BY <1>0, <1>3 DEF Answered
  <2>2. sent'[c] = sent[c] + 1
    BY <2>1
  <2>3. CASE sent[c] + 1 = Requests
    <3>1. Moves(c, "ok", why[c], handle[c], sent[c] + 1, attempt[c])
      BY <1>0, <1>p, <1>3, <2>1, <2>2, <2>3 DEF Answered, Moves
    <3> QED
      BY <3>1
  <2>4. CASE sent[c] + 1 # Requests
    <3>0. sent[c] + 1 < Requests
      BY <2>1, <2>4
    <3>1. Moves(c, "read", why[c], handle[c], sent[c] + 1, attempt[c])
      BY <1>0, <1>p, <1>3, <2>1, <2>2, <2>4, <3>0 DEF Answered, Moves
    <3> QED
      BY <3>1
  <2> QED
    BY <2>3, <2>4
<1>4. CASE ConnError(c)
  <2>1. attempt' = [attempt EXCEPT ![c] = attempt[c] + 1] /\ attempt[c] + 1 \in 0..MaxAttempts
    BY <1>0, <1>4 DEF ConnError
  <2>2. attempt'[c] = attempt[c] + 1
    BY <2>1
  <2>3. CASE attempt[c] + 1 >= MaxAttempts
    <3>1. Moves(c, "failed", "attempts", handle[c], sent[c], attempt[c] + 1)
      BY <1>0, <1>p, <1>4, <2>1, <2>2, <2>3 DEF ConnError, LastAttempt, Moves
    <3> QED
      BY <3>1
  <2>4. CASE ~(attempt[c] + 1 >= MaxAttempts)
    <3>0. attempt[c] + 1 < MaxAttempts
      BY <2>1, <2>4
    <3>1. Moves(c, "wait", why[c], handle[c], sent[c], attempt[c] + 1)
      BY <1>0, <1>p, <1>4, <2>1, <2>2, <2>4, <3>0 DEF ConnError, LastAttempt, Moves
    <3> QED
      BY <3>1
  <2> QED
    BY <2>3, <2>4
<1>5. CASE Rejected(c)
  <2>1. Moves(c, "failed", "rejected", handle[c], sent[c], attempt[c])
    BY <1>0, <1>p, <1>5 DEF Rejected, Moves
  <2> QED
    BY <2>1
<1>6. CASE GiveUp(c)
  <2>1. Moves(c, "failed", "context", handle[c], sent[c], attempt[c])
    BY <1>0, <1>p, <1>6 DEF GiveUp, Moves
  <2> QED
    BY <2>1
<1>7. CASE Reconnect(c)
  <2>1. Moves(c, IF client = Nil THEN "connect" ELSE "close", why[c], handle[c], sent[c], attempt[c])
    BY <1>0, <1>p, <1>7 DEF Reconnect, Moves
  <2> QED
    BY <2>1
<1>a. CASE Close(c)
  <2>1. CASE client = Nil
    <3>1. Moves(c, "panic", "nil client", handle[c], sent[c], attempt[c])
      BY <1>0, <1>p, <1>a, <2>1 DEF Close, Moves
    <3> QED
      BY <3>1
  <2>2. CASE client # Nil
    <3>1. Moves(c, "nil", why[c], handle[c], sent[c], attempt[c])
      BY <1>0, <1>p, <1>a, <2>2 DEF Close, Moves
    <3> QED
      BY <3>1
  <2> QED
    BY <2>1, <2>2
<1>8. CASE SetNil(c)
  <2>1. Moves(c, "connect", why[c], handle[c], sent[c], attempt[c])
    BY <1>0, <1>p, <1>8 DEF SetNil, ThenConnect, Moves
  <2> QED
    BY <2>1
<1>9. CASE Connect(c)
  <2>1. Moves(c, "check", why[c], handle[c], sent[c], attempt[c])
    BY <1>0, <1>p, <1>9 DEF Connect, Moves
  <2> QED
    BY <2>1
<1> QED
  BY <1>1, <1>2, <1>3, <1>4, <1>5, <1>6, <1>7, <1>8, <1>9, <1>a DEF Store

\* Clients are only ever added.
LEMMA ClientsGrow ==
  ASSUME ConnTypes, NEW c \in Callers, Store(c)
  PROVE  ConnTypes' /\ 0..made \subseteq 0..made'
<1>1. CASE Connect(c)
  <2>1. made' = made + 1 /\ client' = made + 1 /\ open' = open \union {made + 1}
    BY <1>1 DEF Connect, KeepClient
  <2>2. made + 1 \in Nat \ {0} /\ 1..made \subseteq 1..(made + 1) /\ 0..made \subseteq 0..(made + 1)
    BY DEF ConnTypes
  <2> QED
    BY <2>1, <2>2 DEF ConnTypes
<1>2. CASE ~Connect(c)
  <2>1. made' = made /\ client' \in {client, 0} /\ open' \subseteq open
    BY <1>2 DEF Store, Check, Read, Answered, ConnError, Rejected, GiveUp, Reconnect, Close, SetNil,
                connVars, ClearClient, Nil
  <2> QED
    BY <2>1 DEF ConnTypes
<1> QED
  BY <1>1, <1>2

LEMMA TypesKept ==
  ASSUME IInv, NEW c \in Callers, Store(c)
  PROVE  TypeOK' /\ CountsOK'
<1>1. CallTypes /\ ConnTypes /\ CountsOK
  BY DEF IInv, TypeOK, CallTypes, ConnTypes
<1>2. PICK l, r, h, s, a : Moves(c, l, r, h, s, a)
  BY <1>1, CallerMoves
<1>3. ConnTypes' /\ 0..made \subseteq 0..made'
  BY <1>1, ClientsGrow
<1>4. CallTypes'
  BY <1>1, <1>2, <1>3 DEF CallTypes, Moves
<1>5. CountsOK'
  BY <1>1, <1>2 DEF CallTypes, Moves, CountsOK
<1>6. UNCHANGED <<up, outages, ctxDone>>
  BY DEF Store, Check, Read, Answered, ConnError, Rejected, GiveUp, Reconnect, Close, SetNil, Connect
<1> QED
  BY <1>3, <1>4, <1>5, <1>6 DEF IInv, TypeOK, CallTypes, ConnTypes

LEMMA StoreOnceRepairs ==
  ASSUME IInv, NEW c \in Callers,
         Check(c) \/ Read(c) \/ Answered(c) \/ ConnError(c) \/ Rejected(c) \/ GiveUp(c)
           \/ Reconnect(c)
  PROVE  SomeoneRepairs'
<1>1. /\ UNCHANGED connVars
      /\ pc[c] \notin Reconnecting
      /\ \E l : pc' = [pc EXCEPT ![c] = l]
  BY DEF Reconnecting, Check, Read, Answered, ConnError, Rejected, GiveUp, Reconnect,
         Goto, Fail, connVars
<1> QED
  BY <1>1, RepairKept DEF IInv, TypeOK

LEMMA ReconnectRepairs ==
  ASSUME IInv, NEW c \in Callers, Close(c) \/ SetNil(c) \/ Connect(c)
  PROVE  SomeoneRepairs'
<1> USE DEF Goto, Nil, SomeoneRepairs
<1>0. pc \in [Callers -> Places] /\ SomeoneRepairs
  BY DEF IInv, TypeOK
<1>1. CASE Close(c)
  <2>1. CASE client = Nil
    <3>1. client' = client /\ \A d \in Callers : d # c => pc'[d] = pc[d]
      BY <1>0, <1>1, <2>1 DEF Close
    <3>2. PICK d \in Callers : pc[d] = "connect"
      BY <1>0, <2>1
    <3>3. d # c
      BY <1>1, <3>2 DEF Close
    <3> QED
      BY <2>1, <3>1, <3>2, <3>3
  <2>2. CASE client # Nil
    <3>1. pc'[c] = "nil" /\ client' = client
      BY <1>0, <1>1, <2>2 DEF Close
    <3> QED
      BY <2>2, <3>1
  <2> QED
    BY <2>1, <2>2
<1>2. CASE SetNil(c)
  <2>1. pc'[c] = "connect" /\ client' = Nil
    BY <1>0, <1>2 DEF SetNil, ThenConnect, ClearClient
  <2> QED
    BY <2>1
<1>3. CASE Connect(c)
  <2>1. client' = made + 1 /\ client' \in open' /\ made + 1 # 0
    BY <1>3 DEF Connect, KeepClient, IInv, TypeOK
  <2> QED
    BY <2>1
<1> QED
  BY <1>1, <1>2, <1>3

LEMMA StepInv == IInv /\ [Next]_vars => IInv'
<1> SUFFICES ASSUME IInv, [Next]_vars PROVE IInv'
  OBVIOUS
<1>1. ASSUME NEW c \in Callers, ContextEnds(c)
      PROVE  IInv'
  BY <1>1 DEF ContextEnds, connVars, callVars, IInv, TypeOK, CountsOK, SomeoneRepairs
<1>2. CASE GoDown \/ ComeUp
  <2>1. CASE GoDown
    <3>1. outages + 1 \in 0..MaxOutages
      BY <2>1 DEF GoDown, IInv, TypeOK
    <3> QED
      BY <2>1, <3>1 DEF GoDown, IInv, TypeOK, connVars, callVars, CountsOK, SomeoneRepairs
  <2>2. CASE ComeUp
    BY <2>2 DEF ComeUp, IInv, TypeOK, connVars, callVars, CountsOK, SomeoneRepairs
  <2> QED
    BY <1>2, <2>1, <2>2
<1>3. CASE Over \/ UNCHANGED vars
  BY <1>3 DEF Over, vars, connVars, callVars, IInv, TypeOK, CountsOK, SomeoneRepairs
<1>4. ASSUME NEW c \in Callers, Store(c)
      PROVE  IInv'
  BY <1>4, TypesKept, StoreOnceRepairs, ReconnectRepairs DEF Store, IInv
<1> QED
  BY <1>1, <1>2, <1>3, <1>4 DEF Next

\* The invariant of the shared connection.
THEOREM Invariance == Spec => []IInv
<1> QED
  BY InitInv, StepInv, PTL DEF Spec

\* Type correctness.
THEOREM TypeCorrect == Spec => []TypeOK
BY Invariance, PTL DEF IInv

\* Overlapping reconnects leave an open client.
THEOREM AlwaysRepaired == Spec => []ConnectedAtRest
<1>1. IInv => ConnectedAtRest
  BY DEF IInv, SomeoneRepairs, ConnectedAtRest, Reconnecting
<1> QED
  BY <1>1, Invariance, PTL

\* Only a goroutine that reconnects can cut short the Store of another.
THEOREM HurtByOverlap == Spec => OnlyOverlapHurts
<1> DEFINE Hurt(c) == why'[c] # why[c] /\ why'[c] \in {"not connected", "nil client"}
<1>1. ASSUME IInv, [Next]_vars, NEW c \in Callers, Hurt(c)
      PROVE  \E d \in Callers \ {c} : pc[d] = "connect"
  <2>1. PICK e \in Callers : Store(e)
    BY <1>1 DEF Next, ContextEnds, GoDown, ComeUp, Over, vars, callVars
  <2>2. e = c /\ client = Nil /\ pc[c] \in {"check", "read", "close"}
    BY <1>1, <2>1 DEF Store, Check, Read, Answered, ConnError, Rejected, GiveUp, Reconnect, Close,
                      SetNil, Connect, Fail, Goto, IInv, TypeOK
  <2> QED
    BY <1>1, <2>2 DEF IInv, SomeoneRepairs
<1>2. IInv /\ [Next]_vars =>
      [\A c \in Callers : Hurt(c) => \E d \in Callers \ {c} : pc[d] = "connect"]_vars
  BY <1>1
<1> QED
  BY <1>2, Invariance, PTL DEF Spec, OnlyOverlapHurts

\* A closed client is used only while its closing is under way.
THEOREM NoStaleClient == Spec => NoUpsertOnClosed
<1> DEFINE Stale(c) == pc[c] = "read" /\ pc'[c] = "upsert" /\ handle'[c] \notin open
<1>1. ASSUME IInv, [Next]_vars, NEW c \in Callers, Stale(c)
      PROVE  \E d \in Callers \ {c} : pc[d] = "nil"
  <2>0. PICK e \in Callers : Store(e)
    BY <1>1 DEF Next, ContextEnds, GoDown, ComeUp, Over, vars, callVars
  <2>1. Read(c)
    <3>1. e = c
      BY <1>1, <2>0 DEF Store, Check, Read, Answered, ConnError, Rejected, GiveUp, Reconnect, Close,
                        SetNil, Connect, Fail, Goto, ThenConnect, IInv, TypeOK
    <3> QED
      BY <1>1, <2>0, <3>1 DEF Store, Check, Read, Answered, ConnError, Rejected, GiveUp,
                              Reconnect, Close, SetNil, Connect
  <2>2. client # Nil /\ client \notin open
    BY <1>1, <2>1 DEF Read, Goto, IInv, TypeOK
  <2> QED
    BY <1>1, <2>2 DEF IInv, SomeoneRepairs
<1>2. IInv /\ [Next]_vars =>
      [\A c \in Callers : Stale(c) => \E d \in Callers \ {c} : pc[d] = "nil"]_vars
  BY <1>1
<1> QED
  BY <1>2, Invariance, PTL DEF Spec, NoUpsertOnClosed
=============================================================================
