----------------------------- MODULE QdrantStore -----------------------------
(***************************************************************************)
(* QdrantStore (internal/store/qdrant.go), the one connection that all the *)
(* goroutines of an index or evaluation job share. Each caller runs Store  *)
(* under retryWithBackoff; after a lost connection it calls reconnect,     *)
(* which closes the client, clears the field and connects again, and none  *)
(* of this is under a lock.                                                *)
(*                                                                         *)
(* The field s.client is read and written without synchronisation, so each *)
(* access is a step of its own; storeOnce tests it once and reads it again *)
(* for every upsert, and reconnect tests it and reads it again to close it. *)
(* Clients are numbered in the order they are made. A goroutine that panics *)
(* ends the process in the code; here the others may still go on, which     *)
(* adds behaviours and removes none.                                        *)
(***************************************************************************)
EXTENDS Naturals, FiniteSets

CONSTANTS Callers,      \* goroutines that call Store
          Requests,     \* upserts one Store takes, of upsertBatchSize points each
          MaxAttempts,  \* attempts of retryWithBackoff; 3 in the code
          MaxOutages    \* bound on how often the server goes down

ASSUME StoreAssumption ==
    /\ IsFiniteSet(Callers)
    /\ Requests \in Nat \ {0}
    /\ MaxAttempts \in Nat \ {0}
    /\ MaxOutages \in Nat

Nil == 0

VARIABLES up,           \* the server answers
          outages,      \* how often it has gone down
          client,       \* s.client: Nil or the number of a client
          made,         \* clients made so far
          open,         \* clients that are not closed
          pc,           \* where each caller is
          handle,       \* the client whose Upsert it has called
          sent,         \* upserts answered in this attempt
          attempt,      \* attempts that lost the connection
          ctxDone,      \* its context is done
          why           \* why its Store failed

connVars == <<client, made, open>>
callVars == <<pc, handle, sent, attempt, why>>
vars     == <<up, outages, connVars, callVars, ctxDone>>

Reconnecting == {"nil", "connect"}
Ended == {"ok", "failed", "panic"}
Places == {"check", "read", "upsert", "wait", "close"} \union Reconnecting \union Ended
Reasons == {"none", "not connected", "nil client", "attempts", "rejected", "context"}

-----------------------------------------------------------------------------
(* Faulty variants of the operators below, one plausible slip each. No      *)
(* specification uses them: they show which property notices which slip.    *)

ClientNotKept == client' = client
ClearedButNotReplaced(c) == pc' = [pc EXCEPT ![c] = "check"]

-----------------------------------------------------------------------------
Goto(c, l) == pc' = [pc EXCEPT ![c] = l]

Fail(c, reason) == Goto(c, "failed") /\ why' = [why EXCEPT ![c] = reason]

\* for attempt := 0; attempt < maxAttempts; attempt++
LastAttempt(c) == attempt'[c] >= MaxAttempts

\* time.After won over ctx.Done.
BackoffOver(c) == ~ctxDone[c]

\* s.client = client, at the end of Connect.
KeepClient == client' = made'

ClearClient == client' = Nil

\* After s.client = nil, reconnect goes on to Connect.
ThenConnect(c) == Goto(c, "connect")

\* NewQdrantStore and Connect, before the goroutines start.
Init ==
    /\ up = TRUE /\ outages = 0
    /\ client = 1 /\ made = 1 /\ open = {1}
    /\ pc = [c \in Callers |-> "check"]
    /\ handle = [c \in Callers |-> Nil]
    /\ sent = [c \in Callers |-> 0]
    /\ attempt = [c \in Callers |-> 0]
    /\ ctxDone = [c \in Callers |-> FALSE]
    /\ why = [c \in Callers |-> "none"]

-----------------------------------------------------------------------------
(* storeOnce *)

\* if s.client == nil. The error is no connection error, so it is not retried.
Check(c) ==
    /\ pc[c] = "check"
    /\ sent' = [sent EXCEPT ![c] = 0]
    /\ IF client = Nil THEN Fail(c, "not connected") ELSE Goto(c, "read") /\ UNCHANGED why
    /\ UNCHANGED <<up, outages, connVars, handle, attempt, ctxDone>>

\* s.client.Points(): a nil client is dereferenced.
Read(c) ==
    /\ pc[c] = "read"
    /\ IF client = Nil
       THEN Goto(c, "panic") /\ why' = [why EXCEPT ![c] = "nil client"] /\ UNCHANGED handle
       ELSE Goto(c, "upsert") /\ handle' = [handle EXCEPT ![c] = client] /\ UNCHANGED why
    /\ UNCHANGED <<up, outages, connVars, sent, attempt, ctxDone>>

Answered(c) ==
    /\ pc[c] = "upsert"
    /\ up /\ handle[c] \in open
    /\ sent' = [sent EXCEPT ![c] = @ + 1]
    /\ Goto(c, IF sent'[c] = Requests THEN "ok" ELSE "read")
    /\ UNCHANGED <<up, outages, connVars, handle, attempt, ctxDone, why>>

\* Unavailable; Canceled, also because the client was closed; DeadlineExceeded.
ConnError(c) ==
    /\ pc[c] = "upsert"
    /\ ~up \/ handle[c] \notin open \/ ctxDone[c]
    /\ attempt' = [attempt EXCEPT ![c] = @ + 1]
    /\ IF LastAttempt(c) THEN Fail(c, "attempts") ELSE Goto(c, "wait") /\ UNCHANGED why
    /\ UNCHANGED <<up, outages, connVars, handle, sent, ctxDone>>

\* The server rejects the request: no collection, wrong dimension.
Rejected(c) ==
    /\ pc[c] = "upsert"
    /\ up /\ handle[c] \in open
    /\ Fail(c, "rejected")
    /\ UNCHANGED <<up, outages, connVars, handle, sent, attempt, ctxDone>>

-----------------------------------------------------------------------------
(* retryWithBackoff and reconnect *)

GiveUp(c) ==
    /\ pc[c] = "wait" /\ ctxDone[c]
    /\ Fail(c, "context")
    /\ UNCHANGED <<up, outages, connVars, handle, sent, attempt, ctxDone>>

\* The back-off is over: if s.client != nil { ...
Reconnect(c) ==
    /\ pc[c] = "wait" /\ BackoffOver(c)
    /\ Goto(c, IF client = Nil THEN "connect" ELSE "close")
    /\ UNCHANGED <<up, outages, connVars, handle, sent, attempt, ctxDone, why>>

\* ... s.client.Close(): the field is read again, and may be nil by now.
Close(c) ==
    /\ pc[c] = "close"
    /\ open' = open \ {client}
    /\ IF client = Nil
       THEN Goto(c, "panic") /\ why' = [why EXCEPT ![c] = "nil client"]
       ELSE Goto(c, "nil") /\ UNCHANGED why
    /\ UNCHANGED <<up, outages, client, made, handle, sent, attempt, ctxDone>>

\* ... s.client = nil }
SetNil(c) ==
    /\ pc[c] = "nil"
    /\ ClearClient
    /\ ThenConnect(c)
    /\ UNCHANGED <<up, outages, made, open, handle, sent, attempt, ctxDone, why>>

\* Making a client does not need the server.
Connect(c) ==
    /\ pc[c] = "connect"
    /\ made' = made + 1
    /\ open' = open \union {made'}
    /\ KeepClient
    /\ Goto(c, "check")
    /\ UNCHANGED <<up, outages, handle, sent, attempt, ctxDone, why>>

-----------------------------------------------------------------------------
(* Environment *)

ContextEnds(c) ==
    /\ ~ctxDone[c] /\ pc[c] \notin Ended
    /\ ctxDone' = [ctxDone EXCEPT ![c] = TRUE]
    /\ UNCHANGED <<up, outages, connVars, callVars>>

GoDown ==
    /\ up /\ outages < MaxOutages
    /\ up' = FALSE /\ outages' = outages + 1
    /\ UNCHANGED <<connVars, callVars, ctxDone>>

ComeUp ==
    /\ ~up /\ up' = TRUE
    /\ UNCHANGED <<outages, connVars, callVars, ctxDone>>

Over == (\A c \in Callers : pc[c] \in Ended) /\ UNCHANGED vars

Store(c) == \/ Check(c) \/ Read(c) \/ Answered(c) \/ ConnError(c) \/ Rejected(c)
            \/ GiveUp(c) \/ Reconnect(c) \/ Close(c) \/ SetNil(c) \/ Connect(c)

Next == \/ \E c \in Callers : Store(c) \/ ContextEnds(c)
        \/ GoDown \/ ComeUp \/ Over

Spec == Init /\ [][Next]_vars

\* Every goroutine is scheduled, and an upsert is answered or its context ends
\* it. Nothing is assumed of the server or of the contexts.
FairSpec == Spec /\ \A c \in Callers : WF_vars(Store(c))

-----------------------------------------------------------------------------
TypeOK ==
    /\ up \in BOOLEAN /\ outages \in 0..MaxOutages
    /\ made \in Nat \ {0} /\ client \in 0..made /\ open \subseteq 1..made
    /\ pc \in [Callers -> Places]
    /\ handle \in [Callers -> 0..made]
    /\ sent \in [Callers -> 0..Requests]
    /\ attempt \in [Callers -> 0..MaxAttempts]
    /\ ctxDone \in [Callers -> BOOLEAN]
    /\ why \in [Callers -> Reasons]

\* However the reconnects of several goroutines overlap, once none is under way
\* the store holds a client that is open: they never leave it broken for good.
ConnectedAtRest ==
    (\A c \in Callers : pc[c] \notin Reconnecting) => client \in open

\* A Store that loses its connection is only cut short, before its attempts are
\* made, in the moment in which another goroutine reconnects: a goroutine that
\* has the store to itself never meets a nil client, nor panics while closing it.
OnlyOverlapHurts ==
    [][\A c \in Callers :
          why'[c] # why[c] /\ why'[c] \in {"not connected", "nil client"} =>
              \E d \in Callers \ {c} : pc[d] = "connect"]_vars

\* A client that was closed is never used for a new upsert unless its closing is
\* still under way: the stale client is replaced before anyone goes on.
NoUpsertOnClosed ==
    [][\A c \in Callers :
          pc[c] = "read" /\ pc'[c] = "upsert" /\ handle'[c] \notin open =>
              \E d \in Callers \ {c} : pc[d] = "nil"]_vars

\* Every Store returns, whatever the server, the contexts and the others do, and
\* what they leave behind for good is a client that is open.
StoresEndConnected == <>[](client \in open /\ \A c \in Callers : pc[c] \in Ended)

\* What one would expect, and TLC refutes with the constants of the run (README,
\* Findings): a Store whose connection is lost is retried until it succeeds, is
\* rejected, its context ends or its attempts are used up.
LostConnectionIsRetried ==
    \A c \in Callers : why[c] \notin {"not connected", "nil client"}

-----------------------------------------------------------------------------
(* The inductive invariant behind these, proved in QdrantStoreProofs.       *)

\* A nil client is about to be replaced, and a closed one to be cleared.
SomeoneRepairs ==
    /\ client = Nil => \E c \in Callers : pc[c] = "connect"
    /\ client # Nil /\ client \notin open => \E c \in Callers : pc[c] = "nil"

\* An attempt is left to those who go on, and an upsert to those in storeOnce.
CountsOK ==
    \A c \in Callers :
        /\ pc[c] # "failed" => attempt[c] < MaxAttempts
        /\ pc[c] \in {"read", "upsert"} => sent[c] < Requests

IInv == TypeOK /\ CountsOK /\ SomeoneRepairs
=============================================================================
