------------------------ MODULE ManagementApiProofs ------------------------
(***************************************************************************)
(* Theorems about ManagementApi: what callers are told through any number  *)
(* of lost, late and repeated attempts, for any clients and scenarios.     *)
(***************************************************************************)
EXTENDS ManagementApi, ProviderStateProofs, FiniteSetTheorems

\* Callers expect the version that the remote had when they started, the one in
\* their lock, and none that is still to come.
NoFutureBases ==
  \A scenario \in Scenarios : \A c \in Clients : \A i \in DOMAIN scenario[c] :
    scenario[c][i].base <= 1 /\ scenario[c][i].etag <= 1

-----------------------------------------------------------------------------
(* The inductive invariants *)

\* A client is between calls, or in the middle of one that can be sent.
ClientTyped(c) ==
  \/ client[c] = Idle
  \/ /\ \/ client[c] = [at |-> "send", attempt |-> client[c].attempt,
                        waited |-> client[c].waited]
        \/ client[c] = [at |-> "await", attempt |-> client[c].attempt,
                        waited |-> client[c].waited,
                        answer |-> client[c].answer]
     /\ turn[c] + 1 \in DOMAIN calls[c]
     /\ ~Incomplete(TheCall(c))

\* The call that a message or a handler is an attempt at.
CallOf(x) == calls[x.client][x.turn + 1]
IsAttempt(x) ==
  /\ x.client \in Clients /\ x.turn + 1 \in DOMAIN calls[x.client]
  /\ ~Incomplete(CallOf(x))

\* Releases are bound to keys that a caller chose for their candidate.
KeysFromCalls(s) ==
  \A k \in DOMAIN s.idempotency :
    s.idempotency[k].request.operation = "createReleaseCandidate" =>
      k \in KeysFor(s.idempotency[k].request.candidate)

CallsTyped ==
  /\ calls \in Scenarios
  /\ turn \in [Clients -> Nat]
  /\ client = [c \in Clients |-> client[c]]
  /\ \A c \in Clients : ClientTyped(c)
  /\ \A m \in wire :
       IsAttempt(m) /\ m.request = RequestOf(CallOf(m), m.attempt)
  /\ \A h \in open : IsAttempt(h)

StoresSound ==
  /\ StoreSound(store) /\ KeysFromCalls(store)
  /\ \A h \in open :
       StoreSound(h.outcome.store) /\ KeysFromCalls(h.outcome.store)
  /\ \A a \in advancing : StoreSound(a.new) /\ KeysFromCalls(a.new)

\* What the server has answered: what arrived and was told, and what arrived and
\* is still to be read.
Said ==
  told \cup
    UNION {{<<TheCall(c), reply>> : reply \in client[c].answer} :
           c \in {x \in Clients : client[x].at = "await"}}

\* What an OK says of a call is on record in s.
OnRecord(s, call, reply) ==
  reply.code = "OK" /\ call.kind # "poll" =>
    /\ call.key \in DOMAIN s.idempotency
    /\ s.idempotency[call.key].response = reply

\* What is written adds to the records that were read, with the answer that goes to
\* the caller among them; what was said is on record unless it was erased.
ToldInv ==
  /\ \A h \in open :
       /\ Extends(h.read.idempotency, h.outcome.store.idempotency)
       /\ OnRecord(h.outcome.store, CallOf(h), h.outcome.reply)
  /\ \A a \in advancing : Extends(a.read.idempotency, a.new.idempotency)
  /\ \A t \in Said : OnRecord(store, t[1], t[2]) \/ t[1].key \in erased

\* The calls with a base that have been carried out are the same in s and t.
BasedCalls == {call \in AllCalls : call.kind \in {"draft", "release"}}
Alike(s, t) == \A call \in BasedCalls : Done(s, call) <=> Done(t, call)

\* What a STALE_BASE says of a call is so.
StaleFor(call, reply) ==
  reply.code = "STALE_BASE" =>
    /\ call \in BasedCalls
    /\ Current(store) > 1
    /\ ~Done(store, call)

\* t is as new as s, and says the same of calls with a base once the remote has
\* moved on; or it is older.
NoNewer(s, t) ==
  /\ Current(t) <= Current(s)
  /\ Current(t) = Current(s) /\ Current(s) > 1 => Alike(s, t)

\* Once the remote has moved on, and unless it was set back, no handler carries out
\* a call with a base.
StaleInv ==
  setBack \/
    /\ \A h \in open :
         /\ NoNewer(store, h.outcome.store)
         /\ StaleFor(CallOf(h), h.outcome.reply)
    /\ \A a \in advancing :
         /\ Current(a.new) = Current(store) + 1
         /\ Current(store) > 1 => Alike(store, a.new)
    /\ \A t \in Said : StaleFor(t[1], t[2])

-----------------------------------------------------------------------------
(* Requests and their handlers *)

LEMMA CallTyped ==
  ASSUME calls \in Scenarios, NEW c \in Clients, NEW i \in DOMAIN calls[c]
  PROVE  /\ calls[c][i] \in AllCalls
         /\ NoFutureBases => calls[c][i].base <= 1 /\ calls[c][i].etag <= 1
  <1>1. calls \in [Clients -> Seq(AllCalls)]
    BY ScenariosAreCalls
  <1>2. calls[c] \in Seq(AllCalls)
    BY <1>1
  <1>3. calls[c][i] \in AllCalls
    BY <1>2
  <1> QED BY <1>3 DEF NoFutureBases

LEMMA CallFields ==
  ASSUME NEW call \in AllCalls
  PROVE  /\ call.kind \in {"draft", "release", "deploy", "rollback", "poll"}
         /\ call.key \in Keys /\ call.base \in Nat /\ call.etag \in Nat
         /\ call.kind \in {"draft", "release"} => call.subject \in Candidates
         /\ call.kind \in {"deploy", "rollback", "poll"} => call.subject \in Nat
         /\ call = [kind |-> call.kind, key |-> call.key, base |-> call.base,
                    etag |-> call.etag, subject |-> call.subject]
  BY DEF AllCalls, CallsOf

\* Every attempt carries the call's key, kind and subject.
LEMMA RequestFields ==
  ASSUME NEW call \in AllCalls, NEW attempt
  PROVE  LET r == RequestOf(call, attempt) IN
         /\ r.kind = call.kind /\ r.key = call.key /\ r.subject = call.subject
         /\ r.base \in Nat /\ r.etag \in Nat
         /\ call.kind \in {"draft", "release"} => r.base = call.base
         /\ r.etag \in {0, call.etag}
  <1> DEFINE base == IF call.kind \in {"draft", "release"} THEN call.base ELSE 0
             etag == IF call.kind = "draft" THEN call.etag ELSE 0
             r == RequestOf(call, attempt)
  <1>1. r = [kind |-> call.kind, key |-> call.key, base |-> base,
             etag |-> etag, subject |-> call.subject]
    <2>1. r = [call EXCEPT !.key = call.key, !.base = base, !.etag = etag]
      BY DEF RequestOf, idempotencyKey
    <2>2. call = [kind |-> call.kind, key |-> call.key, base |-> call.base,
                  etag |-> call.etag, subject |-> call.subject]
      BY CallFields
    <2> HIDE DEF base, etag, r
    <2> QED BY <2>1, <2>2
  <1>2. base \in Nat /\ etag \in Nat
    BY CallFields
  <1> QED BY <1>1, <1>2

\* The context that the server makes of an attempt, and the handler it reaches.
ContextOf(call, attempt, gate) ==
  [key |-> call.key, base |-> RequestOf(call, attempt).base,
   etag |-> RequestOf(call, attempt).etag, gate |-> gate]

LEMMA RouteByKind ==
  ASSUME NEW s, NEW call \in AllCalls, NEW attempt,
         NEW gate \in {"OK", "UNAVAILABLE"}
  PROVE  LET context == ContextOf(call, attempt, gate)
             outcome == route(s, RequestOf(call, attempt), gate)
             request == CanonicalRequest(call)
         IN
         /\ context \in MutationContexts
         /\ context.key = call.key
         /\ \/ /\ call.kind = "draft" /\ call.subject \in Candidates
               /\ request = DraftRequest(call.subject)
               /\ outcome = createDraft(s, context, call.subject)
            \/ /\ call.kind = "release" /\ call.subject \in Candidates
               /\ request = ReleaseRequest(call.subject, Evidence)
               /\ outcome = createReleaseCandidate(s, context, call.subject,
                                                   Evidence)
            \/ /\ call.kind = "deploy" /\ call.subject \in Nat
               /\ request = DeployRequest(call.subject, "staging")
               /\ outcome = createDeployment(s, context, call.subject,
                                             "staging", "healthy")
            \/ /\ call.kind = "rollback" /\ call.subject \in Nat
               /\ \E reason \in Reasons :
                    /\ request = RollbackRequest(call.subject, reason)
                    /\ outcome = rollbackDeployment(s, context, call.subject,
                                                    reason)
            \/ /\ call.kind = "poll" /\ call.subject \in Nat
               /\ outcome = getDeployment(s, gate, call.subject)
  <1> DEFINE r == RequestOf(call, attempt)
             context == ContextOf(call, attempt, gate)
  <1>1. /\ r.kind = call.kind /\ r.key = call.key /\ r.subject = call.subject
        /\ r.base \in Nat /\ r.etag \in Nat
    BY RequestFields
  <1>2. context = [key |-> r.key, base |-> r.base, etag |-> r.etag,
                   gate |-> gate]
    BY <1>1 DEF ContextOf
  <1>3. context \in MutationContexts /\ context.key = call.key
    BY <1>1, <1>2, CallFields DEF MutationContexts, Gates
  <1>4. (CHOOSE x \in Reasons : TRUE) \in Reasons
    BY ReasonsExist
  <1>5. /\ call.kind \in {"draft", "release", "deploy", "rollback", "poll"}
        /\ call.kind \in {"draft", "release"} => call.subject \in Candidates
        /\ call.kind \in {"deploy", "rollback", "poll"} => call.subject \in Nat
    BY CallFields
  <1> HIDE DEF r, context
  <1>6. route(s, r, gate) =
          CASE call.kind = "draft" -> createDraft(s, context, call.subject)
            [] call.kind = "release" ->
                 createReleaseCandidate(s, context, call.subject, Evidence)
            [] call.kind = "deploy" ->
                 createDeployment(s, context, call.subject, "staging", "healthy")
            [] call.kind = "rollback" ->
                 rollbackDeployment(s, context, call.subject,
                                    CHOOSE x \in Reasons : TRUE)
            [] call.kind = "poll" -> getDeployment(s, gate, call.subject)
    BY <1>1, <1>2 DEF route
  <1> QED BY <1>3, <1>4, <1>5, <1>6 DEF CanonicalRequest, r, context

\* What an attempt owes its caller, of whatever kind it is.
LEMMA RouteOwed ==
  ASSUME NEW s, StoreSound(s), NEW call \in AllCalls, NEW attempt,
         NEW gate \in {"OK", "UNAVAILABLE"}, NEW outcome,
         outcome = route(s, RequestOf(call, attempt), gate)
  PROVE  /\ StoreSound(outcome.store)
         /\ outcome.store.versions = s.versions
         /\ Extends(s.idempotency, outcome.store.idempotency)
         /\ \A k \in DOMAIN outcome.store.idempotency :
              \/ /\ k \in DOMAIN s.idempotency
                 /\ outcome.store.idempotency[k] = s.idempotency[k]
              \/ /\ k = call.key /\ call.kind # "poll"
                 /\ outcome.store.idempotency[k].request
                      = CanonicalRequest(call)
         /\ OnRecord(outcome.store, call, outcome.reply)
  <1> DEFINE context == ContextOf(call, attempt, gate)
  <1>1. CASE call.kind = "poll"
    <2>1. call.subject \in Nat /\ outcome = getDeployment(s, gate, call.subject)
      BY <1>1, RouteByKind
    <2>2. /\ StoreSound(outcome.store)
          /\ outcome.store.idempotency = s.idempotency
      BY <2>1, PollPromise
    <2>3. outcome.store.versions = s.versions
      <3>1. IsMockState(s)
        BY DEF StoreSound
      <3>2. PollEffect(s, call.subject).store.versions = s.versions
        BY <3>1, EffectsKeepVersions
      <3> QED BY <2>1, <3>2, GatedFacts DEF getDeployment
    <2> QED BY <1>1, <2>2, <2>3 DEF Extends, OnRecord
  <1>2. CASE call.kind # "poll"
    <2>1. Owed(s, call.key, CanonicalRequest(call), outcome)
      <3>1. context \in MutationContexts /\ context.key = call.key
        BY RouteByKind
      <3>2. CASE call.kind = "draft"
        <4>1. /\ call.subject \in Candidates
              /\ CanonicalRequest(call) = DraftRequest(call.subject)
              /\ outcome = createDraft(s, context, call.subject)
          BY <3>2, RouteByKind
        <4> HIDE DEF context
        <4> QED BY <3>1, <4>1, DraftOwed
      <3>3. CASE call.kind = "release"
        <4>1. /\ call.subject \in Candidates
              /\ CanonicalRequest(call) = ReleaseRequest(call.subject, Evidence)
              /\ outcome = createReleaseCandidate(s, context, call.subject,
                                                  Evidence)
          BY <3>3, RouteByKind
        <4> HIDE DEF context
        <4> QED BY <3>1, <4>1, ReleaseOwed
      <3>4. CASE call.kind = "deploy"
        <4>1. /\ call.subject \in Nat
              /\ CanonicalRequest(call) = DeployRequest(call.subject, "staging")
              /\ outcome = createDeployment(s, context, call.subject,
                                            "staging", "healthy")
          BY <3>4, RouteByKind
        <4> HIDE DEF context
        <4> QED BY <3>1, <4>1, DeployOwed
      <3>5. CASE call.kind = "rollback"
        <4>1. call.subject \in Nat
          BY <3>5, RouteByKind
        <4>2. PICK reason \in Reasons :
                /\ CanonicalRequest(call) = RollbackRequest(call.subject, reason)
                /\ outcome = rollbackDeployment(s, context, call.subject, reason)
          BY <3>5, RouteByKind
        <4> HIDE DEF context
        <4> QED BY <3>1, <4>1, <4>2, RollbackOwed
      <3> QED BY <1>2, <3>2, <3>3, <3>4, <3>5, CallFields
    <2> QED BY <1>2, <2>1 DEF Owed, KeysFollow, Answered, OnRecord
  <1> QED BY <1>1, <1>2

-----------------------------------------------------------------------------
(* Steps of clients *)

\* A step of c, which leaves the other clients alone and awaits nothing that has
\* been answered before.
ClientMoves(c) ==
  /\ client' = [client EXCEPT ![c] = client'[c]]
  /\ turn' = [turn EXCEPT ![c] = turn'[c]] /\ turn'[c] \in Nat
  /\ ClientTyped(c)'
  /\ client'[c].at = "await" => client'[c].answer = {}

LEMMA EndMoves ==
  ASSUME CallsTyped, NEW c \in Clients, NEW reply, End(c, reply), calls' = calls
  PROVE  /\ ClientMoves(c)
         /\ told' \subseteq told \cup {<<TheCall(c), reply>>}
         /\ reply.code \notin Telling => told' = told
  <1>1. /\ turn \in [Clients -> Nat]
        /\ client = [x \in Clients |-> client[x]]
    BY DEF CallsTyped
  <1>2. /\ client' = [client EXCEPT ![c] = Idle]
        /\ turn' = [turn EXCEPT ![c] = @ + 1]
    BY DEF End
  <1>3. client'[c] = Idle /\ turn'[c] = turn[c] + 1 /\ turn'[c] \in Nat
    BY <1>1, <1>2
  <1>4. ClientTyped(c)'
    BY <1>3 DEF ClientTyped, Idle
  <1>5. client'[c].at # "await"
    BY <1>3 DEF Idle
  <1>6. /\ client' = [client EXCEPT ![c] = client'[c]]
        /\ turn' = [turn EXCEPT ![c] = turn'[c]]
    BY <1>1, <1>2, <1>3
  <1>7. ClientMoves(c)
    BY <1>3, <1>4, <1>5, <1>6 DEF ClientMoves
  <1> QED BY <1>7 DEF End

LEMMA ErrorMoves ==
  ASSUME CallsTyped, NEW c \in Clients, client[c].at = "await", calls' = calls,
         NEW code, NEW hint, AfterError(c, code, hint)
  PROVE  /\ ClientMoves(c)
         /\ told' \subseteq told \cup {<<TheCall(c), Reply(code, 0, "NONE")>>}
         /\ code \notin Telling => told' = told
  <1> DEFINE failed == Reply(code, 0, "NONE")
  <1>1. failed.code = code
    BY DEF Reply
  <1>2. CASE End(c, failed)
    BY <1>1, <1>2, EndMoves
  <1>3. CASE /\ UNCHANGED <<turn, told>>
             /\ \E attempt, waited :
                  client' = [client EXCEPT ![c] =
                               [at |-> "send", attempt |-> attempt,
                                waited |-> waited]]
    <2>1. PICK attempt, waited :
            client' = [client EXCEPT ![c] =
                         [at |-> "send", attempt |-> attempt,
                          waited |-> waited]]
      BY <1>3
    <2>2. /\ turn \in [Clients -> Nat]
          /\ client = [x \in Clients |-> client[x]]
          /\ ClientTyped(c)
      BY DEF CallsTyped
    <2>3. client'[c] = [at |-> "send", attempt |-> attempt, waited |-> waited]
      BY <2>1, <2>2
    <2>4. turn[c] + 1 \in DOMAIN calls[c] /\ ~Incomplete(TheCall(c))
      BY <2>2 DEF ClientTyped, Idle
    <2>5. turn' = [turn EXCEPT ![c] = turn'[c]] /\ turn'[c] \in Nat
      BY <1>3, <2>2
    <2>6. ClientTyped(c)'
      BY <1>3, <2>3, <2>4 DEF ClientTyped, TheCall
    <2>7. client'[c].at # "await"
      BY <2>3
    <2>8. client' = [client EXCEPT ![c] = client'[c]]
      BY <2>1, <2>3
    <2> QED BY <1>3, <2>5, <2>6, <2>7, <2>8 DEF ClientMoves
  <1>4. End(c, failed) \/
          (/\ UNCHANGED <<turn, told>>
           /\ \E attempt, waited :
                client' = [client EXCEPT ![c] =
                             [at |-> "send", attempt |-> attempt,
                              waited |-> waited]])
    BY DEF AfterError
  <1> QED BY <1>2, <1>3, <1>4

\* A code in a status, or for want of an answer, says nothing of the call.
LEMMA NoTelling ==
  /\ \A status : codeForStatus(status) \notin Telling
  /\ \A code \in {"TIMEOUT", "UNAVAILABLE", "INTERNAL"} : code \notin Telling
  <1>1. \A status :
          codeForStatus(status) \in
            {"AUTHENTICATION_REQUIRED", "PERMISSION_DENIED", "NOT_FOUND",
             "CONFLICT", "VALIDATION_FAILED", "RATE_LIMITED", "TIMEOUT",
             "INTERNAL", "UNAVAILABLE"}
    BY Zenon DEF codeForStatus
  <1> QED BY <1>1 DEF Telling

\* A client moves on, and what it tells its caller is what it was answered, or
\* that it was STALE_BASE.
LEMMA ClientStepMoves ==
  ASSUME CallsTyped, NEW c \in Clients, ClientStep(c), calls' = calls
  PROVE  /\ ClientMoves(c)
         /\ UNCHANGED server
         /\ wire' = wire
            \/ \E attempt :
                 /\ client[c].at = "send"
                 /\ wire' = wire \cup
                      {[client |-> c, turn |-> turn[c], attempt |-> attempt,
                        request |-> RequestOf(TheCall(c), attempt)]}
         /\ \A t \in told' :
              \/ t \in told
              \/ /\ client[c].at = "await" /\ t[1] = TheCall(c)
                 /\ \E reply \in client[c].answer :
                      \/ t[2] = reply
                      \/ t[2].code = "STALE_BASE" /\ reply.code = "STALE_BASE"
  <1>0. /\ turn \in [Clients -> Nat]
        /\ client = [x \in Clients |-> client[x]]
        /\ ClientTyped(c)
        /\ calls[c] \in Seq(AllCalls)
    BY ScenariosAreCalls DEF CallsTyped
  <1>1. CASE Begin(c)
    <2>1. UNCHANGED <<server, wire>>
      BY <1>1 DEF Begin
    <2>2. CASE End(c, Reply("VALIDATION_FAILED", 0, "NONE"))
      <3>1. Reply("VALIDATION_FAILED", 0, "NONE").code \notin Telling
        BY DEF Reply, Telling
      <3> QED BY <2>1, <2>2, <3>1, EndMoves
    <2>3. CASE /\ ~Incomplete(TheCall(c))
               /\ client' = [client EXCEPT ![c] =
                               [at |-> "send", attempt |-> 1, waited |-> 0]]
               /\ UNCHANGED <<turn, told>>
      <3>1. client'[c] = [at |-> "send", attempt |-> 1, waited |-> 0]
        BY <1>0, <2>3
      <3>2. turn[c] + 1 \in DOMAIN calls[c]
        BY <1>0, <1>1 DEF Begin
      <3>3. ClientTyped(c)'
        BY <2>3, <3>1, <3>2 DEF ClientTyped, TheCall
      <3>4. ClientMoves(c)
        BY <1>0, <2>3, <3>1, <3>3 DEF ClientMoves
      <3> QED BY <2>1, <2>3, <3>4
    <2> QED BY <1>1, <2>2, <2>3 DEF Begin
  <1>2. CASE Send(c)
    <2> DEFINE attempt == client[c].attempt
               new == [at |-> "await", attempt |-> attempt,
                       waited |-> client[c].waited, answer |-> {}]
    <2>1. /\ client[c].at = "send"
          /\ wire' = wire \cup
               {[client |-> c, turn |-> turn[c], attempt |-> attempt,
                 request |-> RequestOf(TheCall(c), attempt)]}
          /\ client' = [client EXCEPT ![c] = new]
          /\ UNCHANGED <<server, turn, told>>
      BY <1>2 DEF Send
    <2>2. client'[c] = new
      BY <1>0, <2>1
    <2>3. turn[c] + 1 \in DOMAIN calls[c] /\ ~Incomplete(TheCall(c))
      BY <1>0, <2>1 DEF ClientTyped, Idle
    <2>4. ClientTyped(c)'
      BY <2>1, <2>2, <2>3 DEF ClientTyped, TheCall
    <2>5. ClientMoves(c)
      BY <1>0, <2>1, <2>2, <2>4 DEF ClientMoves
    <2> HIDE DEF attempt, new
    <2> QED BY <2>1, <2>5
  <1>3. CASE Receive(c)
    <2>1. UNCHANGED <<server, wire>> /\ client[c].at = "await"
      BY <1>3 DEF Receive
    <2>2. PICK reply \in client[c].answer :
            IF reply.code = "OK" THEN End(c, reply)
            ELSE AfterError(c, reply.code, hintWith(reply.code))
      BY <1>3 DEF Receive
    <2>3. CASE reply.code = "OK"
      <3>1. ClientMoves(c) /\ told' \subseteq told \cup {<<TheCall(c), reply>>}
        BY <2>2, <2>3, EndMoves
      <3> QED BY <2>1, <3>1
    <2>4. CASE reply.code # "OK"
      <3> DEFINE failed == Reply(reply.code, 0, "NONE")
      <3>1. /\ ClientMoves(c)
            /\ told' \subseteq told \cup {<<TheCall(c), failed>>}
            /\ reply.code \notin Telling => told' = told
        BY <2>1, <2>2, <2>4, ErrorMoves
      <3>2. failed.code = reply.code
        BY DEF Reply
      <3> HIDE DEF failed
      <3>3. \A t \in told' :
              \/ t \in told
              \/ t = <<TheCall(c), failed>> /\ reply.code = "STALE_BASE"
        BY <2>4, <3>1 DEF Telling
      <3> QED BY <2>1, <3>1, <3>2, <3>3
    <2> QED BY <2>3, <2>4
  <1>4. CASE Intercept(c)
    <2>1. UNCHANGED <<server, wire>> /\ client[c].at = "await"
      BY <1>4 DEF Intercept
    <2>2. PICK status \in GatewayStatuses, hint \in GatewayHints :
            AfterError(c, codeForStatus(status), hint)
      BY <1>4 DEF Intercept
    <2> QED BY <2>1, <2>2, ErrorMoves, NoTelling
  <1>5. CASE Fail(c)
    <2>1. UNCHANGED <<server, wire>> /\ client[c].at = "await"
      BY <1>5 DEF Fail
    <2>2. PICK code \in {"TIMEOUT", "UNAVAILABLE", "INTERNAL"} :
            AfterError(c, code, NoHint)
      BY <1>5 DEF Fail
    <2> QED BY <2>1, <2>2, ErrorMoves, NoTelling
  <1>6. CASE EndWithout(c)
    <2>1. UNCHANGED <<server, wire>> /\ End(c, Reply("NONE", 0, "NONE"))
      BY <1>6 DEF EndWithout
    <2>2. Reply("NONE", 0, "NONE").code \notin Telling
      BY DEF Reply, Telling
    <2> QED BY <2>1, <2>2, EndMoves
  <1> QED BY <1>1, <1>2, <1>3, <1>4, <1>5, <1>6 DEF ClientStep

-----------------------------------------------------------------------------
(* What was said: only an answer adds to it *)

\* <<call, reply>> was said if it was told or if somebody reads it.
LEMMA SaidMembers ==
  ASSUME NEW t
  PROVE  t \in Said <=>
           \/ t \in told
           \/ \E c \in Clients : \E reply \in client[c].answer :
                client[c].at = "await" /\ t = <<TheCall(c), reply>>
  BY DEF Said

LEMMA ClientSaid ==
  ASSUME CallsTyped, NEW c \in Clients, ClientStep(c), calls' = calls,
         NEW t \in Said'
  PROVE  \E u \in Said :
           /\ u[1] = t[1]
           /\ \/ u[2] = t[2]
              \/ u[2].code = "STALE_BASE" /\ t[2].code = "STALE_BASE"
  <1>1. /\ ClientMoves(c)
        /\ \A u \in told' :
             \/ u \in told
             \/ /\ client[c].at = "await" /\ u[1] = TheCall(c)
                /\ \E reply \in client[c].answer :
                     \/ u[2] = reply
                     \/ u[2].code = "STALE_BASE" /\ reply.code = "STALE_BASE"
    BY ClientStepMoves
  <1>2. CASE t \in told'
    <2>1. CASE t \in told
      BY <2>1, SaidMembers
    <2>2. ASSUME client[c].at = "await", t[1] = TheCall(c),
                 NEW reply \in client[c].answer,
                 \/ t[2] = reply
                 \/ t[2].code = "STALE_BASE" /\ reply.code = "STALE_BASE"
          PROVE  \E u \in Said :
                   /\ u[1] = t[1]
                   /\ \/ u[2] = t[2]
                      \/ u[2].code = "STALE_BASE" /\ t[2].code = "STALE_BASE"
      <3>1. <<TheCall(c), reply>> \in Said
        BY <2>2, SaidMembers
      <3> QED BY <2>2, <3>1
    <2> QED BY <1>1, <1>2, <2>1, <2>2
  <1>3. CASE t \notin told'
    <2>a. PICK x \in Clients : \E reply \in client'[x].answer :
            client'[x].at = "await" /\ t = <<TheCall(x)', reply>>
      BY <1>3 DEF Said
    <2>1. PICK reply \in client'[x].answer :
            client'[x].at = "await" /\ t = <<TheCall(x)', reply>>
      BY <2>a
    <2>2. x # c
      BY <1>1, <2>1 DEF ClientMoves
    <2>3. client'[x] = client[x] /\ turn'[x] = turn[x]
      BY <1>1, <2>2 DEF ClientMoves, CallsTyped
    <2>4. TheCall(x)' = TheCall(x)
      BY <2>3 DEF TheCall
    <2> QED BY <2>1, <2>3, <2>4, SaidMembers
  <1> QED BY <1>2, <1>3

LEMMA AnswerSaid ==
  ASSUME CallsTyped, NEW h \in open, Answer(h), calls' = calls, NEW t \in Said'
  PROVE  t \in Said \/ t = <<CallOf(h), h.outcome.reply>>
  <1>1. turn' = turn /\ told' = told /\ h.client \in Clients
    BY DEF Answer, CallsTyped, IsAttempt
  <1>2. \A x : TheCall(x)' = TheCall(x)
    BY <1>1 DEF TheCall
  <1>3. CASE t \in told'
    BY <1>1, <1>3, SaidMembers
  <1>4. CASE t \notin told'
    <2>a. PICK x \in Clients : \E reply \in client'[x].answer :
            client'[x].at = "await" /\ t = <<TheCall(x), reply>>
      BY <1>2, <1>4 DEF Said
    <2>1. PICK reply \in client'[x].answer :
            client'[x].at = "await" /\ t = <<TheCall(x), reply>>
      BY <2>a
    <2>2. CASE client'[x] = client[x]
      BY <2>1, <2>2, SaidMembers
    <2>3. CASE client'[x] # client[x]
      <3>1. /\ Awaits(h)
            /\ client' = [client EXCEPT ![h.client].answer = {h.outcome.reply}]
        BY <2>3 DEF Answer
      <3>2. x = h.client
        BY <2>3, <3>1 DEF CallsTyped
      <3>3. client[x] = [at |-> "await", attempt |-> client[x].attempt,
                         waited |-> client[x].waited,
                         answer |-> client[x].answer]
        BY <3>1, <3>2 DEF CallsTyped, ClientTyped, Awaits, Idle
      <3>4. client'[x].answer = {h.outcome.reply}
        BY <3>1, <3>2, <3>3 DEF CallsTyped
      <3>5. TheCall(x) = CallOf(h)
        BY <3>1, <3>2 DEF Awaits, TheCall, CallOf
      <3> QED BY <2>1, <3>4, <3>5
    <2> QED BY <2>2, <2>3
  <1> QED BY <1>3, <1>4

LEMMA NothingSaid ==
  ASSUME UNCHANGED <<calls, turn, client, told>>
  PROVE  Said' = Said
  BY DEF Said, TheCall

-----------------------------------------------------------------------------
(* Calls are what was asked for, and stores are sound, in every state *)

\* A call that is under way does not change.
LEMMA AttemptStays ==
  ASSUME NEW x, IsAttempt(x), calls' = calls
  PROVE  IsAttempt(x)' /\ CallOf(x)' = CallOf(x)
  BY DEF IsAttempt, CallOf, Incomplete

LEMMA InitTyped ==
  ASSUME Init
  PROVE  CallsTyped /\ StoresSound
  <1>1. CallsTyped
    BY DEF Init, CallsTyped, ClientTyped, Idle
  <1>2. PICK bundle \in Bundles : store = Seed(emptyState, bundle)
    BY DEF Init
  <1>3. StoreSound(store) /\ store.idempotency = emptyState.idempotency
    BY <1>2, EmptySound, VersionsPromise
  <1>4. DOMAIN store.idempotency = {}
    BY <1>3 DEF emptyState
  <1> QED BY <1>1, <1>3, <1>4 DEF StoresSound, KeysFromCalls, Init

LEMMA ClientTypedStays ==
  ASSUME CallsTyped, NEW c \in Clients, ClientStep(c), calls' = calls
  PROVE  CallsTyped'
  <1>1. /\ ClientMoves(c)
        /\ UNCHANGED server
        /\ wire' = wire
            \/ \E attempt :
                 /\ client[c].at = "send"
                 /\ wire' = wire \cup
                      {[client |-> c, turn |-> turn[c], attempt |-> attempt,
                        request |-> RequestOf(TheCall(c), attempt)]}
    BY ClientStepMoves
  <1>2. turn' \in [Clients -> Nat] /\ client' = [x \in Clients |-> client'[x]]
    BY <1>1 DEF ClientMoves, CallsTyped
  <1>3. \A x \in Clients : ClientTyped(x)'
    <2>1. ASSUME NEW x \in Clients, x # c
          PROVE  client'[x] = client[x] /\ turn'[x] = turn[x]
      BY <1>1, <2>1 DEF ClientMoves, CallsTyped
    <2>2. ASSUME NEW x \in Clients, x # c
          PROVE  ClientTyped(x)'
      BY <2>1, <2>2 DEF CallsTyped, ClientTyped, TheCall, Incomplete, Idle
    <2> QED BY <1>1, <2>2 DEF ClientMoves
  <1>4. ASSUME NEW m \in wire'
        PROVE  /\ IsAttempt(m)'
               /\ m.request = RequestOf(CallOf(m)', m.attempt)
    <2>1. CASE m \in wire
      BY <2>1, AttemptStays DEF CallsTyped
    <2>2. CASE m \notin wire
      <3>1. PICK attempt :
              /\ client[c].at = "send"
              /\ m = [client |-> c, turn |-> turn[c], attempt |-> attempt,
                      request |-> RequestOf(TheCall(c), attempt)]
        BY <1>1, <1>4, <2>2
      <3>2. turn[c] + 1 \in DOMAIN calls[c] /\ ~Incomplete(TheCall(c))
        BY <3>1 DEF CallsTyped, ClientTyped, Idle
      <3>3. CallOf(m) = TheCall(c)
        BY <3>1 DEF CallOf, TheCall
      <3>4. IsAttempt(m)
        BY <3>1, <3>2, <3>3 DEF IsAttempt
      <3> QED BY <3>1, <3>3, <3>4, AttemptStays
    <2> QED BY <2>1, <2>2
  <1>5. \A h \in open' : IsAttempt(h)'
    BY <1>1, AttemptStays DEF CallsTyped, server
  <1>6. \A m \in wire' :
          m.request = RequestOf(CallOf(m), m.attempt)'
    BY <1>4 DEF RequestOf, idempotencyKey
  <1> QED BY <1>2, <1>3, <1>4, <1>5, <1>6 DEF CallsTyped

LEMMA KeyOfRelease ==
  ASSUME NEW c \in Clients, NEW i \in DOMAIN calls[c],
         calls[c][i].kind = "release"
  PROVE  calls[c][i].key \in KeysFor(calls[c][i].subject)
  <1> DEFINE indices(x) == {j \in DOMAIN calls[x] :
                              /\ calls[x][j].kind = "release"
                              /\ calls[x][j].subject = calls[c][i].subject}
             keys(x) == {calls[x][j].key : j \in indices(x)}
  <1>1. calls[c][i].key \in keys(c)
    OBVIOUS
  <1>2. keys(c) \in {keys(x) : x \in Clients}
    OBVIOUS
  <1> QED BY <1>1, <1>2 DEF KeysFor

LEMMA HandleTyped ==
  ASSUME CallsTyped, StoresSound, NEW m \in wire, Handle(m), calls' = calls
  PROVE  /\ CallsTyped' /\ StoresSound'
         /\ UNCHANGED <<store, turn, client, told, advancing, erased, setBack>>
         /\ \E gate \in {"OK", "UNAVAILABLE"} : \E h :
              /\ open' = open \cup {h} /\ h.read = store
              /\ CallOf(h) = CallOf(m)
              /\ h.outcome
                   = route(store, RequestOf(CallOf(m), m.attempt), gate)
  <1>1. /\ wire' = wire \ {m}
        /\ UNCHANGED <<store, turn, client, told, advancing, erased, setBack>>
        /\ IsAttempt(m) /\ m.request = RequestOf(CallOf(m), m.attempt)
    BY DEF Handle, CallsTyped
  <1>2. PICK gate \in {"OK", "UNAVAILABLE"} :
          open' = open \cup
            {[client |-> m.client, turn |-> m.turn, attempt |-> m.attempt,
              read |-> store, outcome |-> route(store, m.request, gate)]}
    BY DEF Handle
  <1> DEFINE outcome == route(store, RequestOf(CallOf(m), m.attempt), gate)
             h == [client |-> m.client, turn |-> m.turn, attempt |-> m.attempt,
                   read |-> store, outcome |-> outcome]
  <1>3. open' = open \cup {h} /\ h.outcome = outcome /\ h.read = store
    BY <1>1, <1>2
  <1>4. CallOf(h) = CallOf(m) /\ IsAttempt(h)
    BY <1>1 DEF CallOf, IsAttempt
  <1> HIDE DEF h
  <1>5. CallsTyped'
    <2>1. \A x \in wire' \cup open' : IsAttempt(x)' /\ CallOf(x)' = CallOf(x)
      BY <1>1, <1>3, <1>4, AttemptStays DEF CallsTyped
    <2>2. ASSUME NEW x \in wire'
          PROVE  x.request = RequestOf(CallOf(x), x.attempt)'
      <3>1. x.request = RequestOf(CallOf(x), x.attempt)
        BY <1>1 DEF CallsTyped
      <3>2. CallOf(x)' = CallOf(x)
        BY <2>1
      <3> QED BY <3>1, <3>2 DEF RequestOf, idempotencyKey
    <2>3. \A x \in Clients : ClientTyped(x)'
      BY <1>1 DEF CallsTyped, ClientTyped, TheCall, Incomplete, Idle
    <2> QED BY <1>1, <2>1, <2>2, <2>3 DEF CallsTyped
  <1>6. StoresSound'
    <2>1. CallOf(m) \in AllCalls
      BY <1>1, CallTyped DEF CallsTyped, IsAttempt, CallOf
    <2>2. /\ StoreSound(outcome.store)
          /\ \A k \in DOMAIN outcome.store.idempotency :
               \/ /\ k \in DOMAIN store.idempotency
                  /\ outcome.store.idempotency[k] = store.idempotency[k]
               \/ /\ k = CallOf(m).key /\ CallOf(m).kind # "poll"
                  /\ outcome.store.idempotency[k].request
                       = CanonicalRequest(CallOf(m))
      <3> HIDE DEF outcome
      <3> QED BY <2>1, RouteOwed DEF outcome, StoresSound
    <2> HIDE DEF outcome
    <2>3. KeysFromCalls(outcome.store)
      <3> SUFFICES
            ASSUME NEW k \in DOMAIN outcome.store.idempotency,
                   k \notin DOMAIN store.idempotency
                     \/ outcome.store.idempotency[k] # store.idempotency[k],
                   outcome.store.idempotency[k].request.operation
                     = "createReleaseCandidate"
            PROVE  k \in KeysFor(outcome.store.idempotency[k].request.candidate)
        BY DEF KeysFromCalls, StoresSound
      <3>1. /\ k = CallOf(m).key
            /\ outcome.store.idempotency[k].request
                 = CanonicalRequest(CallOf(m))
            /\ CallOf(m).kind
                 \in {"draft", "release", "deploy", "rollback"}
        BY <2>1, <2>2, CallFields
      <3>2. /\ CallOf(m).kind = "release"
            /\ outcome.store.idempotency[k].request.candidate
                 = CallOf(m).subject
        BY <3>1 DEF CanonicalRequest, DraftRequest, ReleaseRequest,
                    DeployRequest, RollbackRequest
      <3> QED BY <1>1, <3>1, <3>2, KeyOfRelease DEF CallOf, IsAttempt
    <2>4. \A s : KeysFromCalls(s)' <=> KeysFromCalls(s)
      BY DEF KeysFromCalls, KeysFor
    <2> QED BY <1>1, <1>3, <2>2, <2>3, <2>4 DEF StoresSound
  <1> QED BY <1>1, <1>3, <1>4, <1>5, <1>6

LEMMA AnswerTyped ==
  ASSUME CallsTyped, StoresSound, NEW h \in open, Answer(h), calls' = calls
  PROVE  CallsTyped' /\ StoresSound'
  <1>1. /\ store' \in {store, h.outcome.store} /\ advancing' = advancing
        /\ open' = open \ {h} /\ wire' = wire /\ turn' = turn
        /\ \/ client' = client
           \/ /\ Awaits(h)
              /\ client' = [client EXCEPT ![h.client].answer =
                              {h.outcome.reply}]
    BY DEF Answer, Write
  <1>2. \A x \in wire \cup open : IsAttempt(x)' /\ CallOf(x)' = CallOf(x)
    BY AttemptStays DEF CallsTyped
  <1>3. \A x \in wire' : x.request = RequestOf(CallOf(x), x.attempt)'
    BY <1>1, <1>2 DEF CallsTyped, RequestOf, idempotencyKey
  <1>4. ASSUME NEW x \in Clients
        PROVE  ClientTyped(x)'
    <2>1. TheCall(x)' = TheCall(x)
      BY <1>1 DEF TheCall
    <2>2. CASE client'[x] = client[x]
      BY <1>1, <2>1, <2>2 DEF CallsTyped, ClientTyped, Incomplete, Idle
    <2>3. CASE client'[x] # client[x]
      <3> DEFINE c == client[x]
      <3>1. /\ x = h.client /\ Awaits(h)
            /\ client'[x] = [c EXCEPT !.answer = {h.outcome.reply}]
        BY <1>1, <2>3 DEF CallsTyped
      <3>2. /\ c = [at |-> "await", attempt |-> c.attempt,
                    waited |-> c.waited, answer |-> c.answer]
            /\ turn[x] + 1 \in DOMAIN calls[x] /\ ~Incomplete(TheCall(x))
        BY <3>1 DEF CallsTyped, ClientTyped, Awaits, Idle
      <3> HIDE DEF c
      <3>3. client'[x] = [at |-> "await", attempt |-> c.attempt,
                          waited |-> c.waited,
                          answer |-> {h.outcome.reply}]
        BY <3>1, <3>2
      <3>4. client'[x] = [at |-> "await", attempt |-> client'[x].attempt,
                          waited |-> client'[x].waited,
                          answer |-> client'[x].answer]
        BY <3>3
      <3> QED BY <1>1, <2>1, <3>2, <3>4 DEF ClientTyped, Incomplete
    <2> QED BY <2>2, <2>3
  <1>5. client' = [x \in Clients |-> client'[x]]
    BY <1>1 DEF CallsTyped
  <1>6. \A s : KeysFromCalls(s)' <=> KeysFromCalls(s)
    BY DEF KeysFromCalls, KeysFor
  <1>7. StoresSound'
    BY <1>1, <1>6 DEF StoresSound
  <1> QED BY <1>1, <1>2, <1>3, <1>4, <1>5, <1>7 DEF CallsTyped

LEMMA RemoteReadsTyped ==
  ASSUME CallsTyped, StoresSound, RemoteReads, calls' = calls
  PROVE  /\ CallsTyped' /\ StoresSound'
         /\ UNCHANGED <<store, turn, client, open, told, erased, setBack>>
         /\ \E a : /\ advancing' = {a} /\ a.read = store
                  /\ a.new.idempotency = store.idempotency
                  /\ Current(a.new) = Current(store) + 1
  <1>1. PICK bundle \in Bundles :
          advancing' = {[read |-> store, new |-> Advance(store, bundle)]}
    BY DEF RemoteReads
  <1>2. UNCHANGED <<store, turn, client, wire, open, told, erased, setBack>>
    BY DEF RemoteReads
  <1> DEFINE new == Advance(store, bundle)
             a == [read |-> store, new |-> new]
  <1>3. StoreSound(new) /\ new.idempotency = store.idempotency
    BY VersionsPromise DEF StoresSound
  <1>4. Current(new) = Current(store) + 1
    <2>1. IsMockState(store) /\ store.versions \in Seq(Bundles)
      BY DEF StoresSound, StoreSound, IsMockState
    <2>2. /\ Append(store.versions, bundle) \in Seq(Bundles)
          /\ Len(Append(store.versions, bundle)) = Len(store.versions) + 1
      BY <2>1
    <2>3. new.versions = Append(store.versions, bundle)
      BY <2>1, <2>2, NewVersions DEF Advance
    <2> QED BY <2>2, <2>3 DEF Current
  <1>5. CallsTyped'
    <2>1. \A x \in wire \cup open : IsAttempt(x)' /\ CallOf(x)' = CallOf(x)
      BY AttemptStays DEF CallsTyped
    <2>2. \A x \in wire' : x.request = RequestOf(CallOf(x), x.attempt)'
      BY <1>2, <2>1 DEF CallsTyped, RequestOf, idempotencyKey
    <2>3. \A x \in Clients : ClientTyped(x)'
      BY <1>2 DEF CallsTyped, ClientTyped, TheCall, Incomplete, Idle
    <2> QED BY <1>2, <2>1, <2>2, <2>3 DEF CallsTyped
  <1>6. a.new = new /\ a.read = store /\ advancing' = {a}
    BY <1>1
  <1> HIDE DEF a, new
  <1>7. \A s : KeysFromCalls(s)' <=> KeysFromCalls(s)
    BY DEF KeysFromCalls, KeysFor
  <1>8. KeysFromCalls(new)
    BY <1>3 DEF StoresSound, KeysFromCalls
  <1>9. StoresSound'
    BY <1>2, <1>3, <1>6, <1>7, <1>8 DEF StoresSound
  <1> QED BY <1>2, <1>3, <1>4, <1>5, <1>6, <1>9

LEMMA RemoteWritesTyped ==
  ASSUME CallsTyped, StoresSound, RemoteAdvances, calls' = calls
  PROVE  /\ CallsTyped' /\ StoresSound'
         /\ UNCHANGED <<turn, client, open, told>> /\ advancing' = {}
         /\ \E a \in advancing : Write(a.read, a.new)
  <1>1. UNCHANGED <<turn, client, wire, open, told>> /\ advancing' = {}
    BY DEF RemoteAdvances
  <1>2. PICK a \in advancing : Write(a.read, a.new)
    BY DEF RemoteAdvances
  <1>3. store' = a.new
    BY <1>2 DEF Write
  <1>4. CallsTyped'
    <2>1. \A x \in wire \cup open : IsAttempt(x)' /\ CallOf(x)' = CallOf(x)
      BY AttemptStays DEF CallsTyped
    <2>2. \A x \in wire' : x.request = RequestOf(CallOf(x), x.attempt)'
      BY <1>1, <2>1 DEF CallsTyped, RequestOf, idempotencyKey
    <2>3. \A x \in Clients : ClientTyped(x)'
      BY <1>1 DEF CallsTyped, ClientTyped, TheCall, Incomplete, Idle
    <2> QED BY <1>1, <2>1, <2>2, <2>3 DEF CallsTyped
  <1>5. \A s : KeysFromCalls(s)' <=> KeysFromCalls(s)
    BY DEF KeysFromCalls, KeysFor
  <1>6. StoresSound'
    BY <1>1, <1>3, <1>5 DEF StoresSound
  <1> QED BY <1>1, <1>2, <1>4, <1>6

LEMMA TypedNext ==
  ASSUME CallsTyped, StoresSound, [Next]_vars
  PROVE  CallsTyped' /\ StoresSound'
  <1>1. CASE UNCHANGED vars
    <2>0. /\ calls' = calls /\ turn' = turn /\ client' = client
          /\ wire' = wire /\ open' = open /\ store' = store
          /\ advancing' = advancing
      BY <1>1 DEF vars
    <2>1. \A x \in wire \cup open : IsAttempt(x)' /\ CallOf(x)' = CallOf(x)
      BY <2>0, AttemptStays DEF CallsTyped
    <2>2. \A x \in wire' : x.request = RequestOf(CallOf(x), x.attempt)'
      BY <2>0, <2>1 DEF CallsTyped, RequestOf, idempotencyKey
    <2>3. \A x \in Clients : ClientTyped(x)'
      BY <2>0 DEF CallsTyped, ClientTyped, TheCall, Incomplete, Idle
    <2>4. \A s : KeysFromCalls(s)' <=> KeysFromCalls(s)
      BY <2>0 DEF KeysFromCalls, KeysFor
    <2> QED BY <2>0, <2>1, <2>2, <2>3, <2>4 DEF CallsTyped, StoresSound
  <1>2. ASSUME NEW c \in Clients, ClientStep(c), calls' = calls
        PROVE  CallsTyped' /\ StoresSound'
    <2>1. CallsTyped' /\ UNCHANGED <<store, open, advancing>>
      BY <1>2, ClientTypedStays, ClientStepMoves DEF server
    <2>2. \A s : KeysFromCalls(s)' <=> KeysFromCalls(s)
      BY <1>2 DEF KeysFromCalls, KeysFor
    <2> QED BY <2>1, <2>2 DEF StoresSound
  <1>3. ASSUME NEW m \in wire, Handle(m), calls' = calls
        PROVE  CallsTyped' /\ StoresSound'
    BY <1>3, HandleTyped
  <1>4. ASSUME NEW h \in open, Answer(h), calls' = calls
        PROVE  CallsTyped' /\ StoresSound'
    BY <1>4, AnswerTyped
  <1>5. CASE (RemoteReads \/ RemoteAdvances) /\ calls' = calls
    BY <1>5, RemoteReadsTyped, RemoteWritesTyped
  <1> QED BY <1>1, <1>2, <1>3, <1>4, <1>5 DEF Next

LEMMA TypedAlways == Spec => [](CallsTyped /\ StoresSound)
  <1>1. Init => CallsTyped /\ StoresSound
    BY InitTyped
  <1>2. CallsTyped /\ StoresSound /\ [Next]_vars => (CallsTyped /\ StoresSound)'
    BY TypedNext
  <1> QED BY <1>1, <1>2, PTL DEF Spec

-----------------------------------------------------------------------------
(* One release per key *)

LEMMA FewKeys ==
  ASSUME CallsTyped, NEW candidate
  PROVE  IsFiniteSet(KeysFor(candidate))
  <1> DEFINE indices(c) == {j \in DOMAIN calls[c] :
                              /\ calls[c][j].kind = "release"
                              /\ calls[c][j].subject = candidate}
             keys(c) == {calls[c][i].key : i \in indices(c)}
             all == {keys(c) : c \in Clients}
  <1>1. ASSUME NEW c \in Clients
        PROVE  IsFiniteSet(keys(c))
    <2>1. calls \in [Clients -> Seq(AllCalls)]
      BY ScenariosAreCalls DEF CallsTyped
    <2>2. calls[c] \in Seq(AllCalls)
      BY <2>1
    <2>3. IsFiniteSet(DOMAIN calls[c])
      BY <2>2, FS_Interval
    <2>4. IsFiniteSet(indices(c))
      BY <2>3, FS_Subset
    <2> DEFINE f == [i \in indices(c) |-> calls[c][i].key]
    <2>5. f \in Surjection(indices(c), keys(c))
      BY DEF Surjection
    <2> HIDE DEF f, indices, keys
    <2> QED BY <2>4, <2>5, FS_Surjection
  <1>2. IsFiniteSet(all)
    <2> DEFINE f == [c \in Clients |-> keys(c)]
    <2>1. f \in Surjection(Clients, all)
      BY DEF Surjection
    <2> HIDE DEF f, all
    <2> QED BY <2>1, ClientsAreFew, FS_Surjection
  <1>3. \A T \in all : IsFiniteSet(T)
    BY <1>1
  <1>4. KeysFor(candidate) = UNION all
    BY DEF KeysFor
  <1> HIDE DEF all
  <1> QED BY <1>2, <1>3, <1>4, FS_UNION

\* Each release has a key, and no two have the same.
LEMMA SoundOncePerKey ==
  ASSUME CallsTyped, StoresSound
  PROVE  OncePerKey
  <1> SUFFICES ASSUME NEW candidate \in Candidates
               PROVE  Cardinality({i \in DOMAIN store.releases :
                                     store.releases[i].candidate = candidate})
                        <= Cardinality(KeysFor(candidate))
    BY DEF OncePerKey
  <1> DEFINE made == {i \in DOMAIN store.releases :
                        store.releases[i].candidate = candidate}
             by(k, i) == Created(store, "createReleaseCandidate", k, i)
             keyOf == [i \in made |-> CHOOSE k \in Keys : by(k, i)]
  <1>1. /\ ReleasesCreatedOnce(store) /\ IsMockState(store)
        /\ KeysFromCalls(store)
    BY DEF StoresSound, StoreSound
  <1>2. ASSUME NEW i \in made
        PROVE  by(keyOf[i], i) /\ keyOf[i] \in Keys
    <2>1. \E k \in Keys : by(k, i)
      BY <1>1 DEF ReleasesCreatedOnce
    <2> HIDE DEF by
    <2> QED BY <2>1
  <1> HIDE DEF keyOf
  <1>3. ASSUME NEW i \in made
        PROVE  keyOf[i] \in KeysFor(candidate)
    <2>1. /\ keyOf[i] \in DOMAIN store.idempotency
          /\ store.idempotency[keyOf[i]].response.id = i
          /\ store.idempotency[keyOf[i]].request.operation
               = "createReleaseCandidate"
      BY <1>2 DEF Created
    <2>2. store.idempotency[keyOf[i]].request.candidate = candidate
      BY <1>1, <1>2, <2>1 DEF ReleasesCreatedOnce
    <2> QED BY <1>1, <2>1, <2>2 DEF KeysFromCalls
  <1>4. \A i, j \in made : keyOf[i] = keyOf[j] => i = j
    BY <1>2 DEF Created
  <1>5. keyOf \in [made -> KeysFor(candidate)]
    BY <1>3 DEF keyOf
  <1>6. keyOf \in Injection(made, KeysFor(candidate))
    BY <1>4, <1>5 DEF Injection, IsInjective
  <1> HIDE DEF made
  <1>7. Cardinality(made) <= Cardinality(KeysFor(candidate))
    BY <1>6, FewKeys, FS_Injection
  <1> QED BY <1>7 DEF made

\* No key makes two releases, however many attempts there are at a call, however
\* late they come and however the server overlaps them.
THEOREM OncePerKeyAlways == Spec => []OncePerKey
  <1>1. CallsTyped /\ StoresSound => OncePerKey
    BY SoundOncePerKey
  <1> QED BY <1>1, TypedAlways, PTL

-----------------------------------------------------------------------------
(* What was told is so *)

LEMMA InitTold ==
  ASSUME Init
  PROVE  open = {} /\ advancing = {} /\ Said = {}
  BY DEF Init, Said, Idle

\* A STALE_BASE says nothing of the record; it says so however it is reported.
LEMMA ClientKeepsRecord ==
  ASSUME CallsTyped, ToldInv, NEW c \in Clients, ClientStep(c), calls' = calls
  PROVE  ToldInv'
  <1>1. UNCHANGED <<store, open, advancing, erased>>
    BY ClientStepMoves DEF server
  <1>2. ASSUME NEW t \in Said'
        PROVE  OnRecord(store, t[1], t[2]) \/ t[1].key \in erased
    <2>1. PICK u \in Said :
            /\ u[1] = t[1]
            /\ \/ u[2] = t[2]
               \/ u[2].code = "STALE_BASE" /\ t[2].code = "STALE_BASE"
      BY ClientSaid
    <2> QED BY <2>1 DEF ToldInv, OnRecord
  <1> QED BY <1>1, <1>2 DEF ToldInv, CallOf, OnRecord

LEMMA HandleKeepsRecord ==
  ASSUME CallsTyped, StoresSound, ToldInv,
         NEW m \in wire, Handle(m), calls' = calls
  PROVE  ToldInv'
  <1>1. /\ UNCHANGED <<store, turn, client, told, advancing, erased>>
        /\ \E gate \in {"OK", "UNAVAILABLE"} : \E h :
              /\ open' = open \cup {h} /\ h.read = store
              /\ CallOf(h) = CallOf(m)
              /\ h.outcome
                   = route(store, RequestOf(CallOf(m), m.attempt), gate)
    BY HandleTyped
  <1>a. PICK gate \in {"OK", "UNAVAILABLE"} : \E h :
          /\ open' = open \cup {h} /\ h.read = store
          /\ CallOf(h) = CallOf(m)
          /\ h.outcome = route(store, RequestOf(CallOf(m), m.attempt), gate)
    BY <1>1
  <1>2. PICK h :
          /\ open' = open \cup {h} /\ h.read = store
          /\ CallOf(h) = CallOf(m)
          /\ h.outcome = route(store, RequestOf(CallOf(m), m.attempt), gate)
    BY <1>a
  <1>3. CallOf(m) \in AllCalls
    BY CallTyped DEF CallsTyped, IsAttempt, CallOf
  <1>4. /\ Extends(h.read.idempotency, h.outcome.store.idempotency)
        /\ OnRecord(h.outcome.store, CallOf(h), h.outcome.reply)
    BY <1>2, <1>3, RouteOwed DEF StoresSound
  <1>5. Said' = Said
    BY <1>1, NothingSaid
  <1>6. \A x : CallOf(x)' = CallOf(x)
    BY DEF CallOf
  <1> QED BY <1>1, <1>2, <1>4, <1>5, <1>6 DEF ToldInv, OnRecord

\* A write takes a record away only if it was not there when the store was read,
\* and remembers that it did.
LEMMA WriteErases ==
  ASSUME NEW read, NEW new, Extends(read.idempotency, new.idempotency),
         Write(read, new), NEW call, NEW reply,
         OnRecord(store, call, reply) \/ call.key \in erased
  PROVE  OnRecord(store', call, reply) \/ call.key \in erased'
  <1>1. /\ store' = new
        /\ erased' = erased \cup
             {k \in DOMAIN store.idempotency :
                read # store /\ Recorded(new, k) # Recorded(store, k)}
    BY DEF Write
  <1>2. CASE call.key \in erased
    BY <1>1, <1>2
  <1>3. CASE ~(reply.code = "OK" /\ call.kind # "poll")
    BY <1>3 DEF OnRecord
  <1>4. CASE /\ reply.code = "OK" /\ call.kind # "poll"
             /\ call.key \in DOMAIN store.idempotency
             /\ store.idempotency[call.key].response = reply
    <2>1. CASE Recorded(new, call.key) = Recorded(store, call.key)
      BY <1>1, <1>4, <2>1 DEF OnRecord, Recorded
    <2>2. CASE Recorded(new, call.key) # Recorded(store, call.key)
      <3>1. read # store
        BY <1>4, <2>2 DEF Extends, Recorded
      <3> QED BY <1>1, <1>4, <2>2, <3>1
    <2> QED BY <2>1, <2>2
  <1> QED BY <1>2, <1>3, <1>4 DEF OnRecord

LEMMA AnswerKeepsRecord ==
  ASSUME CallsTyped, ToldInv, NEW h \in open, Answer(h), calls' = calls
  PROVE  ToldInv'
  <1>1. /\ open' = open \ {h} /\ advancing' = advancing
        /\ IF h.outcome.reply.code = "OK" THEN Write(h.read, h.outcome.store)
           ELSE UNCHANGED <<store, erased>>
    BY DEF Answer
  <1>2. Extends(h.read.idempotency, h.outcome.store.idempotency)
    BY DEF ToldInv
  <1>3. ASSUME NEW t \in Said'
        PROVE  OnRecord(store', t[1], t[2]) \/ t[1].key \in erased'
    <2>1. CASE t \in Said
      <3>1. OnRecord(store, t[1], t[2]) \/ t[1].key \in erased
        BY <2>1 DEF ToldInv
      <3>2. CASE h.outcome.reply.code = "OK"
        BY <1>1, <1>2, <3>1, <3>2, WriteErases
      <3>3. CASE h.outcome.reply.code # "OK"
        BY <1>1, <3>1, <3>3
      <3> QED BY <3>2, <3>3
    <2>2. CASE t = <<CallOf(h), h.outcome.reply>>
      <3>1. OnRecord(h.outcome.store, t[1], t[2])
        BY <2>2 DEF ToldInv
      <3>2. CASE h.outcome.reply.code = "OK"
        BY <1>1, <3>1, <3>2 DEF Write
      <3>3. CASE h.outcome.reply.code # "OK"
        BY <2>2, <3>3 DEF OnRecord
      <3> QED BY <3>2, <3>3
    <2> QED BY <2>1, <2>2, AnswerSaid
  <1>4. \A x : CallOf(x)' = CallOf(x)
    BY DEF CallOf
  <1> QED BY <1>1, <1>3, <1>4 DEF ToldInv, OnRecord

LEMMA RemoteKeepsRecord ==
  ASSUME CallsTyped, StoresSound, ToldInv, RemoteReads \/ RemoteAdvances,
         calls' = calls
  PROVE  ToldInv'
  <1>0. \A x : CallOf(x)' = CallOf(x)
    BY DEF CallOf
  <1>1. CASE RemoteReads
    <2>1. /\ UNCHANGED <<store, turn, client, open, told, erased>>
          /\ \E a : /\ advancing' = {a} /\ a.read = store
                   /\ a.new.idempotency = store.idempotency
      BY <1>1, RemoteReadsTyped
    <2>2. Said' = Said
      BY <2>1, NothingSaid
    <2> QED BY <1>0, <2>1, <2>2 DEF ToldInv, OnRecord, Extends
  <1>2. CASE RemoteAdvances
    <2>1. UNCHANGED <<turn, client, open, told>> /\ advancing' = {}
      BY <1>2, RemoteWritesTyped
    <2>2. PICK a \in advancing : Write(a.read, a.new)
      BY <1>2, RemoteWritesTyped
    <2>3. Said' = Said
      BY <2>1, NothingSaid
    <2>4. ASSUME NEW t \in Said
          PROVE  OnRecord(store', t[1], t[2]) \/ t[1].key \in erased'
      <3>1. Extends(a.read.idempotency, a.new.idempotency)
        BY DEF ToldInv
      <3>2. OnRecord(store, t[1], t[2]) \/ t[1].key \in erased
        BY DEF ToldInv
      <3> QED BY <2>2, <3>1, <3>2, WriteErases
    <2> QED BY <1>0, <2>1, <2>3, <2>4 DEF ToldInv, OnRecord
  <1> QED BY <1>1, <1>2

LEMMA ToldNext ==
  ASSUME CallsTyped, StoresSound, ToldInv, [Next]_vars
  PROVE  ToldInv'
  <1>1. CASE UNCHANGED vars
    <2>1. /\ Said' = Said /\ store' = store /\ open' = open /\ calls' = calls
          /\ advancing' = advancing /\ erased' = erased
      BY <1>1, NothingSaid DEF vars
    <2> QED BY <2>1 DEF ToldInv, CallOf, OnRecord
  <1> QED BY <1>1, ClientKeepsRecord, HandleKeepsRecord, AnswerKeepsRecord,
             RemoteKeepsRecord DEF Next

\* What a caller was told was made is there under its key, and stays there with the
\* answer that the caller got, unless somebody who read the store before wrote it
\* after; no other write takes anything away.
THEOREM ToldIsTrueAlways == Spec => []ToldIsTrue
  <1>1. Init => ToldInv
    BY InitTold DEF ToldInv
  <1>2. CallsTyped /\ StoresSound /\ ToldInv /\ [Next]_vars => ToldInv'
    BY ToldNext
  <1>3. ToldInv => ToldIsTrue
    BY DEF ToldInv, ToldIsTrue, KeptAsTold, Said, OnRecord
  <1> QED BY <1>1, <1>2, <1>3, TypedAlways, PTL DEF Spec

-----------------------------------------------------------------------------
(* What was stale is undone *)

\* The envelope refuses a base only of a request that no key is bound to.
LEMMA EnvelopeStale ==
  ASSUME NEW s, AnswersSound(s), NEW key, NEW request, NEW effect,
         NEW gate \in {"OK", "UNAVAILABLE"}, NEW outcome,
         outcome = Gated(s, gate, Idempotent(s, key, request, effect)),
         outcome.reply.code = "STALE_BASE"
  PROVE  key \notin DOMAIN s.idempotency /\ effect.reply.code = "STALE_BASE"
  <1>1. outcome = Idempotent(s, key, request, effect)
    BY RefuseFacts DEF Gated
  <1>2. key \notin DOMAIN s.idempotency
    BY <1>1, RefuseFacts DEF Idempotent, AnswersSound, Outcome
  <1>3. effect.reply.code = "OK" => outcome.reply = effect.reply
    BY <1>1, <1>2 DEF Idempotent, Outcome
  <1> QED BY <1>1, <1>2, <1>3 DEF Idempotent

\* ... and leaves the store alone when the effect refuses.
LEMMA EnvelopeRefuses ==
  ASSUME NEW s, NEW key, NEW request, NEW effect, NEW gate, NEW code,
         effect = Refuse(s, code), code # "OK"
  PROVE  Gated(s, gate, Idempotent(s, key, request, effect)).store = s
  BY RefuseFacts DEF Gated, Idempotent, Outcome

\* The version that calls expect is the first; the remote has it or is beyond it.
LEMMA BaseStale ==
  ASSUME NEW s, NEW call \in BasedCalls, ~Incomplete(call),
         call.base <= 1, call.etag <= 1, NEW attempt, NEW gate
  PROVE  LET context == ContextOf(call, attempt, gate) IN
         StaleBase(s, context) <=> Current(s) # 1
  <1> DEFINE r == RequestOf(call, attempt)
             context == ContextOf(call, attempt, gate)
  <1>1. call \in AllCalls /\ call.kind \in {"draft", "release"}
    BY DEF BasedCalls
  <1>2. /\ r.base = call.base /\ r.etag \in {0, call.etag}
        /\ call.base \in Nat /\ call.etag \in Nat
    BY <1>1, RequestFields, CallFields
  <1>3. call.base = 1 /\ call.etag \in {0, 1}
    BY <1>1, <1>2 DEF Incomplete
  <1>4. context.base = r.base /\ context.etag = r.etag
    BY DEF ContextOf
  <1> HIDE DEF r, context
  <1> QED BY <1>2, <1>3, <1>4 DEF StaleBase, context

\* An attempt at a call with a base: refused, without effect, once the remote has
\* moved on, and if it is refused for that the call was not carried out before.
LEMMA BasedStale ==
  ASSUME NEW s, StoreSound(s), NEW call \in BasedCalls, ~Incomplete(call),
         call.base <= 1, call.etag <= 1, NEW attempt,
         NEW gate \in {"OK", "UNAVAILABLE"}, NEW outcome,
         outcome = route(s, RequestOf(call, attempt), gate)
  PROVE  /\ outcome.reply.code = "STALE_BASE" =>
              Current(s) > 1 /\ ~Done(s, call)
         /\ Current(s) > 1 => outcome.store = s
  <1> DEFINE context == ContextOf(call, attempt, gate)
             request == CanonicalRequest(call)
  <1>1. call \in AllCalls /\ call.kind \in {"draft", "release"}
    BY DEF BasedCalls
  <1>2. context.key = call.key /\ context.gate = gate
    BY DEF ContextOf
  <1>3. StaleBase(s, context) <=> Current(s) # 1
    BY BaseStale
  <1>4. AnswersSound(s) /\ Current(s) \in Nat
    BY DEF StoreSound, IsMockState, Current
  <1>5. \/ \E effect :
             /\ outcome = Gated(s, gate,
                                Idempotent(s, call.key, request, effect))
             /\ effect.reply.code = "STALE_BASE" =>
                  Current(s) # 0 /\ StaleBase(s, context)
             /\ Current(s) # 0 /\ StaleBase(s, context) =>
                  effect = Refuse(s, "STALE_BASE")
        \/ outcome = Gated(s, gate, Refuse(s, "POLICY_FAILED"))
    <2>1. CASE call.kind = "draft"
      <3> DEFINE effect == DraftEffect(s, context, call.subject)
      <3>1. /\ request = DraftRequest(call.subject)
            /\ outcome = createDraft(s, context, call.subject)
        BY <1>1, <2>1, RouteByKind
      <3>2. outcome = Gated(s, gate,
                            Idempotent(s, call.key, request, effect))
        BY <1>2, <3>1 DEF createDraft
      <3>3. /\ effect.reply.code = "STALE_BASE" =>
                 Current(s) # 0 /\ StaleBase(s, context)
            /\ Current(s) # 0 /\ StaleBase(s, context) =>
                 effect = Refuse(s, "STALE_BASE")
        BY RefuseFacts DEF DraftEffect, Outcome, Reply
      <3> HIDE DEF effect, request, context
      <3> QED BY <3>2, <3>3
    <2>2. CASE call.kind = "release"
      <3> DEFINE effect == ReleaseEffect(s, context, call.subject, Evidence)
      <3>1. /\ request = ReleaseRequest(call.subject, Evidence)
            /\ outcome = createReleaseCandidate(s, context, call.subject,
                                                Evidence)
        BY <1>1, <2>2, RouteByKind
      <3>2. \/ outcome = Gated(s, gate,
                               Idempotent(s, call.key, request, effect))
            \/ outcome = Gated(s, gate, Refuse(s, "POLICY_FAILED"))
        BY <1>2, <3>1 DEF createReleaseCandidate
      <3>3. /\ effect.reply.code = "STALE_BASE" =>
                 Current(s) # 0 /\ StaleBase(s, context)
            /\ Current(s) # 0 /\ StaleBase(s, context) =>
                 effect = Refuse(s, "STALE_BASE")
        BY RefuseFacts DEF ReleaseEffect, Outcome, Reply
      <3> HIDE DEF effect, request, context
      <3> QED BY <3>2, <3>3
    <2> QED BY <1>1, <2>1, <2>2
  <1> HIDE DEF request, context
  <1>6. CASE outcome = Gated(s, gate, Refuse(s, "POLICY_FAILED"))
    BY <1>6, RefuseFacts DEF Gated
  <1>7. ASSUME NEW effect,
               outcome = Gated(s, gate,
                               Idempotent(s, call.key, request, effect)),
               effect.reply.code = "STALE_BASE" =>
                 Current(s) # 0 /\ StaleBase(s, context),
               Current(s) # 0 /\ StaleBase(s, context) =>
                 effect = Refuse(s, "STALE_BASE")
        PROVE  /\ outcome.reply.code = "STALE_BASE" =>
                    Current(s) > 1 /\ ~Done(s, call)
               /\ Current(s) > 1 => outcome.store = s
    <2>1. ASSUME outcome.reply.code = "STALE_BASE"
          PROVE  Current(s) > 1 /\ ~Done(s, call)
      <3>1. /\ call.key \notin DOMAIN s.idempotency
            /\ effect.reply.code = "STALE_BASE"
        BY <1>4, <1>7, <2>1, EnvelopeStale
      <3>2. Current(s) # 0 /\ Current(s) # 1
        BY <1>3, <1>7, <3>1
      <3> QED BY <1>4, <3>1, <3>2 DEF Done
    <2>2. ASSUME Current(s) > 1
          PROVE  outcome.store = s
      <3>1. effect = Refuse(s, "STALE_BASE")
        BY <1>3, <1>4, <1>7, <2>2
      <3> QED BY <1>7, <3>1, EnvelopeRefuses
    <2> QED BY <2>1, <2>2
  <1> QED BY <1>5, <1>6, <1>7

\* Calls without a base are never refused for it.
LEMMA NeverStale ==
  ASSUME NEW s, StoreSound(s), NEW call \in AllCalls,
         call.kind \notin {"draft", "release"}, NEW attempt,
         NEW gate \in {"OK", "UNAVAILABLE"}, NEW outcome,
         outcome = route(s, RequestOf(call, attempt), gate)
  PROVE  outcome.reply.code # "STALE_BASE"
  <1> DEFINE context == ContextOf(call, attempt, gate)
  <1>0. AnswersSound(s)
    BY DEF StoreSound
  <1>1. context.gate = gate
    BY DEF ContextOf
  <1>2. \A id, environment :
          DeployEffect(s, id, environment, "healthy").reply.code # "STALE_BASE"
    BY RefuseFacts DEF DeployEffect, Outcome, Reply
  <1>3. \A id : RollbackEffect(s, id).reply.code # "STALE_BASE"
    BY RefuseFacts DEF RollbackEffect, Outcome, Reply
  <1>4. \A id : PollEffect(s, id).reply.code # "STALE_BASE"
    BY RefuseFacts DEF PollEffect, Outcome, Reply
  <1>5. ASSUME NEW key, NEW request, NEW effect,
               effect.reply.code # "STALE_BASE"
        PROVE  Gated(s, gate, Idempotent(s, key, request, effect)).reply.code
                 # "STALE_BASE"
    BY <1>0, <1>5, EnvelopeStale
  <1>6. \A code : code # "STALE_BASE" =>
          Gated(s, gate, Refuse(s, code)).reply.code # "STALE_BASE"
    BY RefuseFacts DEF Gated
  <1>7. CASE call.kind = "deploy"
    <2>1. outcome = createDeployment(s, context, call.subject, "staging",
                                     "healthy")
      BY <1>7, RouteByKind
    <2> HIDE DEF context
    <2> QED BY <1>1, <1>2, <1>5, <1>6, <2>1 DEF createDeployment
  <1>8. CASE call.kind = "rollback"
    <2>1. PICK reason \in Reasons :
            outcome = rollbackDeployment(s, context, call.subject, reason)
      BY <1>8, RouteByKind
    <2> HIDE DEF context
    <2> QED BY <1>1, <1>3, <1>5, <1>6, <2>1 DEF rollbackDeployment
  <1>9. CASE call.kind = "poll"
    <2>1. outcome = getDeployment(s, gate, call.subject)
      BY <1>9, RouteByKind
    <2> QED BY <1>4, <2>1, RefuseFacts DEF getDeployment, Gated
  <1> QED BY <1>7, <1>8, <1>9, CallFields

\* Once the remote has moved on, no attempt carries out a call with a base.
LEMMA RouteAlike ==
  ASSUME NEW s, StoreSound(s), Current(s) > 1,
         NEW call \in AllCalls, ~Incomplete(call),
         call.base <= 1, call.etag <= 1, NEW attempt,
         NEW gate \in {"OK", "UNAVAILABLE"}, NEW outcome,
         outcome = route(s, RequestOf(call, attempt), gate)
  PROVE  Alike(s, outcome.store)
  <1>1. CASE call \in BasedCalls
    BY <1>1, BasedStale DEF Alike
  <1>2. CASE call \notin BasedCalls
    <2> DEFINE t == outcome.store
    <2>1. /\ Extends(s.idempotency, t.idempotency)
          /\ \A k \in DOMAIN t.idempotency :
               \/ /\ k \in DOMAIN s.idempotency
                  /\ t.idempotency[k] = s.idempotency[k]
               \/ /\ k = call.key /\ call.kind # "poll"
                  /\ t.idempotency[k].request = CanonicalRequest(call)
      BY RouteOwed
    <2>2. call.kind \in {"deploy", "rollback", "poll"}
      BY <1>2, CallFields DEF BasedCalls
    <2>3. call.kind # "poll" =>
            CanonicalRequest(call).operation
              \in {"createDeployment", "rollbackDeployment"}
      BY <2>2 DEF CanonicalRequest, DeployRequest, RollbackRequest
    <2> HIDE DEF t
    <2>4. ASSUME NEW other \in BasedCalls
          PROVE  Done(s, other) <=> Done(t, other)
      <3>1. CanonicalRequest(other).operation
              \in {"createDraft", "createReleaseCandidate"}
        BY DEF BasedCalls, CanonicalRequest, DraftRequest, ReleaseRequest
      <3>2. CanonicalRequest(other) # CanonicalRequest(call)
              \/ call.kind = "poll"
        BY <2>3, <3>1
      <3>3. Done(s, other) => Done(t, other)
        BY <2>1 DEF Done, Extends
      <3>4. Done(t, other) => Done(s, other)
        BY <2>1, <3>2 DEF Done
      <3> QED BY <3>3, <3>4
    <2> QED BY <2>4 DEF Alike, t
  <1> QED BY <1>1, <1>2

LEMMA SaidStays ==
  ASSUME UNCHANGED <<calls, store>>
  PROVE  /\ \A call, reply : StaleFor(call, reply)' <=> StaleFor(call, reply)
         /\ \A x : CallOf(x)' = CallOf(x)
  BY DEF StaleFor, CallOf

LEMMA ClientKeepsStale ==
  ASSUME CallsTyped, StaleInv, NEW c \in Clients, ClientStep(c), calls' = calls
  PROVE  StaleInv'
  <1>1. UNCHANGED <<store, open, advancing, setBack>>
    BY ClientStepMoves DEF server
  <1>2. ASSUME ~setBack, NEW t \in Said'
        PROVE  StaleFor(t[1], t[2])
    <2>1. PICK u \in Said :
            /\ u[1] = t[1]
            /\ \/ u[2] = t[2]
               \/ u[2].code = "STALE_BASE" /\ t[2].code = "STALE_BASE"
      BY ClientSaid
    <2> QED BY <1>2, <2>1 DEF StaleInv, StaleFor
  <1> QED BY <1>1, <1>2, SaidStays DEF StaleInv

LEMMA HandleKeepsStale ==
  ASSUME NoFutureBases, CallsTyped, StoresSound, StaleInv,
         NEW m \in wire, Handle(m), calls' = calls
  PROVE  StaleInv'
  <1> DEFINE call == CallOf(m)
  <1>1. /\ UNCHANGED <<store, turn, client, told, advancing, setBack>>
        /\ \E gate \in {"OK", "UNAVAILABLE"} : \E h :
              /\ open' = open \cup {h} /\ CallOf(h) = call
              /\ h.outcome = route(store, RequestOf(call, m.attempt), gate)
    BY HandleTyped
  <1>a. PICK gate \in {"OK", "UNAVAILABLE"} : \E h :
          /\ open' = open \cup {h} /\ CallOf(h) = call
          /\ h.outcome = route(store, RequestOf(call, m.attempt), gate)
    BY <1>1
  <1>2. PICK h :
          /\ open' = open \cup {h} /\ CallOf(h) = call
          /\ h.outcome = route(store, RequestOf(call, m.attempt), gate)
    BY <1>a
  <1>3. /\ call \in AllCalls /\ ~Incomplete(call)
        /\ call.base <= 1 /\ call.etag <= 1
    BY NoFutureBases, CallTyped DEF CallsTyped, IsAttempt, CallOf
  <1> HIDE DEF call
  <1>4. Current(h.outcome.store) = Current(store) /\ Current(store) \in Nat
    <2>1. h.outcome.store.versions = store.versions
      BY <1>2, <1>3, RouteOwed DEF StoresSound
    <2> QED BY <2>1 DEF Current, StoresSound, StoreSound, IsMockState
  <1>5. Current(store) > 1 => Alike(store, h.outcome.store)
    BY <1>2, <1>3, RouteAlike DEF StoresSound
  <1>6. StaleFor(call, h.outcome.reply)
    <2>1. CASE call \in BasedCalls
      BY <1>2, <1>3, <2>1, BasedStale DEF StoresSound, StaleFor
    <2>2. CASE call \notin BasedCalls
      BY <1>2, <1>3, <2>2, NeverStale DEF StoresSound, StaleFor, BasedCalls
    <2> QED BY <2>1, <2>2
  <1>7. NoNewer(store, h.outcome.store)
    BY <1>4, <1>5 DEF NoNewer
  <1>8. Said' = Said
    BY <1>1, NothingSaid
  <1> QED BY <1>1, <1>2, <1>6, <1>7, <1>8, SaidStays DEF StaleInv

\* A write of what is no newer sets the remote back, or changes nothing about calls
\* with a base.
LEMMA WriteStale ==
  ASSUME NEW read, NEW new, Write(read, new), ~setBack', NoNewer(store, new),
         Current(store) \in Nat, Current(new) \in Nat
  PROVE  /\ ~setBack /\ Current(store') = Current(store)
         /\ Current(store) > 1 => Alike(store, store')
  <1>1. store' = new /\ ~setBack /\ ~(Current(new) < Current(store))
    BY Zenon DEF Write
  <1> QED BY <1>1 DEF NoNewer

LEMMA AnswerKeepsStale ==
  ASSUME CallsTyped, StoresSound, StaleInv, NEW h \in open, Answer(h),
         calls' = calls
  PROVE  StaleInv'
  <1> SUFFICES ASSUME ~setBack'
               PROVE  StaleInv'
    BY DEF StaleInv
  <1>1. open' = open \ {h} /\ advancing' = advancing
    BY DEF Answer
  <1>2. ~setBack
    BY DEF Answer, Write
  <1>3. /\ Current(store') = Current(store)
        /\ Current(store) > 1 => Alike(store, store')
    <2>1. CASE h.outcome.reply.code = "OK"
      <3>1. NoNewer(store, h.outcome.store)
        BY <1>2 DEF StaleInv
      <3>2. Current(store) \in Nat /\ Current(h.outcome.store) \in Nat
        BY DEF StoresSound, StoreSound, IsMockState, Current
      <3> QED BY <2>1, <3>1, <3>2, WriteStale DEF Answer
    <2>2. CASE h.outcome.reply.code # "OK"
      BY <2>2 DEF Answer, Alike
    <2> QED BY <2>1, <2>2
  <1>4. \A call, reply : StaleFor(call, reply) => StaleFor(call, reply)'
    BY <1>3 DEF StaleFor, Alike
  <1>5. ASSUME NEW t \in Said'
        PROVE  StaleFor(t[1], t[2])
    BY <1>2, AnswerSaid DEF StaleInv
  <1>6. ASSUME NEW g \in open'
        PROVE  NoNewer(store', g.outcome.store)
    <2>1. NoNewer(store, g.outcome.store)
      BY <1>1, <1>2 DEF StaleInv
    <2> QED BY <1>3, <2>1 DEF NoNewer, Alike
  <1>7. ASSUME NEW a \in advancing
        PROVE  /\ Current(a.new) = Current(store') + 1
               /\ Current(store') > 1 => Alike(store', a.new)
    BY <1>2, <1>3 DEF StaleInv, Alike
  <1>8. \A x : CallOf(x)' = CallOf(x)
    BY DEF CallOf
  <1> QED BY <1>1, <1>2, <1>4, <1>5, <1>6, <1>7, <1>8 DEF StaleInv

LEMMA RemoteKeepsStale ==
  ASSUME CallsTyped, StoresSound, StaleInv, RemoteReads \/ RemoteAdvances,
         calls' = calls
  PROVE  StaleInv'
  <1> SUFFICES ASSUME ~setBack'
               PROVE  StaleInv'
    BY DEF StaleInv
  <1>0. Current(store) \in Nat
    BY DEF StoresSound, StoreSound, IsMockState, Current
  <1>1. CASE RemoteReads
    <2>1. /\ UNCHANGED <<store, turn, client, open, told, setBack>>
          /\ \E a : /\ advancing' = {a}
                   /\ a.new.idempotency = store.idempotency
                   /\ Current(a.new) = Current(store) + 1
      BY <1>1, RemoteReadsTyped
    <2>2. PICK a : /\ advancing' = {a}
                   /\ a.new.idempotency = store.idempotency
                   /\ Current(a.new) = Current(store) + 1
      BY <2>1
    <2>3. Alike(store, a.new)
      BY <2>2 DEF Alike, Done
    <2>4. Said' = Said
      BY <2>1, NothingSaid
    <2> QED BY <2>1, <2>2, <2>3, <2>4, SaidStays DEF StaleInv
  <1>2. CASE RemoteAdvances
    <2>1. UNCHANGED <<turn, client, open, told>> /\ advancing' = {}
      BY <1>2, RemoteWritesTyped
    <2>2. PICK a \in advancing : Write(a.read, a.new)
      BY <1>2, RemoteWritesTyped
    <2>3. store' = a.new /\ ~setBack
      BY <2>2 DEF Write
    <2>4. /\ Current(store') = Current(store) + 1
          /\ Current(store) > 1 => Alike(store, store')
      BY <2>3 DEF StaleInv
    <2>5. \A call, reply : StaleFor(call, reply) => StaleFor(call, reply)'
      BY <1>0, <2>4 DEF StaleFor, Alike
    <2>6. ASSUME NEW h \in open
          PROVE  NoNewer(store', h.outcome.store)
      <3>1. NoNewer(store, h.outcome.store)
        BY <2>3 DEF StaleInv
      <3>2. Current(h.outcome.store) \in Nat
        BY DEF StoresSound, StoreSound, IsMockState, Current
      <3> QED BY <1>0, <2>4, <3>1, <3>2 DEF NoNewer
    <2>7. Said' = Said
      BY <2>1, NothingSaid
    <2>8. \A x : CallOf(x)' = CallOf(x)
      BY DEF CallOf
    <2> QED BY <2>1, <2>3, <2>5, <2>6, <2>7, <2>8 DEF StaleInv
  <1> QED BY <1>1, <1>2

LEMMA StaleNext ==
  ASSUME NoFutureBases, CallsTyped, StoresSound, StaleInv, [Next]_vars
  PROVE  StaleInv'
  <1>1. CASE UNCHANGED vars
    <2>1. /\ Said' = Said /\ UNCHANGED <<store, open, calls, advancing, setBack>>
      BY <1>1, NothingSaid DEF vars
    <2> QED BY <2>1, SaidStays DEF StaleInv
  <1> QED BY NoFutureBases, <1>1, ClientKeepsStale, HandleKeepsStale,
             AnswerKeepsStale, RemoteKeepsStale DEF Next

\* A caller that is told STALE_BASE can start anew: its call was not carried out,
\* by no attempt, and no attempt that is still on its way or being handled will do
\* so, however handlers and changes of the agent overlap, unless one of them sets
\* the agent back to a version that it had.
THEOREM StaleIsUndoneAlways ==
  ASSUME NoFutureBases
  PROVE  Spec => []StaleIsUndone
  <1>1. Init => StaleInv
    BY InitTold DEF StaleInv
  <1>2. CallsTyped /\ StoresSound /\ StaleInv /\ [Next]_vars => StaleInv'
    BY NoFutureBases, StaleNext
  <1>3. StaleInv => StaleIsUndone
    BY DEF StaleInv, StaleFor, StaleIsUndone, Said
  <1> QED BY <1>1, <1>2, <1>3, TypedAlways, PTL DEF Spec
=============================================================================
