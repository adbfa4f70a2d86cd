--------------------------- MODULE ManagementApi ---------------------------
(***************************************************************************)
(* The HTTP management provider (packages/provider-http), the server it    *)
(* talks to (apps/mock-management-api) and the provider behind that.       *)
(*                                                                         *)
(* A call is made in attempts under one idempotency key.  The client may   *)
(* give up on an attempt that the server has not seen, is handling, or has *)
(* answered; the server then still handles it, late, next to the attempts  *)
(* that follow.  Gateways in between may answer in the server's stead.     *)
(*                                                                         *)
(* A handler, like whoever changes the agent, reads the store, and writes  *)
(* all of it later; nothing locks it in between.  Whoever writes last      *)
(* erases what was written since it read.                                  *)
(***************************************************************************)
EXTENDS ProviderState, FiniteSets

CONSTANTS
  Clients,      \* processes that make calls, one at a time each
  Scenarios,    \* the calls that each makes, in order
  MaxAttempts,  \* of RetryOptions; 3 by default, at least 1
  BaseDelay, MaxDelay, MaxElapsed,  \* of RetryOptions, in eighths of a second
  GatewayStatuses,  \* statuses a gateway may answer with, without a problem body
  GatewayHints,     \* Retry-After values it may send along, NoHint for none
  MaxOpen,      \* requests that the server is in the middle of at a time
  MaxVersions   \* bound of a run on the remote's versions

NoHint == 99999
OneSecond == 8

\* What a caller asks for; `base` and `etag` are 0 when it expects nothing.
CallsOf(kind, fields) == [kind : {kind}, key : Keys, base : Nat, etag : Nat,
                          subject : fields]
AllCalls ==
  CallsOf("draft", Candidates) \cup CallsOf("release", Candidates)
    \cup CallsOf("deploy", Nat) \cup CallsOf("rollback", Nat)
    \cup CallsOf("poll", Nat)
ASSUME ScenariosAreCalls == Scenarios \subseteq [Clients -> Seq(AllCalls)]
ASSUME ClientsAreFew == IsFiniteSet(Clients)
ASSUME ReasonsExist == Reasons # {}
ASSUME AttemptsArePositive == MaxAttempts \in Nat \ {0}
ASSUME DelaysAreNumbers ==
  /\ BaseDelay \in Nat \ {0} /\ MaxDelay \in Nat \ {0} /\ MaxElapsed \in Nat
  /\ GatewayHints \subseteq Nat

VARIABLES
  calls,    \* the scenario of this run
  store,    \* state.json of the provider
  turn,     \* how many calls each client has finished
  client,   \* the call each client is in the middle of
  wire,     \* attempts that have not reached the server
  open,     \* attempts the server is handling: the store it read and the
            \* outcome it computed from that
  advancing,    \* a change of the agent that is being made: {} or one
  told,     \* what callers were told of the provider: <<call, reply>>
  \* history variables, which nothing in the code reads:
  erased,   \* keys whose record was erased by a write of an older read
  setBack   \* whether such a write set the remote back to an older version

vars == <<calls, store, turn, client, wire, open, advancing, told, erased, setBack>>
server == <<store, open, advancing, erased, setBack>>

Idle == [at |-> "idle"]
TheCall(c) == calls[c][turn[c] + 1]

Init ==
  /\ calls \in Scenarios
  /\ \E bundle \in Bundles : store = Seed(emptyState, bundle)
  /\ turn = [c \in Clients |-> 0]
  /\ client = [c \in Clients |-> Idle]
  /\ wire = {}
  /\ open = {}
  /\ advancing = {}
  /\ told = {}
  /\ erased = {}
  /\ setBack = FALSE

-----------------------------------------------------------------------------
(* The client *)

\* Only answers that say what became of the call are kept.
Telling == {"OK", "STALE_BASE"}
End(c, reply) ==
  /\ told' = told \cup (IF reply.code \in Telling THEN {<<TheCall(c), reply>>}
                        ELSE {})
  /\ turn' = [turn EXCEPT ![c] = @ + 1]
  /\ client' = [client EXCEPT ![c] = Idle]

\* Drafts need a base version and an ETag, releases a base version.
Incomplete(call) ==
  \/ call.kind = "draft" /\ (call.base = 0 \/ call.etag = 0)
  \/ call.kind = "release" /\ call.base = 0

Begin(c) ==
  /\ client[c].at = "idle"
  /\ turn[c] < Len(calls[c])
  /\ IF Incomplete(TheCall(c))
     THEN End(c, Reply("VALIDATION_FAILED", 0, "NONE"))
     ELSE /\ client' = [client EXCEPT ![c] =
                          [at |-> "send", attempt |-> 1, waited |-> 0]]
          /\ UNCHANGED <<turn, told>>
  /\ UNCHANGED <<server, wire>>

\* Mutant: another key once the first attempt has failed.
freshKey(call, attempt) ==
  IF attempt = 1 THEN call.key ELSE CHOOSE k \in Keys : k # call.key
\* All attempts have the headers of the first.
idempotencyKey(call, attempt) == call.key

\* What goes over the wire: only drafts carry If-Match, and only drafts and
\* releases a base version.
RequestOf(call, attempt) ==
  [call EXCEPT !.key = idempotencyKey(call, attempt),
               !.base = IF call.kind \in {"draft", "release"} THEN @ ELSE 0,
               !.etag = IF call.kind = "draft" THEN @ ELSE 0]

Send(c) ==
  /\ client[c].at = "send"
  /\ LET attempt == client[c].attempt IN
     /\ wire' = wire \cup
          {[client |-> c, turn |-> turn[c], attempt |-> attempt,
            request |-> RequestOf(TheCall(c), attempt)]}
     /\ client' = [client EXCEPT ![c] =
                     [at |-> "await", attempt |-> attempt,
                      waited |-> client[c].waited, answer |-> {}]]
  /\ UNCHANGED <<server, turn, told>>

\* STALE_BASE and the like are never retried.
RETRYABLE_CODES == {"RATE_LIMITED", "UNAVAILABLE", "TIMEOUT", "INTERNAL"}

\* Retry-After wins over the backoff, of which jitter takes up to one half.
Delays(attempt, hint) ==
  LET full == BaseDelay * 2 ^ (attempt - 1)
      backoff == IF full < MaxDelay THEN full ELSE MaxDelay
  IN IF hint # NoHint THEN {hint} ELSE (backoff + 1) \div 2 .. backoff

\* Attempts are capped, and the waiting between them (not the time they take).
exhausted(attempt, waited, delay) ==
  attempt >= MaxAttempts \/ waited + delay > MaxElapsed

\* Mutant: attempts are not counted.
sameAttempt(attempt) == attempt
nextAttempt(attempt) == attempt + 1

\* The catch of withRetry: give up or wait and go on with the next attempt.
AfterError(c, code, hint) ==
  LET attempt == client[c].attempt
      waited == client[c].waited
      failed == Reply(code, 0, "NONE")
  IN IF code \notin RETRYABLE_CODES THEN End(c, failed)
     ELSE \E delay \in Delays(attempt, hint) :
            IF exhausted(attempt, waited, delay) THEN End(c, failed)
            ELSE /\ client' = [client EXCEPT ![c] =
                                 [at |-> "send", attempt |-> nextAttempt(attempt),
                                  waited |-> waited + delay]]
                 /\ UNCHANGED <<turn, told>>

\* The server sends Retry-After: 1 with 429 and 503.
hintWith(code) == IF code \in {"RATE_LIMITED", "UNAVAILABLE"} THEN OneSecond
                  ELSE NoHint

\* The answer to the attempt arrives.  A code in the problem body wins over the
\* status it was sent with.
Receive(c) ==
  /\ client[c].at = "await"
  /\ \E reply \in client[c].answer :
       IF reply.code = "OK" THEN End(c, reply)
       ELSE AfterError(c, reply.code, hintWith(reply.code))
  /\ UNCHANGED <<server, wire>>

codeForStatus(status) ==
  CASE status = 401 -> "AUTHENTICATION_REQUIRED"
    [] status = 403 -> "PERMISSION_DENIED"
    [] status = 404 -> "NOT_FOUND"
    [] status = 409 -> "CONFLICT"
    [] status \in {400, 422} -> "VALIDATION_FAILED"
    [] status = 429 -> "RATE_LIMITED"
    [] status = 504 -> "TIMEOUT"
    [] status = 500 -> "INTERNAL"
    [] OTHER -> "UNAVAILABLE"

\* A gateway answers, whatever became of the request.
Intercept(c) ==
  /\ client[c].at = "await"
  /\ \E status \in GatewayStatuses, hint \in GatewayHints :
       AfterError(c, codeForStatus(status), hint)
  /\ UNCHANGED <<server, wire>>

\* The time is up, the connection breaks, or the answer is no JSON, whatever
\* became of the request.
Fail(c) ==
  /\ client[c].at = "await"
  /\ \E code \in {"TIMEOUT", "UNAVAILABLE", "INTERNAL"} :
       AfterError(c, code, NoHint)
  /\ UNCHANGED <<server, wire>>

\* The answer is cut off while its body is read, which is an error of no type and
\* not retried, or it is a success without a body, and the caller has nothing.
EndWithout(c) ==
  /\ client[c].at = "await"
  /\ End(c, Reply("NONE", 0, "NONE"))
  /\ UNCHANGED <<server, wire>>

-----------------------------------------------------------------------------
(* The server *)

\* The provider operation that a path stands for.
route(s, request, gate) ==
  LET context == [key |-> request.key, base |-> request.base,
                  etag |-> request.etag, gate |-> gate]
  IN CASE request.kind = "draft" -> createDraft(s, context, request.subject)
       [] request.kind = "release" ->
            createReleaseCandidate(s, context, request.subject, Evidence)
       [] request.kind = "deploy" ->
            createDeployment(s, context, request.subject, "staging", "healthy")
       [] request.kind = "rollback" ->
            rollbackDeployment(s, context, request.subject,
                               CHOOSE r \in Reasons : TRUE)
       [] request.kind = "poll" -> getDeployment(s, gate, request.subject)

\* The handler starts: the store is read and the outcome computed from it.
Handle(m) ==
  /\ Cardinality(open) < MaxOpen
  /\ \E gate \in {"OK", "UNAVAILABLE"} :
       open' = open \cup
         {[client |-> m.client, turn |-> m.turn, attempt |-> m.attempt,
           read |-> store, outcome |-> route(store, m.request, gate)]}
  /\ wire' = wire \ {m}
  /\ UNCHANGED <<store, turn, client, advancing, told, erased, setBack>>

Recorded(s, key) ==
  IF key \in DOMAIN s.idempotency THEN {s.idempotency[key]} ELSE {}

\* The whole store is written, made of what it was when it was read.
Write(read, new) ==
  /\ store' = new
  /\ erased' = erased \cup
       {k \in DOMAIN store.idempotency :
          read # store /\ Recorded(new, k) # Recorded(store, k)}
  /\ setBack' = (setBack \/ Current(new) < Current(store))

\* Mutant: an answer is taken for that of whatever the client waits for.
AwaitsAny(h) == client[h.client].at = "await"

Awaits(h) ==
  /\ client[h.client].at = "await"
  /\ turn[h.client] = h.turn
  /\ client[h.client].attempt = h.attempt

\* The handler ends: the store is written unless the request was refused, and
\* the answer goes to whoever still waits for this attempt.
Answer(h) ==
  /\ IF h.outcome.reply.code = "OK" THEN Write(h.read, h.outcome.store)
     ELSE UNCHANGED <<store, erased, setBack>>
  /\ client' = IF Awaits(h)
               THEN [client EXCEPT ![h.client].answer = {h.outcome.reply}]
               ELSE client
  /\ open' = open \ {h}
  /\ UNCHANGED <<turn, wire, advancing, told>>

\* Somebody changes the agent at the provider, one change at a time: reads ...
RemoteReads ==
  /\ advancing = {}
  /\ Current(store) < MaxVersions
  /\ \E bundle \in Bundles :
       advancing' = {[read |-> store, new |-> Advance(store, bundle)]}
  /\ UNCHANGED <<store, turn, client, wire, open, told, erased, setBack>>

\* ... and writes.
RemoteAdvances ==
  /\ \E a \in advancing : Write(a.read, a.new)
  /\ advancing' = {}
  /\ UNCHANGED <<turn, client, wire, open, told>>

ClientStep(c) ==
  Begin(c) \/ Send(c) \/ Receive(c) \/ Intercept(c) \/ Fail(c) \/ EndWithout(c)
Next ==
  /\ \/ \E c \in Clients : ClientStep(c)
     \/ \E m \in wire : Handle(m)
     \/ \E h \in open : Answer(h)
     \/ RemoteReads \/ RemoteAdvances
  /\ UNCHANGED calls

Spec == Init /\ [][Next]_vars

-----------------------------------------------------------------------------
(* What clients may rely on *)

\* What the caller was told was made is there, under its key, with the reply.
KeptAsTold(t) ==
  t[2].code = "OK" /\ t[1].kind # "poll" =>
    /\ t[1].key \in DOMAIN store.idempotency
    /\ store.idempotency[t[1].key].response = t[2]

\* What a caller was told was made is there, with the answer that every caller of
\* its key gets, however many attempts it took and whichever of them the server
\* took up.  Only one thing takes it away: another request, or a change of the
\* agent, that read the store before that and wrote it after
\* (mock-provider.ts:273-277, state.ts:96): "which is what makes their retry safe"
\* (retry.ts:5-6) is true up to that.
ToldIsTrue == \A t \in told : KeptAsTold(t) \/ t[1].key \in erased

\* No attempt, early or late, makes a second release for a key (http-provider.ts
\* 300-317): a candidate has at most as many releases as callers have keys for it.
KeysFor(candidate) ==
  UNION {{calls[c][i].key : i \in {j \in DOMAIN calls[c] :
            calls[c][j].kind = "release" /\ calls[c][j].subject = candidate}} :
         c \in Clients}
OncePerKey ==
  \A candidate \in Candidates :
    Cardinality({i \in DOMAIN store.releases :
                   store.releases[i].candidate = candidate})
      <= Cardinality(KeysFor(candidate))

\* The call was carried out: its key is bound to what it asks for.
CanonicalRequest(call) ==
  CASE call.kind = "draft" -> DraftRequest(call.subject)
    [] call.kind = "release" -> ReleaseRequest(call.subject, Evidence)
    [] call.kind = "deploy" -> DeployRequest(call.subject, "staging")
    [] call.kind = "rollback" ->
         RollbackRequest(call.subject, CHOOSE r \in Reasons : TRUE)
Done(s, call) ==
  /\ call.key \in DOMAIN s.idempotency
  /\ s.idempotency[call.key].request = CanonicalRequest(call)

\* STALE_BASE means that the call did nothing and never will: neither did an
\* earlier attempt whose answer was lost, nor will one that is still on its way or
\* being handled, unless it, or another request that was read before the agent
\* changed, sets the agent back to what it was (retry.ts:28-60,
\* problems.ts:39-49, mock-provider.ts:149).
StaleIsUndone ==
  \A t \in told : t[2].code = "STALE_BASE" => ~Done(store, t[1]) \/ setBack

\* A client gives up in the end, whatever the server and the network do.
Fairness == \A c \in Clients : WF_vars(ClientStep(c) /\ UNCHANGED calls)
FairSpec == Spec /\ Fairness
CallsEnd == \A c \in Clients : <>(turn[c] = Len(calls[c]))
=============================================================================
