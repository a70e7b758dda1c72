------------------------------- MODULE Idempotency -------------------------------
(***************************************************************************)
(* Keyed requests: IdempotencyGuard registers the key of every mutation     *)
(* (registerOrGet), IdempotencySettlementInterceptor runs the handler in an *)
(* open transaction and records its answer there (settle).                  *)
(*                                                                          *)
(* A handler's effect is committed with the record only if its repository   *)
(* asks IdempotencyUnitOfWork for the client, which the insertion of a      *)
(* subscription alone does; any other takes a second client from the pool   *)
(* and commits on its own. The Redis lock (idempotency.lock.ts) is left     *)
(* out: the guard ignores whether it got it.                                *)
(***************************************************************************)
EXTENDS Naturals, Sequences, FiniteSets

CONSTANTS
    Keys, Requests,
    Operations,         \* what a request asks for: its route, target and body
    PayloadHash,        \* the hash of the body of each operation
    JoinsTransaction,   \* the operations whose effect the uow client writes
    None,               \* no key, no operation, no request
    Lease, TTL,         \* IDEMPOTENCY_LEASE_MS, IDEMPOTENCY_TTL_MS
    PoolSize,           \* clients of the PostgreSQL pool
    OutlivesLease,      \* may a request still be running when its lease has passed?
    MaxTime             \* bound of the clock

ASSUME IdempotencyAssumption ==
    /\ None \notin Keys \cup Requests \cup Operations
    /\ PayloadHash \in [Operations -> Operations]
    /\ JoinsTransaction \subseteq Operations
    /\ Lease \in Nat /\ TTL \in Nat /\ PoolSize \in Nat /\ MaxTime \in Nat
    /\ OutlivesLease \in BOOLEAN

VARIABLES
    clock,      \* CLOCK
    rows,       \* idempotency_operations: rows[k][g] is generation g of key k
    request,    \* what each HTTP request remembers, and the await it is at
    committed,  \* requests whose business effect is committed
    reply       \* what each request was answered

idempotencyVars == <<clock, rows, request, committed, reply>>

\* response is the request whose handler produced the recorded answer.
OperationRow ==
    [status : {"PROCESSING", "SETTLED"}, payload_hash : Operations,
     expires_at : Nat, lease_expires_at : Nat, response : Requests \cup {None}]

Awaiting == {"register", "begin", "handler", "settle"}

RequestContext ==
    [at : Awaiting \cup {"idle", "ended"}, key : Keys \cup {None},
     operation : Operations \cup {None}, now : Nat, generation : Nat]

Reply ==
    [kind : {"NONE", "OWN", "REPLAY", "MISMATCH", "IN_FLIGHT", "ERROR"},
     body : Requests \cup {None}]

NoReply == [kind |-> "NONE", body |-> None]

Init ==
    /\ clock = 0
    /\ rows = [k \in Keys |-> <<>>]
    /\ request = [r \in Requests |-> [at |-> "idle", key |-> None, operation |-> None,
                                      now |-> 0, generation |-> 0]]
    /\ committed = {}
    /\ reply = [r \in Requests |-> NoReply]

-----------------------------------------------------------------------------
Table(r) == rows[request[r].key]
Latest(r) == Table(r)[Len(Table(r))]
PayloadOf(r) == PayloadHash[request[r].operation]

\* The transaction the interceptor opens holds a client until it ends.
HoldsClient(r) == request[r].at \in {"handler", "settle"}
ClientFree == Cardinality({r \in Requests : HoldsClient(r)}) < PoolSize

Goes(r, step) == request' = [request EXCEPT ![r].at = step]
Ends(r, kind, body) ==
    /\ Goes(r, "ended")
    /\ reply' = [reply EXCEPT ![r] = [kind |-> kind, body |-> body]]

\* Mutant of WindowOver: the window is over at expires_at, not after it.
WindowOverEarly(r) == Table(r) # <<>> => request[r].now >= Latest(r).expires_at

WindowOver(r) == Table(r) # <<>> => request[r].now > Latest(r).expires_at
\* Mutant of LeaseExpired: the lease is over at lease_expires_at, not after it.
LeaseExpiredEarly(r) == request[r].now >= Latest(r).lease_expires_at

LeaseExpired(r) == request[r].now > Latest(r).lease_expires_at

\* register() over a new key or a key whose window is over.
NewRow(r) ==
    [status |-> "PROCESSING", payload_hash |-> PayloadOf(r),
     expires_at |-> request[r].now + TTL, lease_expires_at |-> request[r].now + Lease,
     response |-> None]

-----------------------------------------------------------------------------
\* registerOrGet reads the clock before it has a client.
Arrive(r, k, o) ==
    /\ request[r].at = "idle"
    /\ request' = [request EXCEPT ![r] =
           [@ EXCEPT !.at = "register", !.key = k, !.operation = o, !.now = clock]]
    /\ UNCHANGED <<clock, rows, committed, reply>>

\* Mutant of Register: an expired key reuses its row instead of a new generation.
RegisterInPlace(r) ==
    /\ request[r].at = "register" /\ ClientFree
    /\ WindowOver(r)
    /\ rows' = [rows EXCEPT ![request[r].key] = <<NewRow(r)>>]
    /\ request' = [request EXCEPT ![r] = [@ EXCEPT !.at = "begin", !.generation = 1]]
    /\ UNCHANGED <<clock, committed, reply>>

Register(r) ==
    /\ request[r].at = "register" /\ ClientFree
    /\ WindowOver(r)
    /\ rows' = [rows EXCEPT ![request[r].key] = Append(@, NewRow(r))]
    /\ request' = [request EXCEPT ![r] =
           [@ EXCEPT !.at = "begin", !.generation = Len(Table(r)) + 1]]
    /\ UNCHANGED <<clock, committed, reply>>

\* classify() works on a row whose window is open.
Classifies(r) == request[r].at = "register" /\ ClientFree /\ ~WindowOver(r)

SamePayload(r) == Latest(r).payload_hash = PayloadOf(r)

RefuseMismatch(r) ==
    /\ Classifies(r) /\ ~SamePayload(r)
    /\ Ends(r, "MISMATCH", None)
    /\ UNCHANGED <<clock, rows, committed>>

Replay(r) ==
    /\ Classifies(r) /\ SamePayload(r) /\ Latest(r).status = "SETTLED"
    /\ Ends(r, "REPLAY", Latest(r).response)
    /\ UNCHANGED <<clock, rows, committed>>

\* Mutant of Retake: the context does not get the generation.
RetakeWithoutGeneration(r) ==
    /\ Classifies(r) /\ SamePayload(r) /\ Latest(r).status = "PROCESSING" /\ LeaseExpired(r)
    /\ rows' = [rows EXCEPT ![request[r].key][Len(Table(r))].lease_expires_at =
                    request[r].now + Lease]
    /\ Goes(r, "begin")
    /\ UNCHANGED <<clock, committed, reply>>

\* Mutant of Retake: the lease is not renewed, and the next request retakes too.
RetakeWithoutRefresh(r) ==
    /\ Classifies(r) /\ SamePayload(r) /\ Latest(r).status = "PROCESSING" /\ LeaseExpired(r)
    /\ request' = [request EXCEPT ![r] =
           [@ EXCEPT !.at = "begin", !.generation = Len(Table(r))]]
    /\ UNCHANGED <<clock, rows, committed, reply>>

Retake(r) ==
    /\ Classifies(r) /\ SamePayload(r) /\ Latest(r).status = "PROCESSING" /\ LeaseExpired(r)
    /\ rows' = [rows EXCEPT ![request[r].key][Len(Table(r))].lease_expires_at =
                    request[r].now + Lease]
    /\ request' = [request EXCEPT ![r] =
           [@ EXCEPT !.at = "begin", !.generation = Len(Table(r))]]
    /\ UNCHANGED <<clock, committed, reply>>

RefuseInFlight(r) ==
    /\ Classifies(r) /\ SamePayload(r) /\ Latest(r).status = "PROCESSING" /\ ~LeaseExpired(r)
    /\ Ends(r, "IN_FLIGHT", None)
    /\ UNCHANGED <<clock, rows, committed>>

-----------------------------------------------------------------------------
Joins(r) == request[r].operation \in JoinsTransaction

Begin(r) ==
    /\ request[r].at = "begin" /\ ClientFree
    /\ Goes(r, "handler")
    /\ UNCHANGED <<clock, rows, committed, reply>>

\* Mutant of RunHandler: the repository takes a client of its own.
RunHandlerOutside(r) ==
    /\ request[r].at = "handler" /\ ClientFree
    /\ committed' = committed \cup {r}
    /\ Goes(r, "settle")
    /\ UNCHANGED <<clock, rows, reply>>

RunHandler(r) ==
    /\ request[r].at = "handler"
    /\ ~Joins(r) => ClientFree
    /\ committed' = IF Joins(r) THEN committed ELSE committed \cup {r}
    /\ Goes(r, "settle")
    /\ UNCHANGED <<clock, rows, reply>>

\* SETTLE_OPERATION finds the row only while it is PROCESSING; the interceptor
\* commits and answers whether it did or not.
Settle(r) ==
    /\ request[r].at = "settle"
    /\ rows' = [rows EXCEPT ![request[r].key][request[r].generation] =
           IF @.status = "PROCESSING"
           THEN [@ EXCEPT !.status = "SETTLED", !.response = r, !.lease_expires_at = 0]
           ELSE @]
    /\ committed' = IF Joins(r) THEN committed \cup {r} ELSE committed
    /\ Ends(r, "OWN", r)
    /\ UNCHANGED clock

\* The handler or the settlement throws: ROLLBACK, and the key stays PROCESSING.
Fail(r) ==
    /\ HoldsClient(r)
    /\ Ends(r, "ERROR", None)
    /\ UNCHANGED <<clock, rows, committed>>

\* The process dies; its connections are closed.
Die(r) ==
    /\ request[r].at \in Awaiting
    /\ Goes(r, "ended")
    /\ UNCHANGED <<clock, rows, committed, reply>>

WithinLease(r) == request[r].at \in Awaiting => clock < request[r].now + Lease

Tick ==
    /\ clock < MaxTime
    /\ OutlivesLease \/ \A r \in Requests : WithinLease(r)
    /\ clock' = clock + 1
    /\ UNCHANGED <<rows, request, committed, reply>>

Registration(r) ==
    Register(r) \/ RefuseMismatch(r) \/ Replay(r) \/ Retake(r) \/ RefuseInFlight(r)

Next ==
    \/ Tick
    \/ \E r \in Requests :
        \/ \E k \in Keys, o \in Operations : Arrive(r, k, o)
        \/ Register(r)
        \/ RefuseMismatch(r)
        \/ Replay(r)
        \/ Retake(r)
        \/ RefuseInFlight(r)
        \/ Begin(r)
        \/ RunHandler(r)
        \/ Settle(r)
        \/ Fail(r)
        \/ Die(r)

IdempotencySpec == Init /\ [][Next]_idempotencyVars

\* The event loop resumes a request whose query or client has come; nobody has
\* to send one, and nothing makes a handler fail, a process die or time pass.
IdempotencyFairSpec ==
    /\ IdempotencySpec
    /\ \A r \in Requests :
        WF_idempotencyVars(Registration(r) \/ Begin(r) \/ RunHandler(r) \/ Settle(r))

-----------------------------------------------------------------------------
\* The guard has admitted the request (acquired: true).
Running(r) == request[r].at \in {"begin", "handler", "settle"}

\* Types of every variable, and the shape of what a request remembers: an
\* admitted request has the generation of a row.
IdempotencyTypeOK ==
    /\ clock \in Nat
    /\ rows \in [Keys -> Seq(OperationRow)]
    /\ request \in [Requests -> RequestContext]
    /\ committed \subseteq Requests
    /\ reply \in [Requests -> Reply]
    /\ \A r \in Requests :
        /\ request[r].at # "idle" =>
               request[r].key \in Keys /\ request[r].operation \in Operations
        /\ Running(r) => request[r].generation \in DOMAIN Table(r)

\* One execution at a time: two requests of a key never run the handler for the
\* same generation together, though the lease changes hands (registerOrGet).
OneExecution ==
    \A r, q \in Requests :
        /\ Running(r) /\ Running(q) /\ request[r].key = request[q].key
        /\ request[r].generation = request[q].generation
        => r = q

\* The answer of the request is the one a row of its key keeps.
Recorded(r) == \E g \in DOMAIN Table(r) : Table(r)[g].response = r

\* docs/tasks.md T25: for an effect in the interceptor's transaction, no effect
\* without its SETTLED row and no SETTLED row without its effect; an effect that
\* commits on its own is at least there when the row says SETTLED.
EffectIffSettled ==
    \A r \in Requests :
        request[r].at # "idle" =>
            /\ Recorded(r) => r \in committed
            /\ Joins(r) /\ r \in committed => Recorded(r)

\* A request that awaits has not outlived its lease (OutlivesLease = FALSE).
AwaitsWithinLease ==
    \A r \in Requests :
        request[r].at \in Awaiting => clock \in request[r].now..(request[r].now + Lease)

\* The row an admitted request works for is still its own: PROCESSING, its lease.
HolderOwnsRow ==
    \A r \in Requests :
        Running(r) =>
            LET row == Table(r)[request[r].generation]
            IN  row.status = "PROCESSING" /\ row.lease_expires_at = request[r].now + Lease

\* Exactly the SETTLED rows have a response, of a request of their key that ended.
ResponsesAreSettled ==
    \A k \in Keys : \A g \in DOMAIN rows[k] :
        LET r == rows[k][g].response
        IN  /\ rows[k][g].status = "SETTLED" <=> r # None
            /\ r # None => request[r].key = k /\ request[r].at = "ended"

\* Before it ends a request has no answer, and no joining effect; a handler that
\* has run on its own has committed.
NothingBeforeTheEnd ==
    \A r \in Requests :
        /\ request[r].at = "idle" => request[r].key = None
        /\ request[r].at # "ended" => reply[r] = NoReply
        /\ request[r].at \notin {"settle", "ended"} => r \notin committed
        /\ request[r].at = "settle" => (r \in committed <=> ~Joins(r))

\* The inductive invariant of IdempotencySpec without requests that outlive their
\* lease: between registration and settlement a generation belongs to one request.
IdempotencyInvariant ==
    /\ AwaitsWithinLease
    /\ HolderOwnsRow
    /\ OneExecution
    /\ ResponsesAreSettled
    /\ NothingBeforeTheEnd
    /\ EffectIffSettled

\* docs/spec.md 3.2: the windows of a key do not overlap; a new generation begins
\* after the one before has expired, whatever order requests got a client in.
WindowsDoNotOverlap ==
    \A k \in Keys : \A g \in 1..Len(rows[k]) :
        g > 1 => rows[k][g].expires_at > rows[k][g - 1].expires_at + TTL

\* docs/spec.md INV-06: a SETTLED row is never changed again, by nobody.
SettledIsFinal ==
    [][\A k \in Keys : \A g \in DOMAIN rows[k] :
          rows[k][g].status = "SETTLED" =>
              g \in DOMAIN rows'[k] /\ rows'[k][g] = rows[k][g]]_idempotencyVars

\* docs/engine-guide.md:132: the operation runs with the client its settlement uses.
\* Then every request is answered or dies, and none waits for ever for a client.
RequestsEnd ==
    \A r \in Requests : request[r].at # "idle" ~> request[r].at = "ended"

\* docs/spec.md 3.1: a key serves one operation in its window; a replayed answer
\* is the answer of the operation that was asked for.
RepliesAreOfTheirOperation ==
    \A r \in Requests :
        reply[r].kind = "REPLAY" => request[reply[r].body].operation = request[r].operation

\* What an owner sees of all this is KeyedOperations: the row's answer is recorded
\* with the one joining effect, and every answer given is the recorded one.
Keyed == INSTANCE KeyedOperations WITH
    asked <- [r \in Requests |-> request[r].key],
    windows <- [k \in Keys |-> [g \in DOMAIN rows[k] |-> rows[k][g].response]],
    performed <- {r \in committed : Joins(r)},
    answer <- [r \in Requests |-> reply[r].body]

KeepsThePromise == Keyed!KeyedSpec
=============================================================================
