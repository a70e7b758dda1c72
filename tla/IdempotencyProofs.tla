---------------------------- MODULE IdempotencyProofs ----------------------------
(***************************************************************************)
(* Type correctness of Idempotency, and, when no request outlives its       *)
(* lease, its inductive invariant: one execution per generation of a key,   *)
(* and a joining effect exactly where the row is SETTLED.                   *)
(***************************************************************************)
EXTENDS Idempotency, SequenceTheorems, TLAPS

-----------------------------------------------------------------------------
(* What the two ways of writing to idempotency_operations do to the table.  *)

\* An insertion adds a generation and keeps the ones before it (REGISTER_OPERATION).
LEMMA AppendedRow ==
  ASSUME rows \in [Keys -> Seq(OperationRow)],
         NEW k \in Keys, NEW row \in OperationRow,
         rows' = [rows EXCEPT ![k] = Append(@, row)]
  PROVE  /\ rows' \in [Keys -> Seq(OperationRow)]
         /\ \A j \in Keys \ {k} : rows'[j] = rows[j]
         /\ Len(rows[k]) \in Nat /\ Len(rows'[k]) = Len(rows[k]) + 1
         /\ DOMAIN rows[k] = 1..Len(rows[k]) /\ DOMAIN rows'[k] = 1..(Len(rows[k]) + 1)
         /\ \A g \in 1..Len(rows[k]) : rows'[k][g] = rows[k][g]
         /\ rows'[k][Len(rows[k]) + 1] = row
<1>1. rows[k] \in Seq(OperationRow)
  OBVIOUS
<1>2. rows'[k] = Append(rows[k], row)
  OBVIOUS
<1>3. Append(rows[k], row) \in Seq(OperationRow)
  BY <1>1
<1> QED
  BY <1>1, <1>2, <1>3

\* An update replaces one row and keeps the others (REFRESH_LEASE, SETTLE_OPERATION).
LEMMA WrittenRow ==
  ASSUME rows \in [Keys -> Seq(OperationRow)],
         NEW k \in Keys, NEW g \in DOMAIN rows[k], NEW row \in OperationRow,
         rows' = [rows EXCEPT ![k] = [@ EXCEPT ![g] = row]]
  PROVE  /\ rows' \in [Keys -> Seq(OperationRow)]
         /\ \A j \in Keys \ {k} : rows'[j] = rows[j]
         /\ Len(rows[k]) \in Nat /\ Len(rows'[k]) = Len(rows[k])
         /\ DOMAIN rows[k] = 1..Len(rows[k]) /\ DOMAIN rows'[k] = DOMAIN rows[k]
         /\ \A h \in DOMAIN rows[k] : rows'[k][h] = IF h = g THEN row ELSE rows[k][h]
<1>1. rows[k] \in Seq(OperationRow)
  OBVIOUS
<1>2. rows'[k] = [rows[k] EXCEPT ![g] = row]
  OBVIOUS
<1>3. rows'[k] \in Seq(OperationRow)
  BY <1>1, <1>2
<1>4. Len(rows'[k]) = Len(rows[k])
  BY <1>1, <1>2, <1>3
<1> QED
  BY <1>1, <1>2, <1>3, <1>4

\* The latest row of a key that has one.
LEMMA LatestRow ==
  ASSUME IdempotencyTypeOK, NEW r \in Requests, request[r].at # "idle", Table(r) # <<>>
  PROVE  /\ request[r].key \in Keys /\ Len(Table(r)) \in DOMAIN Table(r)
         /\ Len(Table(r)) \in Nat \ {0} /\ Latest(r) \in OperationRow
<1>1. request[r].key \in Keys /\ Table(r) \in Seq(OperationRow)
  BY DEF IdempotencyTypeOK, Table
<1> QED
  BY <1>1 DEF Latest

LEMMA NewRowType ==
  ASSUME IdempotencyTypeOK, NEW r \in Requests, request[r].at # "idle"
  PROVE  NewRow(r) \in OperationRow
  BY IdempotencyAssumption
     DEF IdempotencyTypeOK, NewRow, OperationRow, PayloadOf, RequestContext

\* The row a retake leaves: only its lease is new.
RetakenRow(r) == [Latest(r) EXCEPT !.lease_expires_at = request[r].now + Lease]

LEMMA RetakeWrites ==
  ASSUME IdempotencyTypeOK, NEW r \in Requests, Retake(r)
  PROVE  /\ request[r].key \in Keys /\ Table(r) # <<>> /\ RetakenRow(r) \in OperationRow
         /\ rows' = [rows EXCEPT ![request[r].key] =
                         [@ EXCEPT ![Len(Table(r))] = RetakenRow(r)]]
<1>1. request[r].at # "idle" /\ Table(r) # <<>>
  BY DEF Retake, Classifies, WindowOver
<1>2. request[r].key \in Keys /\ Len(Table(r)) \in DOMAIN Table(r) /\ Latest(r) \in OperationRow
  BY <1>1, LatestRow
<1>3. request[r].now + Lease \in Nat
  BY IdempotencyAssumption DEF IdempotencyTypeOK, RequestContext
<1>4. RetakenRow(r) \in OperationRow
  BY <1>2, <1>3 DEF RetakenRow, OperationRow
<1>5. rows' = [rows EXCEPT ![request[r].key] = [@ EXCEPT ![Len(Table(r))] = RetakenRow(r)]]
  BY <1>2 DEF Retake, RetakenRow, Latest, Table, IdempotencyTypeOK
<1> QED
  BY <1>1, <1>2, <1>4, <1>5

\* The row a settlement leaves: SETTLED for the first, untouched for a later one.
OwnRow(r) == Table(r)[request[r].generation]
SettledRow(r) ==
  IF OwnRow(r).status = "PROCESSING"
  THEN [OwnRow(r) EXCEPT !.status = "SETTLED", !.response = r, !.lease_expires_at = 0]
  ELSE OwnRow(r)

LEMMA SettleWrites ==
  ASSUME IdempotencyTypeOK, NEW r \in Requests, Settle(r)
  PROVE  /\ request[r].key \in Keys /\ request[r].generation \in DOMAIN Table(r)
         /\ OwnRow(r) \in OperationRow /\ SettledRow(r) \in OperationRow
         /\ rows' = [rows EXCEPT ![request[r].key] =
                         [@ EXCEPT ![request[r].generation] = SettledRow(r)]]
<1>1. /\ request[r].key \in Keys /\ request[r].generation \in DOMAIN Table(r)
      /\ Table(r) \in Seq(OperationRow)
  BY DEF Settle, IdempotencyTypeOK, Running, Table
<1>2. OwnRow(r) \in OperationRow
  BY <1>1 DEF OwnRow
<1>3. SettledRow(r) \in OperationRow
  BY <1>2 DEF SettledRow, OperationRow
<1>4. rows' = [rows EXCEPT ![request[r].key] = [@ EXCEPT ![request[r].generation] = SettledRow(r)]]
  BY <1>1 DEF Settle, SettledRow, OwnRow, Table, IdempotencyTypeOK
<1> QED
  BY <1>1, <1>2, <1>3, <1>4

-----------------------------------------------------------------------------
(* Types *)

LEMMA TypeInit ==
  ASSUME Init
  PROVE  IdempotencyTypeOK
<1>1. rows \in [Keys -> Seq(OperationRow)]
  BY DEF Init
<1> QED
  BY <1>1 DEF Init, IdempotencyTypeOK, RequestContext, Reply, NoReply, Running, Awaiting

\* No step shortens a table.
TablesGrow ==
  \A k \in Keys : DOMAIN rows[k] \subseteq DOMAIN rows'[k]

LEMMA TypeKept ==
  ASSUME IdempotencyTypeOK, rows' \in [Keys -> Seq(OperationRow)], TablesGrow,
         NEW r \in Requests, NEW c \in RequestContext,
         request' = [request EXCEPT ![r] = c],
         c.key \in Keys, c.operation \in Operations,
         c.at \in {"begin", "handler", "settle"} => c.generation \in DOMAIN rows'[c.key],
         clock' \in Nat, committed' \subseteq Requests, reply' \in [Requests -> Reply]
  PROVE  IdempotencyTypeOK'
<1>1. request' \in [Requests -> RequestContext]
  BY DEF IdempotencyTypeOK
<1>2. ASSUME NEW q \in Requests
      PROVE  /\ request'[q].at # "idle" =>
                    request'[q].key \in Keys /\ request'[q].operation \in Operations
             /\ Running(q)' => request'[q].generation \in DOMAIN rows'[request'[q].key]
  <2>1. CASE q = r
    BY <2>1 DEF IdempotencyTypeOK, Running
  <2>2. CASE q # r
    <3>1. request'[q] = request[q]
      BY <2>2 DEF IdempotencyTypeOK
    <3> QED
      BY <3>1 DEF IdempotencyTypeOK, Running, Table, TablesGrow
  <2> QED
    BY <2>1, <2>2
<1> QED
  BY <1>1, <1>2 DEF IdempotencyTypeOK, Table

LEMMA EndsType ==
  ASSUME IdempotencyTypeOK, NEW r \in Requests, request[r].at # "idle",
         NEW kind \in {"NONE", "OWN", "REPLAY", "MISMATCH", "IN_FLIGHT", "ERROR"},
         NEW body \in Requests \cup {None}, Ends(r, kind, body),
         rows' \in [Keys -> Seq(OperationRow)], TablesGrow,
         clock' \in Nat, committed' \subseteq Requests
  PROVE  IdempotencyTypeOK'
<1> DEFINE c == [request[r] EXCEPT !.at = "ended"]
<1>1. request' = [request EXCEPT ![r] = c]
  BY DEF Ends, Goes, IdempotencyTypeOK
<1>2. c \in RequestContext /\ c.at = "ended" /\ c.key \in Keys /\ c.operation \in Operations
  BY DEF IdempotencyTypeOK, RequestContext
<1>3. reply' \in [Requests -> Reply]
  BY DEF Ends, IdempotencyTypeOK, Reply
<1> HIDE DEF c
<1> QED
  BY <1>1, <1>2, <1>3, TypeKept

LEMMA GoesType ==
  ASSUME IdempotencyTypeOK, NEW r \in Requests, NEW step \in {"handler", "settle", "ended"},
         request[r].at # "idle", Running(r) \/ step = "ended", Goes(r, step),
         UNCHANGED <<clock, rows, reply>>, committed' \subseteq Requests
  PROVE  IdempotencyTypeOK'
<1> DEFINE c == [request[r] EXCEPT !.at = step]
<1>1. request' = [request EXCEPT ![r] = c]
  BY DEF Goes, IdempotencyTypeOK
<1>2. /\ c \in RequestContext /\ c.at = step /\ c.key = request[r].key
      /\ c.generation = request[r].generation /\ c.key \in Keys /\ c.operation \in Operations
  BY DEF IdempotencyTypeOK, RequestContext, Awaiting
<1>3. c.at \in {"begin", "handler", "settle"} => c.generation \in DOMAIN rows'[c.key]
  BY <1>2 DEF IdempotencyTypeOK, Table
<1>4. TablesGrow /\ rows' \in [Keys -> Seq(OperationRow)] /\ clock' \in Nat
      /\ reply' \in [Requests -> Reply]
  BY DEF TablesGrow, IdempotencyTypeOK
<1> HIDE DEF c
<1> QED
  BY <1>1, <1>2, <1>3, <1>4, TypeKept

LEMMA TypeStep ==
  ASSUME IdempotencyTypeOK, [Next]_idempotencyVars
  PROVE  IdempotencyTypeOK'
<1>1. CASE UNCHANGED idempotencyVars
  BY <1>1 DEF idempotencyVars, IdempotencyTypeOK, Running, Table
<1>2. CASE Tick
  BY <1>2 DEF Tick, IdempotencyTypeOK, Running, Table
<1>3. ASSUME NEW r \in Requests, NEW k \in Keys, NEW o \in Operations, Arrive(r, k, o)
      PROVE  IdempotencyTypeOK'
  <2> DEFINE c == [request[r] EXCEPT !.at = "register", !.key = k, !.operation = o, !.now = clock]
  <2>1. c \in RequestContext /\ c.at = "register" /\ c.key = k /\ c.operation = o
    BY DEF IdempotencyTypeOK, RequestContext, Awaiting
  <2>2. /\ request' = [request EXCEPT ![r] = c] /\ TablesGrow
        /\ rows' \in [Keys -> Seq(OperationRow)] /\ clock' \in Nat
        /\ committed' \subseteq Requests /\ reply' \in [Requests -> Reply]
    BY <1>3 DEF Arrive, TablesGrow, IdempotencyTypeOK
  <2> HIDE DEF c
  <2> QED
    BY <2>1, <2>2, TypeKept
<1>4. ASSUME NEW r \in Requests, Register(r)
      PROVE  IdempotencyTypeOK'
  <2> DEFINE c == [request[r] EXCEPT !.at = "begin", !.generation = Len(Table(r)) + 1]
  <2>1. request[r].at = "register" /\ request[r].key \in Keys /\ request[r].operation \in Operations
    BY <1>4 DEF Register, IdempotencyTypeOK
  <2>2. /\ rows' \in [Keys -> Seq(OperationRow)] /\ Len(Table(r)) \in Nat /\ TablesGrow
        /\ Len(Table(r)) + 1 \in DOMAIN rows'[request[r].key]
    <3>1. NewRow(r) \in OperationRow
      BY <2>1, NewRowType
    <3> QED
      BY <1>4, <2>1, <3>1, AppendedRow DEF Register, IdempotencyTypeOK, TablesGrow, Table
  <2>3. /\ c \in RequestContext /\ c.key = request[r].key
        /\ c.operation = request[r].operation /\ c.generation = Len(Table(r)) + 1
    <3> DEFINE n == Len(Table(r)) + 1
    <3>1. n \in Nat
      BY <2>2
    <3> HIDE DEF n
    <3>2. [request[r] EXCEPT !.at = "begin", !.generation = n] \in RequestContext
      BY <3>1 DEF IdempotencyTypeOK, RequestContext, Awaiting
    <3> QED
      BY <3>2 DEF n, IdempotencyTypeOK, RequestContext
  <2>4. /\ request' = [request EXCEPT ![r] = c] /\ clock' \in Nat
        /\ committed' \subseteq Requests /\ reply' \in [Requests -> Reply]
    BY <1>4 DEF Register, IdempotencyTypeOK
  <2> HIDE DEF c
  <2> QED
    BY <2>1, <2>2, <2>3, <2>4, TypeKept
<1>5. ASSUME NEW r \in Requests, Retake(r)
      PROVE  IdempotencyTypeOK'
  <2> DEFINE c == [request[r] EXCEPT !.at = "begin", !.generation = Len(Table(r))]
  <2>1. /\ request[r].key \in Keys /\ request[r].operation \in Operations
        /\ Len(Table(r)) \in DOMAIN Table(r) /\ Len(Table(r)) \in Nat
    BY <1>5, RetakeWrites, LatestRow DEF Retake, Classifies, IdempotencyTypeOK
  <2>2. /\ rows' \in [Keys -> Seq(OperationRow)] /\ TablesGrow
        /\ Len(Table(r)) \in DOMAIN rows'[request[r].key]
    BY <1>5, <2>1, RetakeWrites, WrittenRow DEF IdempotencyTypeOK, TablesGrow, Table
  <2>3. /\ c \in RequestContext /\ c.key = request[r].key
        /\ c.operation = request[r].operation /\ c.generation = Len(Table(r))
    BY <2>1 DEF IdempotencyTypeOK, RequestContext, Awaiting
  <2>4. /\ request' = [request EXCEPT ![r] = c] /\ clock' \in Nat
        /\ committed' \subseteq Requests /\ reply' \in [Requests -> Reply]
    BY <1>5 DEF Retake, IdempotencyTypeOK
  <2> HIDE DEF c
  <2> QED
    BY <2>1, <2>2, <2>3, <2>4, TypeKept
<1>6. ASSUME NEW r \in Requests, RefuseMismatch(r) \/ Replay(r) \/ RefuseInFlight(r) \/ Fail(r)
      PROVE  IdempotencyTypeOK'
  <2>1. request[r].at # "idle" /\ UNCHANGED <<clock, rows, committed>>
    BY <1>6 DEF RefuseMismatch, Replay, RefuseInFlight, Fail, Classifies, HoldsClient
  <2>2. PICK kind \in {"REPLAY", "MISMATCH", "IN_FLIGHT", "ERROR"}, body \in Requests \cup {None} :
          Ends(r, kind, body)
    <3>1. CASE Replay(r)
      <4>1. Table(r) # <<>>
        BY <3>1 DEF Replay, Classifies, WindowOver
      <4>2. Latest(r).response \in Requests \cup {None}
        BY <2>1, <4>1, LatestRow DEF OperationRow
      <4> QED
        BY <3>1, <4>2 DEF Replay
    <3>2. CASE RefuseMismatch(r) \/ RefuseInFlight(r) \/ Fail(r)
      BY <3>2 DEF RefuseMismatch, RefuseInFlight, Fail
    <3> QED
      BY <1>6, <3>1, <3>2
  <2>3. /\ TablesGrow /\ rows' \in [Keys -> Seq(OperationRow)] /\ clock' \in Nat
        /\ committed' \subseteq Requests
    BY <2>1 DEF TablesGrow, IdempotencyTypeOK
  <2> QED
    BY <2>1, <2>2, <2>3, EndsType
<1>7. ASSUME NEW r \in Requests, Begin(r) \/ RunHandler(r) \/ Die(r)
      PROVE  IdempotencyTypeOK'
  <2>1. /\ committed' \subseteq Requests /\ UNCHANGED <<clock, rows, reply>>
        /\ request[r].at # "idle"
    BY <1>7 DEF Begin, RunHandler, Die, IdempotencyTypeOK, Awaiting
  <2>2. PICK step \in {"handler", "settle", "ended"} :
          Goes(r, step) /\ (Running(r) \/ step = "ended")
    BY <1>7 DEF Begin, RunHandler, Die, Running
  <2> QED
    BY <2>1, <2>2, GoesType
<1>8. ASSUME NEW r \in Requests, Settle(r)
      PROVE  IdempotencyTypeOK'
  <2>1. rows' \in [Keys -> Seq(OperationRow)] /\ TablesGrow
    BY <1>8, SettleWrites, WrittenRow DEF IdempotencyTypeOK, TablesGrow, Table
  <2>2. /\ clock' \in Nat /\ committed' \subseteq Requests /\ request[r].at # "idle"
        /\ Ends(r, "OWN", r)
    BY <1>8 DEF Settle, IdempotencyTypeOK
  <2> QED
    BY <2>1, <2>2, EndsType
<1> QED
  BY <1>1, <1>2, <1>3, <1>4, <1>5, <1>6, <1>7, <1>8 DEF Next

\* Every variable of keyed requests keeps its type, for any number of keys and
\* requests, and an admitted request has the generation of a row of its key.
THEOREM IdempotencyTypeCorrect == IdempotencySpec => []IdempotencyTypeOK
<1>1. Init => IdempotencyTypeOK
  BY TypeInit
<1>2. IdempotencyTypeOK /\ [Next]_idempotencyVars => IdempotencyTypeOK'
  BY TypeStep
<1> QED
  BY <1>1, <1>2, PTL DEF IdempotencySpec

-----------------------------------------------------------------------------
(* What holds of the table however slow requests are *)

\* Only three steps write to the table.
LEMMA WhoWrites ==
  ASSUME [Next]_idempotencyVars,
         \A r \in Requests : ~Register(r) /\ ~Retake(r) /\ ~Settle(r)
  PROVE  rows' = rows
  BY DEF Next, idempotencyVars, Tick, Arrive, RefuseMismatch, Replay, RefuseInFlight,
         Begin, RunHandler, Fail, Die

LEMMA RegisterAppends ==
  ASSUME IdempotencyTypeOK, NEW r \in Requests, Register(r)
  PROVE  /\ request[r].key \in Keys /\ NewRow(r) \in OperationRow
         /\ rows' = [rows EXCEPT ![request[r].key] = Append(@, NewRow(r))]
<1>1. request[r].at # "idle" /\ request[r].key \in Keys
  BY DEF Register, IdempotencyTypeOK
<1> QED
  BY <1>1, NewRowType DEF Register

\* A key gets a new generation only after the window of the one before, and no
\* update moves expires_at.
LEMMA WindowsStep ==
  ASSUME IdempotencyTypeOK, WindowsDoNotOverlap, [Next]_idempotencyVars
  PROVE  WindowsDoNotOverlap'
<1>1. ASSUME NEW r \in Requests, Register(r)
      PROVE  WindowsDoNotOverlap'
  <2> DEFINE k == request[r].key
             n == Len(rows[k])
  <2>1. /\ k \in Keys /\ NewRow(r) \in OperationRow
        /\ rows' = [rows EXCEPT ![k] = Append(@, NewRow(r))]
    BY <1>1, RegisterAppends
  <2>2. /\ \A j \in Keys \ {k} : rows'[j] = rows[j]
        /\ n \in Nat /\ Len(rows'[k]) = n + 1
        /\ \A g \in 1..n : rows'[k][g] = rows[k][g]
        /\ rows'[k][n + 1] = NewRow(r)
    BY <2>1, AppendedRow DEF IdempotencyTypeOK
  <2>3. n > 0 => NewRow(r).expires_at > rows[k][n].expires_at + TTL
    <3>1. ASSUME n > 0
          PROVE  request[r].now > rows[k][n].expires_at /\ rows[k][n] \in OperationRow
      <4>1. Table(r) # <<>>
        BY <3>1, <2>1 DEF Table, IdempotencyTypeOK
      <4>2. request[r].at # "idle"
        BY <1>1 DEF Register
      <4>3. Latest(r) \in OperationRow
        BY <4>1, <4>2, LatestRow
      <4> QED
        BY <1>1, <4>1, <4>3 DEF Register, WindowOver, Latest, Table
    <3>2. request[r].now \in Nat /\ TTL \in Nat /\ NewRow(r).expires_at = request[r].now + TTL
      BY IdempotencyAssumption DEF IdempotencyTypeOK, RequestContext, NewRow
    <3> QED
      BY <3>1, <3>2 DEF OperationRow
  <2> HIDE DEF k, n
  <2>4. ASSUME NEW j \in Keys, NEW g \in 1..Len(rows'[j]), g > 1
        PROVE  rows'[j][g].expires_at > rows'[j][g - 1].expires_at + TTL
    <3>1. CASE j # k
      BY <2>2, <2>4, <3>1 DEF WindowsDoNotOverlap
    <3>2. CASE j = k /\ g \in 1..n
      BY <2>1, <2>2, <2>4, <3>2 DEF WindowsDoNotOverlap
    <3>3. CASE j = k /\ g = n + 1
      BY <2>2, <2>3, <2>4, <3>3
    <3> QED
      BY <2>2, <3>1, <3>2, <3>3
  <2> QED
    BY <2>4 DEF WindowsDoNotOverlap
<1>2. ASSUME NEW k \in Keys, NEW g \in DOMAIN rows[k], NEW row \in OperationRow,
             row.expires_at = rows[k][g].expires_at,
             rows' = [rows EXCEPT ![k] = [@ EXCEPT ![g] = row]]
      PROVE  WindowsDoNotOverlap'
  <2>1. /\ \A j \in Keys \ {k} : rows'[j] = rows[j]
        /\ Len(rows[k]) \in Nat /\ Len(rows'[k]) = Len(rows[k])
        /\ DOMAIN rows[k] = 1..Len(rows[k])
        /\ \A h \in DOMAIN rows[k] : rows'[k][h] = IF h = g THEN row ELSE rows[k][h]
    BY <1>2, WrittenRow DEF IdempotencyTypeOK
  <2>2. \A h \in 1..Len(rows[k]) : rows'[k][h].expires_at = rows[k][h].expires_at
    BY <1>2, <2>1
  <2> QED
    BY <2>1, <2>2 DEF WindowsDoNotOverlap
<1>3. ASSUME NEW r \in Requests, Retake(r)
      PROVE  WindowsDoNotOverlap'
  <2>1. /\ request[r].key \in Keys /\ Table(r) # <<>> /\ RetakenRow(r) \in OperationRow
        /\ rows' = [rows EXCEPT ![request[r].key] = [@ EXCEPT ![Len(Table(r))] = RetakenRow(r)]]
    BY <1>3, RetakeWrites
  <2>2. Len(Table(r)) \in DOMAIN rows[request[r].key] /\ Latest(r) \in OperationRow
    BY <1>3, <2>1, LatestRow DEF Table, Retake, Classifies
  <2>3. RetakenRow(r).expires_at = rows[request[r].key][Len(Table(r))].expires_at
    BY <2>2 DEF RetakenRow, Latest, Table, OperationRow
  <2> QED
    BY <1>2, <2>1, <2>2, <2>3
<1>4. ASSUME NEW r \in Requests, Settle(r)
      PROVE  WindowsDoNotOverlap'
  <2>1. /\ request[r].key \in Keys /\ request[r].generation \in DOMAIN rows[request[r].key]
        /\ OwnRow(r) \in OperationRow /\ SettledRow(r) \in OperationRow
        /\ rows' = [rows EXCEPT ![request[r].key] =
                        [@ EXCEPT ![request[r].generation] = SettledRow(r)]]
    BY <1>4, SettleWrites DEF Table
  <2>2. SettledRow(r).expires_at = rows[request[r].key][request[r].generation].expires_at
    BY <2>1 DEF SettledRow, OwnRow, Table, OperationRow
  <2> QED
    BY <1>2, <2>1, <2>2
<1>5. CASE rows' = rows
  BY <1>5 DEF WindowsDoNotOverlap
<1> QED
  BY <1>1, <1>3, <1>4, <1>5, WhoWrites

\* docs/spec.md 3.2: two windows of a key never overlap, however long requests
\* wait between reading the clock and registering.
THEOREM WindowsNeverOverlap == IdempotencySpec => []WindowsDoNotOverlap
<1>1. Init => WindowsDoNotOverlap
  BY DEF Init, WindowsDoNotOverlap
<1>2. IdempotencyTypeOK /\ WindowsDoNotOverlap /\ [Next]_idempotencyVars => WindowsDoNotOverlap'
  BY WindowsStep
<1> QED
  BY <1>1, <1>2, IdempotencyTypeCorrect, PTL DEF IdempotencySpec

\* docs/spec.md INV-06: nothing changes a SETTLED row.
LEMMA SettledStays ==
  ASSUME IdempotencyTypeOK, [Next]_idempotencyVars,
         NEW k \in Keys, NEW g \in DOMAIN rows[k], rows[k][g].status = "SETTLED"
  PROVE  g \in DOMAIN rows'[k] /\ rows'[k][g] = rows[k][g]
<1>1. ASSUME NEW r \in Requests, Register(r)
      PROVE  g \in DOMAIN rows'[k] /\ rows'[k][g] = rows[k][g]
  <2>1. /\ request[r].key \in Keys /\ NewRow(r) \in OperationRow
        /\ rows' = [rows EXCEPT ![request[r].key] = Append(@, NewRow(r))]
    BY <1>1, RegisterAppends
  <2> QED
    BY <2>1, AppendedRow DEF IdempotencyTypeOK
<1>2. ASSUME NEW r \in Requests, Retake(r)
      PROVE  g \in DOMAIN rows'[k] /\ rows'[k][g] = rows[k][g]
  <2>1. /\ request[r].key \in Keys /\ Table(r) # <<>> /\ RetakenRow(r) \in OperationRow
        /\ rows' = [rows EXCEPT ![request[r].key] = [@ EXCEPT ![Len(Table(r))] = RetakenRow(r)]]
    BY <1>2, RetakeWrites
  <2>2. /\ Len(Table(r)) \in DOMAIN rows[request[r].key]
        /\ rows[request[r].key][Len(Table(r))].status = "PROCESSING"
    BY <1>2, <2>1, LatestRow DEF Table, Latest, Retake, Classifies
  <2> QED
    BY <2>1, <2>2, WrittenRow DEF IdempotencyTypeOK
<1>3. ASSUME NEW r \in Requests, Settle(r)
      PROVE  g \in DOMAIN rows'[k] /\ rows'[k][g] = rows[k][g]
  <2>1. /\ request[r].key \in Keys /\ request[r].generation \in DOMAIN rows[request[r].key]
        /\ SettledRow(r) \in OperationRow
        /\ rows' = [rows EXCEPT ![request[r].key] =
                        [@ EXCEPT ![request[r].generation] = SettledRow(r)]]
    BY <1>3, SettleWrites DEF Table
  <2>2. k = request[r].key /\ g = request[r].generation => SettledRow(r) = rows[k][g]
    BY DEF SettledRow, OwnRow, Table
  <2> QED
    BY <2>1, <2>2, WrittenRow DEF IdempotencyTypeOK
<1>4. CASE rows' = rows
  BY <1>4
<1> QED
  BY <1>1, <1>2, <1>3, <1>4, WhoWrites

THEOREM SettledRowsAreFinal == IdempotencySpec => SettledIsFinal
<1>1. IdempotencyTypeOK /\ [Next]_idempotencyVars =>
        [\A k \in Keys : \A g \in DOMAIN rows[k] :
            rows[k][g].status = "SETTLED" =>
                g \in DOMAIN rows'[k] /\ rows'[k][g] = rows[k][g]]_idempotencyVars
  BY SettledStays
<1> QED
  BY <1>1, IdempotencyTypeCorrect, PTL DEF IdempotencySpec, SettledIsFinal

-----------------------------------------------------------------------------
(* The inductive invariant, when no request outlives its lease *)

LEMMA InvariantInit ==
  ASSUME Init
  PROVE  IdempotencyInvariant
  BY DEF Init, IdempotencyInvariant, AwaitsWithinLease, HolderOwnsRow, OneExecution,
         ResponsesAreSettled, NothingBeforeTheEnd, EffectIffSettled, Running, Awaiting

\* A response in the table is of a request that has ended.
LEMMA OnlyEndedIsRecorded ==
  ASSUME IdempotencyTypeOK, ResponsesAreSettled, NEW r \in Requests, request[r].at # "ended"
  PROVE  \A k \in Keys : \A g \in DOMAIN rows[k] : rows[k][g].response # r
  BY IdempotencyAssumption DEF ResponsesAreSettled

LEMMA RowType ==
  ASSUME IdempotencyTypeOK, NEW k \in Keys, NEW g \in DOMAIN rows[k]
  PROVE  rows[k][g] \in OperationRow /\ rows[k][g].response \in Requests \cup {None}
<1>1. rows[k] \in Seq(OperationRow)
  BY DEF IdempotencyTypeOK
<1>2. rows[k][g] \in OperationRow
  BY <1>1
<1> QED
  BY <1>2 DEF OperationRow

\* A request that has ended has done so for good.
EndedStay ==
  \A q \in Requests : request[q].at = "ended" => request'[q] = request[q]

LEMMA ResponsesKept ==
  ASSUME IdempotencyTypeOK, ResponsesAreSettled, rows' = rows, EndedStay
  PROVE  ResponsesAreSettled'
<1>1. ASSUME NEW k \in Keys, NEW g \in DOMAIN rows[k]
      PROVE  LET q == rows[k][g].response
             IN  /\ rows[k][g].status = "SETTLED" <=> q # None
                 /\ q # None => request'[q].key = k /\ request'[q].at = "ended"
  BY <1>1, RowType DEF ResponsesAreSettled, EndedStay
<1> QED
  BY <1>1 DEF ResponsesAreSettled

LEMMA TickInvariant ==
  ASSUME IdempotencyTypeOK, IdempotencyInvariant, OutlivesLease = FALSE, Tick
  PROVE  IdempotencyInvariant'
<1>1. AwaitsWithinLease'
  <2>1. ASSUME NEW r \in Requests, request[r].at \in Awaiting
        PROVE  clock' \in request[r].now..(request[r].now + Lease)
    <3>1. /\ clock \in request[r].now..(request[r].now + Lease)
          /\ clock < request[r].now + Lease /\ clock' = clock + 1
      BY <2>1 DEF Tick, WithinLease, IdempotencyInvariant, AwaitsWithinLease
    <3>2. request[r].now \in Nat /\ Lease \in Nat /\ clock \in Nat
      BY IdempotencyAssumption DEF IdempotencyTypeOK, RequestContext
    <3> QED
      BY <3>1, <3>2
  <2> QED
    BY <2>1 DEF AwaitsWithinLease, Tick, Awaiting
<1> QED
  BY <1>1 DEF Tick, IdempotencyInvariant, HolderOwnsRow, OneExecution, ResponsesAreSettled,
     NothingBeforeTheEnd, EffectIffSettled, Running, Table, Recorded, Joins

LEMMA ArriveInvariant ==
  ASSUME IdempotencyTypeOK, IdempotencyInvariant,
         NEW r \in Requests, NEW k \in Keys, NEW o \in Operations, Arrive(r, k, o)
  PROVE  IdempotencyInvariant'
<1>1. /\ request[r].at = "idle" /\ request'[r].at = "register" /\ request'[r].key = k
      /\ request'[r].now = clock /\ UNCHANGED <<clock, rows, committed, reply>>
      /\ \A q \in Requests \ {r} : request'[q] = request[q]
  BY DEF Arrive, IdempotencyTypeOK, RequestContext
<1>2. \A j \in Keys : \A g \in DOMAIN rows[j] : rows[j][g].response # r
  BY <1>1, OnlyEndedIsRecorded DEF IdempotencyInvariant
<1>3. r \notin committed /\ reply[r] = NoReply
  BY <1>1 DEF IdempotencyInvariant, NothingBeforeTheEnd
<1>4. AwaitsWithinLease'
  <2>1. clock \in clock..(clock + Lease)
    BY IdempotencyAssumption DEF IdempotencyTypeOK
  <2> QED
    BY <1>1, <2>1 DEF IdempotencyInvariant, AwaitsWithinLease, Awaiting
<1>5. HolderOwnsRow' /\ OneExecution'
  BY <1>1 DEF IdempotencyInvariant, HolderOwnsRow, OneExecution, Running, Table
<1>6. ResponsesAreSettled'
  BY <1>1, ResponsesKept DEF IdempotencyInvariant, EndedStay
<1>7. NothingBeforeTheEnd'
  BY <1>1, <1>3 DEF IdempotencyInvariant, NothingBeforeTheEnd, Joins
<1>8. EffectIffSettled'
  BY <1>1, <1>2, <1>3 DEF IdempotencyInvariant, EffectIffSettled, Recorded, Table, Joins
<1> QED
  BY <1>4, <1>5, <1>6, <1>7, <1>8 DEF IdempotencyInvariant

\* A new generation belongs to the request that registered it and to nobody else.
LEMMA RegisterInvariant ==
  ASSUME IdempotencyTypeOK, IdempotencyInvariant, NEW r \in Requests, Register(r)
  PROVE  IdempotencyInvariant'
<1> DEFINE k == request[r].key
           n == Len(rows[k])
<1>1. /\ request[r].at = "register" /\ request'[r].at = "begin" /\ request'[r].key = k
      /\ request'[r].operation = request[r].operation
      /\ request'[r].now = request[r].now /\ request'[r].generation = n + 1
      /\ UNCHANGED <<clock, committed, reply>>
      /\ \A q \in Requests \ {r} : request'[q] = request[q]
  BY DEF Register, IdempotencyTypeOK, RequestContext, Table
<1>2. /\ k \in Keys /\ NewRow(r) \in OperationRow
      /\ rows' = [rows EXCEPT ![k] = Append(@, NewRow(r))]
  BY RegisterAppends
<1>3. /\ \A j \in Keys \ {k} : rows'[j] = rows[j]
      /\ n \in Nat /\ DOMAIN rows[k] = 1..n /\ DOMAIN rows'[k] = 1..(n + 1)
      /\ \A g \in 1..n : rows'[k][g] = rows[k][g]
      /\ rows'[k][n + 1] = NewRow(r)
  BY <1>2, AppendedRow DEF IdempotencyTypeOK
<1>4. \A j \in Keys : \A g \in DOMAIN rows[j] : rows[j][g].response # r
  BY <1>1, OnlyEndedIsRecorded DEF IdempotencyInvariant
<1>5. r \notin committed /\ reply[r] = NoReply
  BY <1>1 DEF IdempotencyInvariant, NothingBeforeTheEnd
<1>6. /\ NewRow(r).status = "PROCESSING" /\ NewRow(r).response = None
      /\ NewRow(r).lease_expires_at = request[r].now + Lease
  BY DEF NewRow
<1>7. \A q \in Requests \ {r} : Running(q) =>
         /\ request[q].key \in Keys /\ request[q].generation \in DOMAIN rows[request[q].key]
         /\ rows'[request[q].key][request[q].generation] =
               rows[request[q].key][request[q].generation]
         /\ request[q].key = k => request[q].generation # n + 1
  BY <1>3 DEF IdempotencyTypeOK, Running, Table
<1> HIDE DEF k, n
<1>8. AwaitsWithinLease'
  BY <1>1 DEF IdempotencyInvariant, AwaitsWithinLease, Awaiting
<1>9. HolderOwnsRow'
  BY <1>1, <1>3, <1>6, <1>7 DEF IdempotencyInvariant, HolderOwnsRow, Running, Table
<1>10. OneExecution'
  BY <1>1, <1>7 DEF IdempotencyInvariant, OneExecution, Running
<1>11. ResponsesAreSettled'
  <2>1. ASSUME NEW j \in Keys, NEW g \in DOMAIN rows'[j]
        PROVE  LET q == rows'[j][g].response
               IN  /\ rows'[j][g].status = "SETTLED" <=> q # None
                   /\ q # None => request'[q].key = j /\ request'[q].at = "ended"
    <3>1. CASE j = k /\ g = n + 1
      BY <1>3, <1>6, <3>1
    <3>2. CASE g \in DOMAIN rows[j] /\ rows'[j][g] = rows[j][g]
      BY <1>1, <3>2, RowType DEF IdempotencyInvariant, ResponsesAreSettled
    <3> QED
      BY <1>3, <2>1, <3>1, <3>2
  <2> QED
    BY <2>1 DEF ResponsesAreSettled
<1>12. NothingBeforeTheEnd'
  BY <1>1, <1>5 DEF IdempotencyInvariant, NothingBeforeTheEnd, Joins
<1>13. EffectIffSettled'
  <2>1. ASSUME NEW q \in Requests, request[q].at # "idle"
        PROVE  (\E g \in DOMAIN rows'[request[q].key] : rows'[request[q].key][g].response = q)
                 <=> (\E g \in DOMAIN rows[request[q].key] : rows[request[q].key][g].response = q)
    <3>1. None # q
      BY IdempotencyAssumption
    <3>2. request[q].key \in Keys
      BY <2>1 DEF IdempotencyTypeOK
    <3> QED
      BY <1>3, <1>6, <3>1, <3>2
  <2>2. \A q \in Requests : request'[q].at # "idle" =>
           /\ request[q].at # "idle" /\ request'[q].key = request[q].key
           /\ Joins(q)' <=> Joins(q)
    BY <1>1 DEF Joins, k
  <2> QED
    BY <1>1, <2>1, <2>2 DEF IdempotencyInvariant, EffectIffSettled, Recorded, Table
<1> QED
  BY <1>8, <1>9, <1>10, <1>11, <1>12, <1>13 DEF IdempotencyInvariant

\* Nobody holds the row of a lease that has expired, so a retake takes it from nobody.
LEMMA RetakeInvariant ==
  ASSUME IdempotencyTypeOK, IdempotencyInvariant, NEW r \in Requests, Retake(r)
  PROVE  IdempotencyInvariant'
<1> DEFINE k == request[r].key
           n == Len(rows[k])
<1>1. /\ request[r].at = "register" /\ request'[r].at = "begin" /\ request'[r].key = k
      /\ request'[r].operation = request[r].operation
      /\ request'[r].now = request[r].now /\ request'[r].generation = n
      /\ UNCHANGED <<clock, committed, reply>>
      /\ \A q \in Requests \ {r} : request'[q] = request[q]
  BY DEF Retake, Classifies, IdempotencyTypeOK, RequestContext, Table
<1>2. /\ k \in Keys /\ rows[k] # <<>> /\ RetakenRow(r) \in OperationRow
      /\ rows' = [rows EXCEPT ![k] = [@ EXCEPT ![n] = RetakenRow(r)]]
  BY RetakeWrites DEF Table
<1>3. n \in DOMAIN rows[k] /\ rows[k][n] \in OperationRow
  BY <1>1, <1>2, LatestRow DEF Table, Latest
<1>4. /\ \A j \in Keys \ {k} : rows'[j] = rows[j]
      /\ DOMAIN rows'[k] = DOMAIN rows[k]
      /\ \A h \in DOMAIN rows[k] : rows'[k][h] = IF h = n THEN RetakenRow(r) ELSE rows[k][h]
  BY <1>2, <1>3, WrittenRow DEF IdempotencyTypeOK
<1>5. /\ RetakenRow(r).status = rows[k][n].status /\ RetakenRow(r).status = "PROCESSING"
      /\ RetakenRow(r).response = rows[k][n].response
      /\ RetakenRow(r).lease_expires_at = request[r].now + Lease
  BY <1>3 DEF RetakenRow, Retake, Latest, Table, OperationRow
<1>6. ASSUME NEW q \in Requests, Running(q), request[q].key = k, request[q].generation = n
      PROVE  FALSE
  <2>1. rows[k][n].lease_expires_at = request[q].now + Lease
    BY <1>6 DEF IdempotencyInvariant, HolderOwnsRow, Table
  <2>2. clock <= request[q].now + Lease /\ request[r].now <= clock
    BY <1>1, <1>6 DEF IdempotencyInvariant, AwaitsWithinLease, Awaiting, Running,
                      IdempotencyTypeOK, RequestContext
  <2>3. request[r].now > rows[k][n].lease_expires_at
    BY DEF Retake, LeaseExpired, Latest, Table
  <2>4. request[r].now \in Nat /\ request[q].now \in Nat /\ clock \in Nat /\ Lease \in Nat
    BY IdempotencyAssumption DEF IdempotencyTypeOK, RequestContext
  <2> QED
    BY <2>1, <2>2, <2>3, <2>4
<1>7. \A q \in Requests \ {r} : Running(q) =>
         /\ request[q].key \in Keys /\ request[q].generation \in DOMAIN rows[request[q].key]
         /\ request[q].key = k => request[q].generation # n
         /\ rows'[request[q].key][request[q].generation] =
               rows[request[q].key][request[q].generation]
  BY <1>4, <1>6 DEF IdempotencyTypeOK, Running, Table
<1>8. r \notin committed /\ reply[r] = NoReply
  BY <1>1 DEF IdempotencyInvariant, NothingBeforeTheEnd
<1>9. \A j \in Keys :
         /\ DOMAIN rows'[j] = DOMAIN rows[j]
         /\ \A g \in DOMAIN rows[j] :
               rows'[j][g].status = rows[j][g].status /\ rows'[j][g].response = rows[j][g].response
  BY <1>4, <1>5
<1>10. \A q \in Requests :
         /\ request'[q].key = request[q].key /\ request'[q].operation = request[q].operation
         /\ request'[q].at = "idle" <=> request[q].at = "idle"
  BY <1>1
<1> HIDE DEF k, n
<1>11. AwaitsWithinLease'
  BY <1>1 DEF IdempotencyInvariant, AwaitsWithinLease, Awaiting
<1>12. HolderOwnsRow'
  BY <1>1, <1>2, <1>3, <1>4, <1>5, <1>7 DEF IdempotencyInvariant, HolderOwnsRow, Running, Table
<1>13. OneExecution'
  BY <1>1, <1>7 DEF IdempotencyInvariant, OneExecution, Running
<1>14. ResponsesAreSettled'
  <2>1. ASSUME NEW j \in Keys, NEW g \in DOMAIN rows[j]
        PROVE  LET q == rows[j][g].response
               IN  /\ rows'[j][g].status = "SETTLED" <=> q # None
                   /\ q # None => request'[q].key = j /\ request'[q].at = "ended"
    BY <1>1, <1>9, RowType DEF IdempotencyInvariant, ResponsesAreSettled
  <2> QED
    BY <1>9, <2>1 DEF ResponsesAreSettled
<1>15. NothingBeforeTheEnd'
  BY <1>1, <1>8 DEF IdempotencyInvariant, NothingBeforeTheEnd, Joins
<1>16. EffectIffSettled'
  <2>1. \A q \in Requests : request[q].at # "idle" => (Recorded(q)' <=> Recorded(q))
    BY <1>9, <1>10 DEF IdempotencyTypeOK, Recorded, Table
  <2> QED
    BY <1>1, <1>10, <2>1 DEF IdempotencyInvariant, EffectIffSettled, Joins
<1> QED
  BY <1>11, <1>12, <1>13, <1>14, <1>15, <1>16 DEF IdempotencyInvariant

\* A request that moves on, ends, fails or dies leaves the table alone.
LEMMA MovesOnInvariant ==
  ASSUME IdempotencyTypeOK, IdempotencyInvariant, NEW r \in Requests,
         NEW step \in {"handler", "settle", "ended"}, request' = [request EXCEPT ![r].at = step],
         request[r].at \in Awaiting, Running(r) \/ step = "ended", UNCHANGED <<clock, rows>>,
         IF step = "settle" /\ ~Joins(r) THEN committed' = committed \cup {r}
                                         ELSE committed' = committed,
         step # "ended" => (request[r].at # "settle" /\ reply' = reply),
         \A q \in Requests \ {r} : reply'[q] = reply[q]
  PROVE  IdempotencyInvariant'
<1>1. /\ request'[r] = [request[r] EXCEPT !.at = step] /\ request'[r].at = step
      /\ request'[r].key = request[r].key /\ request'[r].operation = request[r].operation
      /\ request'[r].now = request[r].now /\ request'[r].generation = request[r].generation
      /\ \A q \in Requests \ {r} : request'[q] = request[q]
  BY DEF IdempotencyTypeOK, RequestContext
<1>2. request[r].at \notin {"idle", "ended"}
  BY DEF Awaiting
<1>3. AwaitsWithinLease'
  BY <1>1 DEF IdempotencyInvariant, AwaitsWithinLease, Awaiting
<1>4. \A q \in Requests : Running(q)' =>
         /\ Running(q) /\ request'[q].key = request[q].key
         /\ request'[q].now = request[q].now /\ request'[q].generation = request[q].generation
  BY <1>1 DEF Running
<1>5. HolderOwnsRow'
  BY <1>4 DEF IdempotencyInvariant, HolderOwnsRow, Table
<1>6. OneExecution'
  BY <1>4 DEF IdempotencyInvariant, OneExecution
<1>7. ResponsesAreSettled'
  BY <1>1, <1>2, ResponsesKept DEF IdempotencyInvariant, EndedStay
<1>8. NothingBeforeTheEnd'
  <2>1. ASSUME NEW q \in Requests, q # r
        PROVE  /\ request'[q] = request[q] /\ reply'[q] = reply[q]
               /\ q \in committed' <=> q \in committed
    BY <1>1, <2>1
  <2>2. request[r].at # "settle" => r \notin committed
    BY <1>2 DEF IdempotencyInvariant, NothingBeforeTheEnd
  <2>3. step # "ended" => reply'[r] = NoReply
    BY <1>2 DEF IdempotencyInvariant, NothingBeforeTheEnd
  <2>4. step = "handler" => r \notin committed'
    BY <2>2
  <2>5. step = "settle" => (r \in committed' <=> ~Joins(r))
    BY <2>2
  <2> QED
    BY <1>1, <2>1, <2>3, <2>4, <2>5 DEF IdempotencyInvariant, NothingBeforeTheEnd, Joins
<1>9. EffectIffSettled'
  <2>1. \A q \in Requests :
           /\ Recorded(q)' <=> Recorded(q)
           /\ Joins(q)' <=> Joins(q)
           /\ request'[q].at # "idle" => request[q].at # "idle"
           /\ q \in committed => q \in committed'
           /\ Joins(q) /\ q \in committed' => q \in committed
    BY <1>1, <1>2 DEF Recorded, Table, Joins
  <2> QED
    BY <2>1 DEF IdempotencyInvariant, EffectIffSettled
<1> QED
  BY <1>3, <1>5, <1>6, <1>7, <1>8, <1>9 DEF IdempotencyInvariant

\* What a settlement does: the row was the request's own and PROCESSING, so its
\* answer is recorded, and no other row changes.
LEMMA SettleRecords ==
  ASSUME IdempotencyTypeOK, IdempotencyInvariant, NEW r \in Requests, Settle(r)
  PROVE  LET k == request[r].key
             g == request[r].generation
         IN  /\ k \in Keys /\ g \in DOMAIN rows[k]
             /\ rows[k][g].status = "PROCESSING" /\ rows[k][g].response = None
             /\ \A j \in Keys \ {k} : rows'[j] = rows[j]
             /\ Len(rows[k]) \in Nat /\ DOMAIN rows[k] = 1..Len(rows[k])
             /\ Len(rows'[k]) = Len(rows[k]) /\ DOMAIN rows'[k] = DOMAIN rows[k]
             /\ \A h \in DOMAIN rows[k] \ {g} : rows'[k][h] = rows[k][h]
             /\ rows'[k][g].status = "SETTLED" /\ rows'[k][g].response = r
<1> DEFINE k == request[r].key
           g == request[r].generation
<1>1. /\ k \in Keys /\ g \in DOMAIN rows[k]
      /\ OwnRow(r) \in OperationRow /\ SettledRow(r) \in OperationRow
      /\ rows' = [rows EXCEPT ![k] = [@ EXCEPT ![g] = SettledRow(r)]]
  BY SettleWrites DEF Table
<1>2. OwnRow(r) = rows[k][g] /\ OwnRow(r).status = "PROCESSING"
  BY DEF Settle, IdempotencyInvariant, HolderOwnsRow, Running, OwnRow, Table
<1>3. rows[k][g].response = None
  BY <1>1, <1>2 DEF IdempotencyInvariant, ResponsesAreSettled
<1>4. SettledRow(r).status = "SETTLED" /\ SettledRow(r).response = r
  BY <1>1, <1>2 DEF SettledRow, OperationRow
<1>5. /\ \A j \in Keys \ {k} : rows'[j] = rows[j]
      /\ Len(rows[k]) \in Nat /\ DOMAIN rows[k] = 1..Len(rows[k])
      /\ Len(rows'[k]) = Len(rows[k]) /\ DOMAIN rows'[k] = DOMAIN rows[k]
      /\ \A h \in DOMAIN rows[k] : rows'[k][h] = IF h = g THEN SettledRow(r) ELSE rows[k][h]
  BY <1>1, WrittenRow DEF IdempotencyTypeOK
<1> HIDE DEF k, g
<1>6. /\ k \in Keys /\ g \in DOMAIN rows[k]
      /\ rows[k][g].status = "PROCESSING" /\ rows[k][g].response = None
      /\ \A h \in DOMAIN rows[k] \ {g} : rows'[k][h] = rows[k][h]
      /\ rows'[k][g].status = "SETTLED" /\ rows'[k][g].response = r
  BY <1>1, <1>2, <1>3, <1>4, <1>5
<1> QED
  BY <1>5, <1>6 DEF k, g

LEMMA SettleInvariant ==
  ASSUME IdempotencyTypeOK, IdempotencyInvariant, NEW r \in Requests, Settle(r)
  PROVE  IdempotencyInvariant'
<1> DEFINE k == request[r].key
           g == request[r].generation
<1>1. /\ request[r].at = "settle" /\ request'[r].at = "ended" /\ request'[r].key = k
      /\ request'[r].operation = request[r].operation
      /\ UNCHANGED clock
      /\ \A q \in Requests \ {r} : request'[q] = request[q] /\ reply'[q] = reply[q]
      /\ committed' = IF Joins(r) THEN committed \cup {r} ELSE committed
  BY DEF Settle, Ends, Goes, IdempotencyTypeOK, RequestContext
<1>2. /\ k \in Keys /\ g \in DOMAIN rows[k]
      /\ rows[k][g].status = "PROCESSING" /\ rows[k][g].response = None
      /\ \A j \in Keys \ {k} : rows'[j] = rows[j]
      /\ DOMAIN rows'[k] = DOMAIN rows[k]
      /\ \A h \in DOMAIN rows[k] \ {g} : rows'[k][h] = rows[k][h]
      /\ rows'[k][g].status = "SETTLED" /\ rows'[k][g].response = r
  BY SettleRecords
<1>3. \A q \in Requests \ {r} : Running(q) =>
         /\ request[q].key \in Keys /\ request[q].generation \in DOMAIN rows[request[q].key]
         /\ ~(request[q].key = k /\ request[q].generation = g)
  BY <1>1 DEF IdempotencyTypeOK, IdempotencyInvariant, OneExecution, Running, Table
<1>4. \A q \in Requests : Running(q)' => q # r /\ Running(q) /\ request'[q] = request[q]
  BY <1>1 DEF Running
<1> HIDE DEF g
<1>5. AwaitsWithinLease'
  BY <1>1 DEF IdempotencyInvariant, AwaitsWithinLease, Awaiting
<1>6. HolderOwnsRow'
  BY <1>2, <1>3, <1>4 DEF IdempotencyInvariant, HolderOwnsRow, Table
<1>7. OneExecution'
  BY <1>4 DEF IdempotencyInvariant, OneExecution
<1>8. ResponsesAreSettled'
  <2>1. ASSUME NEW j \in Keys, NEW h \in DOMAIN rows'[j]
        PROVE  LET q == rows'[j][h].response
               IN  /\ rows'[j][h].status = "SETTLED" <=> q # None
                   /\ q # None => request'[q].key = j /\ request'[q].at = "ended"
    <3>1. CASE j = k /\ h = g
      BY <1>1, <1>2, <3>1, IdempotencyAssumption
    <3>2. CASE h \in DOMAIN rows[j] /\ rows'[j][h] = rows[j][h]
      BY <1>1, <3>2, RowType DEF IdempotencyInvariant, ResponsesAreSettled
    <3> QED
      BY <1>2, <2>1, <3>1, <3>2
  <2> QED
    BY <2>1 DEF ResponsesAreSettled
<1>9. NothingBeforeTheEnd'
  <2>1. \A q \in Requests \ {r} : q \in committed' <=> q \in committed
    BY <1>1
  <2> QED
    BY <1>1, <2>1 DEF IdempotencyInvariant, NothingBeforeTheEnd, Joins
<1>10. EffectIffSettled'
  <2>1. r \in committed' /\ Recorded(r)'
    BY <1>1, <1>2 DEF IdempotencyInvariant, NothingBeforeTheEnd, Recorded, Table
  <2>2. ASSUME NEW q \in Requests \ {r}, request[q].at # "idle"
        PROVE  Recorded(q)' <=> Recorded(q)
    <3>1. None # q /\ request[q].key \in Keys /\ request'[q] = request[q]
      BY <1>1, <2>2, IdempotencyAssumption DEF IdempotencyTypeOK
    <3> QED
      BY <1>2, <3>1 DEF Recorded, Table
  <2> QED
    BY <1>1, <2>1, <2>2 DEF IdempotencyInvariant, EffectIffSettled, Joins
<1> QED
  BY <1>5, <1>6, <1>7, <1>8, <1>9, <1>10 DEF IdempotencyInvariant

LEMMA InvariantStep ==
  ASSUME OutlivesLease = FALSE, IdempotencyTypeOK, IdempotencyInvariant, [Next]_idempotencyVars
  PROVE  IdempotencyInvariant'
<1>1. CASE UNCHANGED idempotencyVars
  BY <1>1 DEF idempotencyVars, IdempotencyInvariant, AwaitsWithinLease, HolderOwnsRow,
     OneExecution, ResponsesAreSettled, NothingBeforeTheEnd, EffectIffSettled,
     Running, Table, Recorded, Joins
<1>2. CASE Tick
  BY <1>2, TickInvariant
<1>3. ASSUME NEW r \in Requests, NEW k \in Keys, NEW o \in Operations, Arrive(r, k, o)
      PROVE  IdempotencyInvariant'
  BY <1>3, ArriveInvariant
<1>4. ASSUME NEW r \in Requests, Register(r)
      PROVE  IdempotencyInvariant'
  BY <1>4, RegisterInvariant
<1>5. ASSUME NEW r \in Requests, Retake(r)
      PROVE  IdempotencyInvariant'
  BY <1>5, RetakeInvariant
<1>6. ASSUME NEW r \in Requests,
             RefuseMismatch(r) \/ Replay(r) \/ RefuseInFlight(r) \/ Fail(r) \/ Die(r)
      PROVE  IdempotencyInvariant'
  <2>1. /\ request' = [request EXCEPT ![r].at = "ended"] /\ request[r].at \in Awaiting
        /\ UNCHANGED <<clock, rows>> /\ committed' = committed
        /\ \A q \in Requests \ {r} : reply'[q] = reply[q]
    BY <1>6 DEF RefuseMismatch, Replay, RefuseInFlight, Fail, Die, Ends, Goes, Classifies,
                HoldsClient, Awaiting, IdempotencyTypeOK
  <2> QED
    BY <2>1, MovesOnInvariant
<1>7. ASSUME NEW r \in Requests, Begin(r)
      PROVE  IdempotencyInvariant'
  BY <1>7, MovesOnInvariant DEF Begin, Goes, Running, Awaiting
<1>8. ASSUME NEW r \in Requests, RunHandler(r)
      PROVE  IdempotencyInvariant'
  BY <1>8, MovesOnInvariant DEF RunHandler, Goes, Running, Awaiting
<1>9. ASSUME NEW r \in Requests, Settle(r)
      PROVE  IdempotencyInvariant'
  BY <1>9, SettleInvariant
<1> QED
  BY <1>1, <1>2, <1>3, <1>4, <1>5, <1>6, <1>7, <1>8, <1>9 DEF Next

\* The invariant holds of every reachable state if requests end within their lease.
THEOREM IdempotencyInvariantHolds ==
  ASSUME OutlivesLease = FALSE
  PROVE  IdempotencySpec => []IdempotencyInvariant
<1>1. Init => IdempotencyInvariant
  BY InvariantInit
<1>2. IdempotencyTypeOK /\ IdempotencyInvariant /\ [Next]_idempotencyVars => IdempotencyInvariant'
  BY InvariantStep
<1> QED
  BY <1>1, <1>2, IdempotencyTypeCorrect, PTL DEF IdempotencySpec

\* One execution of a generation at a time, through any sequence of retakes.
THEOREM OneExecutionAtATime ==
  ASSUME OutlivesLease = FALSE
  PROVE  IdempotencySpec => []OneExecution
<1>1. IdempotencyInvariant => OneExecution
  BY DEF IdempotencyInvariant
<1> QED
  BY <1>1, IdempotencyInvariantHolds, PTL

\* docs/tasks.md T25: an effect in the interceptor's transaction is committed
\* exactly when its answer is recorded.
THEOREM EffectsAreSettled ==
  ASSUME OutlivesLease = FALSE
  PROVE  IdempotencySpec => []EffectIffSettled
<1>1. IdempotencyInvariant => EffectIffSettled
  BY DEF IdempotencyInvariant
<1> QED
  BY <1>1, IdempotencyInvariantHolds, PTL

-----------------------------------------------------------------------------
(* Keyed requests implement KeyedOperations *)

Asked == [r \in Requests |-> request[r].key]
Windows == [k \in Keys |-> [g \in DOMAIN rows[k] |-> rows[k][g].response]]
Performed == {r \in committed : Joins(r)}
Answers == [r \in Requests |-> reply[r].body]

LEMMA KeyedInitially ==
  ASSUME Init
  PROVE  Keyed!KeyedInit
<1>1. Windows = [k \in Keys |-> <<>>]
  <2>1. \A k \in Keys : [g \in DOMAIN rows[k] |-> rows[k][g].response] = <<>>
    BY DEF Init
  <2> QED
    BY <2>1 DEF Windows
<1>2. Asked = [r \in Requests |-> None] /\ Answers = [r \in Requests |-> None] /\ Performed = {}
  BY DEF Init, Asked, Answers, Performed, NoReply
<1> QED
  BY <1>1, <1>2 DEF Keyed!KeyedInit, Windows, Asked, Answers, Performed

\* A step that shows nothing of itself.
LEMMA KeyedStutters ==
  ASSUME \A r \in Requests : request'[r].key = request[r].key,
         \A r \in Requests : reply'[r].body = reply[r].body,
         \A k \in Keys : /\ DOMAIN rows'[k] = DOMAIN rows[k]
                         /\ \A g \in DOMAIN rows[k] : rows'[k][g].response = rows[k][g].response,
         {r \in committed : Joins(r)}' = {r \in committed : Joins(r)}
  PROVE  UNCHANGED Keyed!keyedVars
  BY DEF Keyed!keyedVars

LEMMA ArriveAsks ==
  ASSUME IdempotencyTypeOK, IdempotencyInvariant,
         NEW r \in Requests, NEW k \in Keys, NEW o \in Operations, Arrive(r, k, o)
  PROVE  Keyed!Ask(r, k)
<1>1. /\ request[r].at = "idle" /\ request'[r].key = k
      /\ UNCHANGED <<clock, rows, committed, reply>>
      /\ \A q \in Requests \ {r} : request'[q] = request[q]
  BY DEF Arrive, IdempotencyTypeOK, RequestContext
<1>2. request[r].key = None /\ r \notin committed
  BY <1>1 DEF IdempotencyInvariant, NothingBeforeTheEnd
<1>3. Asked[r] = None /\ Asked' = [Asked EXCEPT ![r] = k]
  BY <1>1, <1>2 DEF Asked
<1>4. UNCHANGED <<Windows, Performed, Answers>>
  BY <1>1, <1>2 DEF Windows, Performed, Answers, Joins, IdempotencyTypeOK
<1> QED
  BY <1>3, <1>4 DEF Keyed!Ask, Asked, Windows, Performed, Answers

\* What a request is answered shows in Answers.
LEMMA AnswersUpdated ==
  ASSUME IdempotencyTypeOK, NEW r \in Requests, reply[r] = NoReply, NEW kind, NEW body,
         reply' = [reply EXCEPT ![r] = [kind |-> kind, body |-> body]]
  PROVE  Answers[r] = None /\ Answers' = [Answers EXCEPT ![r] = body]
<1>1. reply'[r].body = body /\ \A q \in Requests \ {r} : reply'[q] = reply[q]
  BY DEF IdempotencyTypeOK
<1>2. Answers'[r] = body /\ \A q \in Requests \ {r} : Answers'[q] = Answers[q]
  BY <1>1 DEF Answers
<1>3. Answers = [q \in Requests |-> Answers[q]] /\ Answers' = [q \in Requests |-> Answers'[q]]
  BY DEF Answers
<1>4. Answers[r] = None
  BY DEF Answers, NoReply
<1> HIDE DEF Answers
<1> QED
  BY <1>2, <1>3, <1>4

\* What happens to the table of one key shows in its windows.
LEMMA WindowsUpdated ==
  ASSUME NEW k \in Keys, \A j \in Keys \ {k} : rows'[j] = rows[j],
         NEW w, Windows'[k] = w
  PROVE  Windows' = [Windows EXCEPT ![k] = w]
<1>1. \A j \in Keys \ {k} : Windows'[j] = Windows[j]
  BY DEF Windows
<1>2. Windows = [j \in Keys |-> Windows[j]] /\ Windows' = [j \in Keys |-> Windows'[j]]
  BY DEF Windows
<1> HIDE DEF Windows
<1> QED
  BY <1>1, <1>2

LEMMA AppendAsFunction ==
  ASSUME NEW S, NEW s \in Seq(S), NEW e \in S
  PROVE  Append(s, e) =
           [g \in 1..(Len(s) + 1) |-> IF g = Len(s) + 1 THEN e ELSE s[g]]
<1> DEFINE t == Append(s, e)
<1>1. /\ t \in Seq(S) /\ Len(t) = Len(s) + 1 /\ t[Len(s) + 1] = e
      /\ \A g \in 1..Len(s) : t[g] = s[g]
  BY AppendProperties
<1>2. t \in [1..(Len(s) + 1) -> S]
  BY <1>1, LenProperties
<1>3. Len(s) \in Nat
  OBVIOUS
<1> HIDE DEF t
<1>4. \A g \in 1..(Len(s) + 1) : t[g] = IF g = Len(s) + 1 THEN e ELSE s[g]
  BY <1>1, <1>3
<1>5. t = [g \in 1..(Len(s) + 1) |-> IF g = Len(s) + 1 THEN e ELSE s[g]]
  BY <1>2, <1>4
<1> QED
  BY <1>5 DEF t

\* Whatever a request remembers of its step, its key and operation stay.
LEMMA SameRequest ==
  ASSUME NEW r \in Requests, request'[r].key = request[r].key,
         request'[r].operation = request[r].operation,
         \A q \in Requests \ {r} : request'[q] = request[q]
  PROVE  /\ Asked' = Asked
         /\ \A q \in Requests : Joins(q)' <=> Joins(q)
<1>1. \A q \in Requests : request'[q].key = request[q].key
                          /\ request'[q].operation = request[q].operation
  OBVIOUS
<1> QED
  BY <1>1 DEF Asked, Joins

LEMMA RegisterOpens ==
  ASSUME IdempotencyTypeOK, NEW r \in Requests, NEW k \in Keys, k = request[r].key, Register(r)
  PROVE  Keyed!OpenWindow(k)
<1> DEFINE n == Len(rows[k])
<1>1. /\ request'[r].key = k /\ request'[r].operation = request[r].operation
      /\ UNCHANGED <<committed, reply>>
      /\ \A q \in Requests \ {r} : request'[q] = request[q]
  BY DEF Register, IdempotencyTypeOK, RequestContext
<1>2. /\ k \in Keys /\ NewRow(r) \in OperationRow
      /\ rows' = [rows EXCEPT ![k] = Append(@, NewRow(r))]
  BY RegisterAppends
<1>3. /\ \A j \in Keys \ {k} : rows'[j] = rows[j]
      /\ n \in Nat /\ DOMAIN rows[k] = 1..n /\ DOMAIN rows'[k] = 1..(n + 1)
      /\ \A g \in 1..n : rows'[k][g] = rows[k][g]
      /\ rows'[k][n + 1].response = None
  BY <1>2, AppendedRow DEF IdempotencyTypeOK, NewRow
<1>4. Windows'[k] = Append(Windows[k], None)
  <2> DEFINE old == [g \in 1..n |-> rows[k][g].response]
  <2>1. Windows[k] = old /\ Windows'[k] = [g \in 1..(n + 1) |-> rows'[k][g].response]
    BY <1>2, <1>3 DEF Windows
  <2>2. old \in Seq(Requests \cup {None}) /\ Len(old) = n
    <3>1. \A g \in 1..n : rows[k][g].response \in Requests \cup {None}
      BY <1>2, <1>3, RowType
    <3> QED
      BY <1>3, <3>1
  <2>3. [g \in 1..(n + 1) |-> rows'[k][g].response] = Append(old, None)
    <3>1. None \in Requests \cup {None}
      OBVIOUS
    <3>2. Append(old, None) =
            [g \in 1..(n + 1) |-> IF g = n + 1 THEN None ELSE old[g]]
      BY <2>2, <3>1, AppendAsFunction
    <3>3. \A g \in 1..(n + 1) : (IF g = n + 1 THEN None ELSE old[g]) = rows'[k][g].response
      BY <1>3
    <3> QED
      BY <3>2, <3>3
  <2> QED
    BY <2>1, <2>3
<1>5. Windows' = [Windows EXCEPT ![k] = Append(@, None)]
  BY <1>2, <1>3, <1>4, WindowsUpdated
<1>6. UNCHANGED <<Asked, Performed, Answers>>
  BY <1>1, SameRequest DEF Performed, Answers, IdempotencyTypeOK
<1> QED
  BY <1>2, <1>5, <1>6 DEF Keyed!OpenWindow, Asked, Windows, Performed, Answers

LEMMA ReplayRepeats ==
  ASSUME IdempotencyTypeOK, IdempotencyInvariant, NEW r \in Requests,
         NEW k \in Keys, k = request[r].key, Replay(r)
  PROVE  Keyed!Repeat(r, k)
<1>1. /\ request[r].at = "register" /\ Table(r) # <<>> /\ Latest(r).status = "SETTLED"
      /\ request'[r].key = k /\ request'[r].operation = request[r].operation
      /\ UNCHANGED <<rows, committed>>
      /\ \A q \in Requests \ {r} : request'[q] = request[q]
      /\ reply' = [reply EXCEPT ![r] = [kind |-> "REPLAY", body |-> Latest(r).response]]
  BY DEF Replay, Classifies, WindowOver, Ends, Goes, IdempotencyTypeOK, RequestContext
<1>2. k \in Keys /\ Len(rows[k]) \in DOMAIN rows[k] /\ Len(rows[k]) \in Nat \ {0}
      /\ rows[k] \in Seq(OperationRow)
  BY <1>1, LatestRow DEF Table, IdempotencyTypeOK
<1>3. Latest(r).response # None /\ Latest(r).response = Windows[k][Len(rows[k])]
  BY <1>1, <1>2 DEF IdempotencyInvariant, ResponsesAreSettled, Latest, Table, Windows
<1>4. Len(Windows[k]) = Len(rows[k]) /\ Windows[k] # <<>>
  <2>1. Windows[k] = [g \in 1..Len(rows[k]) |-> rows[k][g].response]
    BY <1>2 DEF Windows
  <2>2. Len(Windows[k]) = Len(rows[k])
    BY <1>2, <2>1
  <2> QED
    BY <1>2, <2>2
<1>5. reply[r] = NoReply
  BY <1>1 DEF IdempotencyInvariant, NothingBeforeTheEnd
<1>6. Answers[r] = None /\ Answers' = [Answers EXCEPT ![r] = Latest(r).response]
  BY <1>1, <1>5, AnswersUpdated
<1>7. Asked[r] = k /\ UNCHANGED <<Asked, Windows, Performed>>
  BY <1>1, SameRequest DEF Asked, Windows, Performed, IdempotencyTypeOK
<1>8. Answers' = [Answers EXCEPT ![r] = Windows[k][Len(Windows[k])]]
  BY <1>3, <1>4, <1>6
<1>9. Windows[k][Len(Windows[k])] # None
  BY <1>3, <1>4
<1> QED
  BY <1>2, <1>4, <1>6, <1>7, <1>8, <1>9
     DEF Keyed!Repeat, Asked, Windows, Performed, Answers

LEMMA SettlePerforms ==
  ASSUME IdempotencyTypeOK, IdempotencyInvariant, NEW r \in Requests, Settle(r),
         NEW k \in Keys, k = request[r].key, NEW g, g = request[r].generation
  PROVE  g \in DOMAIN Windows[k] /\ Keyed!Perform(r, k, g)
<1>1. /\ request[r].at = "settle"
      /\ request'[r].key = k /\ request'[r].operation = request[r].operation
      /\ \A q \in Requests \ {r} : request'[q] = request[q]
      /\ committed' = IF Joins(r) THEN committed \cup {r} ELSE committed
      /\ reply' = [reply EXCEPT ![r] = [kind |-> "OWN", body |-> r]]
  BY DEF Settle, Ends, Goes, IdempotencyTypeOK, RequestContext
<1>2. /\ k \in Keys /\ g \in DOMAIN rows[k] /\ rows[k][g].response = None
      /\ \A j \in Keys \ {k} : rows'[j] = rows[j]
      /\ DOMAIN rows'[k] = DOMAIN rows[k]
      /\ \A h \in DOMAIN rows[k] \ {g} : rows'[k][h] = rows[k][h]
      /\ rows'[k][g].response = r
  BY SettleRecords
<1>3. g \in DOMAIN Windows[k] /\ Windows[k][g] = None
  BY <1>2 DEF Windows
<1>4. Windows' = [Windows EXCEPT ![k] = [@ EXCEPT ![g] = r]]
  <2>1. Windows'[k] = [Windows[k] EXCEPT ![g] = r]
    BY <1>2 DEF Windows
  <2> QED
    BY <1>2, <2>1 DEF Windows
<1>5. reply[r] = NoReply
  BY <1>1 DEF IdempotencyInvariant, NothingBeforeTheEnd
<1>6. Answers[r] = None /\ Answers' = [Answers EXCEPT ![r] = r]
  BY <1>1, <1>5, AnswersUpdated
<1>7. Asked' = Asked /\ Asked[r] = k /\ \A q \in Requests : Joins(q)' <=> Joins(q)
  BY <1>1, SameRequest DEF Asked
<1>8. Performed' \in {Performed, Performed \cup {r}}
  BY <1>1, <1>7 DEF Performed, IdempotencyTypeOK
<1> QED
  BY <1>2, <1>3, <1>4, <1>6, <1>7, <1>8
     DEF Keyed!Perform, Asked, Windows, Performed, Answers

\* Every other step shows nothing of itself.
LEMMA OthersStutter ==
  ASSUME IdempotencyTypeOK, IdempotencyInvariant, NEW r \in Requests,
         \/ RefuseMismatch(r) \/ RefuseInFlight(r) \/ Fail(r) \/ Die(r)
         \/ Begin(r) \/ RunHandler(r) \/ Retake(r)
  PROVE  UNCHANGED Keyed!keyedVars
<1>1. /\ request'[r].key = request[r].key /\ request'[r].operation = request[r].operation
      /\ \A q \in Requests \ {r} : request'[q] = request[q]
  <2>1. CASE Retake(r)
    BY <2>1 DEF Retake, IdempotencyTypeOK, RequestContext
  <2>2. ASSUME NEW step, Goes(r, step)
        PROVE  <1>1
    BY <2>2 DEF Goes, IdempotencyTypeOK, RequestContext
  <2>3. CASE ~Retake(r)
    <3>1. \E step \in {"handler", "settle", "ended"} : Goes(r, step)
      BY <2>3 DEF RefuseMismatch, RefuseInFlight, Fail, Die, Begin, RunHandler, Ends
    <3> QED
      BY <2>2, <3>1
  <2> QED
    BY <2>1, <2>3
<1>2. \A q \in Requests : reply'[q].body = reply[q].body
  <2>1. reply[r].body = None
    BY DEF IdempotencyInvariant, NothingBeforeTheEnd, NoReply, RefuseMismatch, RefuseInFlight,
           Fail, Die, Begin, RunHandler, Retake, Classifies, HoldsClient, Awaiting
  <2>2. reply' = reply \/ \E kind \in {"MISMATCH", "IN_FLIGHT", "ERROR"} :
                             reply' = [reply EXCEPT ![r] = [kind |-> kind, body |-> None]]
    BY DEF RefuseMismatch, RefuseInFlight, Fail, Die, Begin, RunHandler, Retake, Ends
  <2> QED
    BY <2>1, <2>2 DEF IdempotencyTypeOK
<1>3. \A k \in Keys : /\ DOMAIN rows'[k] = DOMAIN rows[k]
                      /\ \A g \in DOMAIN rows[k] : rows'[k][g].response = rows[k][g].response
  <2>1. CASE Retake(r)
    <3> DEFINE k == request[r].key
               n == Len(rows[k])
    <3>1. /\ k \in Keys /\ rows[k] # <<>> /\ RetakenRow(r) \in OperationRow
          /\ rows' = [rows EXCEPT ![k] = [@ EXCEPT ![n] = RetakenRow(r)]]
      BY <2>1, RetakeWrites DEF Table
    <3>2. n \in DOMAIN rows[k] /\ rows[k][n] \in OperationRow
      BY <2>1, <3>1, LatestRow DEF Table, Latest, Retake, Classifies
    <3>3. RetakenRow(r).response = rows[k][n].response
      BY <3>2 DEF RetakenRow, Latest, Table, OperationRow
    <3>4. /\ \A j \in Keys \ {k} : rows'[j] = rows[j]
          /\ DOMAIN rows'[k] = DOMAIN rows[k]
          /\ \A h \in DOMAIN rows[k] : rows'[k][h] = IF h = n THEN RetakenRow(r) ELSE rows[k][h]
      BY <3>1, <3>2, WrittenRow DEF IdempotencyTypeOK
    <3> HIDE DEF k, n
    <3> QED
      BY <3>3, <3>4
  <2>2. CASE ~Retake(r)
    BY <2>2 DEF RefuseMismatch, RefuseInFlight, Fail, Die, Begin, RunHandler
  <2> QED
    BY <2>1, <2>2
<1>4. {q \in committed : Joins(q)}' = {q \in committed : Joins(q)}
  <2>1. \A q \in Requests : Joins(q)' <=> Joins(q)
    BY <1>1, SameRequest
  <2>2. committed' = committed \/ (~Joins(r) /\ committed' = committed \cup {r})
    BY DEF RefuseMismatch, RefuseInFlight, Fail, Die, Begin, RunHandler, Retake
  <2> QED
    BY <2>1, <2>2 DEF IdempotencyTypeOK
<1> QED
  BY <1>1, <1>2, <1>3, <1>4, KeyedStutters

LEMMA KeyedStep ==
  ASSUME IdempotencyTypeOK, IdempotencyInvariant, [Next]_idempotencyVars
  PROVE  [Keyed!KeyedNext]_(Keyed!keyedVars)
<1>1. CASE UNCHANGED idempotencyVars \/ Tick
  BY <1>1, KeyedStutters DEF idempotencyVars, Tick, Joins
<1>2. ASSUME NEW r \in Requests, NEW k \in Keys, NEW o \in Operations, Arrive(r, k, o)
      PROVE  Keyed!KeyedNext
  BY <1>2, ArriveAsks DEF Keyed!KeyedNext
<1>3. ASSUME NEW r \in Requests, Register(r)
      PROVE  Keyed!KeyedNext
  <2>1. PICK k \in Keys : k = request[r].key
    BY <1>3, RegisterAppends
  <2>2. Keyed!OpenWindow(k)
    BY <1>3, <2>1, RegisterOpens
  <2> QED
    BY <2>2 DEF Keyed!KeyedNext
<1>4. ASSUME NEW r \in Requests, Replay(r)
      PROVE  Keyed!KeyedNext
  <2>1. PICK k \in Keys : k = request[r].key
    BY <1>4 DEF Replay, Classifies, IdempotencyTypeOK
  <2>2. Keyed!Repeat(r, k)
    BY <1>4, <2>1, ReplayRepeats
  <2> QED
    BY <2>2 DEF Keyed!KeyedNext
<1>5. ASSUME NEW r \in Requests, Settle(r)
      PROVE  Keyed!KeyedNext
  <2>1. PICK k \in Keys : k = request[r].key
    BY <1>5, SettleWrites
  <2>2. PICK g : g = request[r].generation
    OBVIOUS
  <2>3. g \in DOMAIN Windows[k] /\ Keyed!Perform(r, k, g)
    BY <1>5, <2>1, <2>2, SettlePerforms
  <2> QED
    BY <2>3 DEF Keyed!KeyedNext, Windows
<1>6. ASSUME NEW r \in Requests,
             \/ RefuseMismatch(r) \/ RefuseInFlight(r) \/ Fail(r) \/ Die(r)
             \/ Begin(r) \/ RunHandler(r) \/ Retake(r)
      PROVE  UNCHANGED Keyed!keyedVars
  BY <1>6, OthersStutter
<1> QED
  BY <1>1, <1>2, <1>3, <1>4, <1>5, <1>6 DEF Next

\* docs/spec.md INV-05 and 3.5: if requests end within their lease, then in one
\* window of a key at most one request is performed, its answer is recorded in the
\* same step, and no request is given another.
THEOREM KeyedRequestsKeepThePromise ==
  ASSUME OutlivesLease = FALSE
  PROVE  IdempotencySpec => KeepsThePromise
<1>1. Init => Keyed!KeyedInit
  BY KeyedInitially
<1>2. IdempotencyTypeOK /\ IdempotencyInvariant /\ [Next]_idempotencyVars
        => [Keyed!KeyedNext]_(Keyed!keyedVars)
  BY KeyedStep
<1> QED
  BY <1>1, <1>2, IdempotencyTypeCorrect, IdempotencyInvariantHolds, PTL
     DEF IdempotencySpec, KeepsThePromise, Keyed!KeyedSpec
=============================================================================
