-------------------------------- MODULE RowLocks --------------------------------
(***************************************************************************)
(* The transactions of the engine statement by statement: which rows each   *)
(* locks, in which order, and what it writes when it commits. The other     *)
(* modules take a transaction for one step; this one shows what that rests  *)
(* on, and which transactions can wait for each other.                      *)
(*                                                                          *)
(* PostgreSQL runs them READ COMMITTED: a statement sees the rows committed *)
(* when it begins, waits for the lock of a row it is to lock or update, and *)
(* then looks at that row again. Of the lock modes only FOR UPDATE keeps    *)
(* the KEY SHARE of an insertion out. Waits on unique indexes are left out: *)
(* those rows are never waited for by who holds what the insertion needs.   *)
(***************************************************************************)
CONSTANTS
    Subscriptions,  \* subscriptions, the ids
    Intents,        \* billing intents, the ids
    SubOf,          \* the subscription of each intent
    Transactions,   \* connections, each runs one transaction after another
    Nothing         \* no row, no transaction, no status

VARIABLES
    status,     \* the committed status of each row
    holder,     \* the transaction that has locked each row
    tx          \* what each transaction is doing

locksVars == <<status, holder, tx>>

-----------------------------------------------------------------------------
LockRows == Subscriptions \cup Intents

SubscriptionStates == {"ACTIVE", "PAUSED", "CANCELLED"}

IntentStates ==
    {"ABSENT", "SCHEDULED", "IN_FLIGHT", "RETRY_PENDING", "SUCCEEDED",
     "FAILED_FINAL", "UNKNOWN", "OMITTED"}

LiveStates == {"SCHEDULED", "IN_FLIGHT", "RETRY_PENDING", "UNKNOWN"}

OmittableStates == {"SCHEDULED", "RETRY_PENDING"}

Statuses == SubscriptionStates \cup IntentStates

ASSUME LocksAssumption ==
    /\ SubOf \in [Intents -> Subscriptions]
    /\ Subscriptions \cap Intents = {}
    /\ Nothing \notin Subscriptions /\ Nothing \notin Intents
    /\ Nothing \notin Transactions /\ Nothing \notin Statuses

Settlements == {"SUCCEEDED", "RETRY_PENDING", "FAILED_FINAL", "UNKNOWN"}

\* The transactions that lock one intent and update it: from which statuses, to
\* which. Recovery, the three updates of the verification sweep, the closing of a
\* probe and a manual attempt.
SingleUpdates ==
    {[from |-> {"IN_FLIGHT"}, to |-> "UNKNOWN"],
     [from |-> {"UNKNOWN"}, to |-> "SUCCEEDED"],
     [from |-> {"UNKNOWN"}, to |-> "RETRY_PENDING"],
     [from |-> {"UNKNOWN"}, to |-> "OMITTED"],
     [from |-> {"UNKNOWN", "FAILED_FINAL"}, to |-> "IN_FLIGHT"]}

\* step: the statement it is at; todo: the rows of it still to be updated; read: what
\* a row was when it was locked; write: what it becomes.
Transaction ==
    [kind : {"none", "start", "settle", "single", "omit", "resume"},
     intent : Intents \cup {Nothing}, sub : Subscriptions \cup {Nothing},
     from : SUBSET IntentStates, to : Statuses \cup {Nothing}, ids : SUBSET Intents,
     step : {"none", "intent", "subscription", "omit", "commit"},
     todo : SUBSET Intents,
     read : [LockRows -> Statuses \cup {Nothing}],
     write : [LockRows -> Statuses \cup {Nothing}]]

NoRows == [r \in LockRows |-> Nothing]

NoTransaction ==
    [kind |-> "none", intent |-> Nothing, sub |-> Nothing, from |-> {}, to |-> Nothing,
     ids |-> {}, step |-> "none", todo |-> {}, read |-> NoRows, write |-> NoRows]

LocksTypeOK ==
    /\ status \in [LockRows -> Statuses]
    /\ \A s \in Subscriptions : status[s] \in SubscriptionStates
    /\ \A i \in Intents : status[i] \in IntentStates
    /\ holder \in [LockRows -> Transactions \cup {Nothing}]
    /\ tx \in [Transactions -> Transaction]

LocksInit ==
    /\ status = [r \in LockRows |-> IF r \in Subscriptions THEN "ACTIVE" ELSE "ABSENT"]
    /\ holder = NoRows
    /\ tx = [t \in Transactions |-> NoTransaction]

-----------------------------------------------------------------------------
(* BEGIN *)

\* The first rows: a start, a settlement and the single updates begin with the
\* intent, a cancellation, a pause and a resume with the subscription.
Begin(t, work) ==
    /\ tx[t].kind = "none"
    /\ tx' = [tx EXCEPT ![t] = work]
    /\ UNCHANGED <<status, holder>>

\* No execution outlives its deadline: the one that settles i is alone with it.
SettlementOpen(i) ==
    \E t \in Transactions :
        /\ tx[t].intent = i
        /\ tx[t].kind = "settle" \/ (tx[t].kind = "single" /\ tx[t].from = {"IN_FLIGHT"})

BeginStart(t, i) ==
    /\ status[i] # "ABSENT"
    /\ Begin(t, [NoTransaction EXCEPT !.kind = "start", !.step = "intent",
                                      !.intent = i, !.sub = SubOf[i]])

BeginSettle(t, i, outcome) ==
    /\ status[i] = "IN_FLIGHT"
    /\ ~SettlementOpen(i)
    /\ Begin(t, [NoTransaction EXCEPT !.kind = "settle", !.step = "intent", !.to = outcome,
                                      !.intent = i, !.sub = SubOf[i]])

BeginSingle(t, i, update) ==
    /\ status[i] \in update.from
    /\ update.from = {"IN_FLIGHT"} => ~SettlementOpen(i)
    /\ Begin(t, [NoTransaction EXCEPT !.kind = "single", !.step = "intent", !.intent = i,
                                      !.from = update.from, !.to = update.to])

\* applyCancellation and applyPause, with the intents an earlier query chose: of
\* the live ones there is never more than one.
BeginOmit(t, s, ids, to) ==
    Begin(t, [NoTransaction EXCEPT !.kind = "omit", !.step = "subscription", !.sub = s,
                                   !.ids = ids, !.to = to])

BeginResume(t, s) ==
    Begin(t, [NoTransaction EXCEPT !.kind = "resume", !.step = "subscription", !.sub = s,
                                   !.to = "ACTIVE"])

-----------------------------------------------------------------------------
(* The statements *)

\* The row transaction t is at, which another may have locked. An omission never
\* matches two rows, because both would be live.
Wants(t) ==
    CASE tx[t].step = "intent" -> tx[t].intent
      [] tx[t].step = "subscription" -> tx[t].sub
      [] tx[t].step = "omit" /\ tx[t].todo # {} -> CHOOSE i \in tx[t].todo : TRUE
      [] OTHER -> Nothing

IsFree(r, t) == holder[r] \in {Nothing, t}

\* FAILED_FINAL of a subscription that is not cancelled yet cancels it.
Cancels(t) ==
    /\ tx[t].kind = "settle" /\ tx[t].step = "subscription"
    /\ tx[t].to = "FAILED_FINAL" /\ status[tx[t].intent] # "SUCCEEDED"
    /\ status[tx[t].sub] # "CANCELLED"

\* The statement that follows the lock.
NextStep(t) ==
    CASE tx[t].step = "intent" /\ tx[t].kind # "single" -> "subscription"
      [] tx[t].step = "subscription" /\ (tx[t].kind = "omit" \/ Cancels(t)) -> "omit"
      [] tx[t].step = "omit" /\ tx[t].todo # {Wants(t)} -> "omit"
      [] OTHER -> "commit"

\* What becomes of row r, once t has its last lock and looks at what is in the rows.
Change(t, r) ==
    CASE tx[t].step = "intent" /\ tx[t].kind = "single"
             /\ r = tx[t].intent /\ status[r] \in tx[t].from -> tx[t].to
      [] tx[t].step = "subscription" /\ tx[t].kind = "start"
             /\ r = tx[t].intent /\ status[r] \in OmittableStates -> "IN_FLIGHT"
      [] tx[t].step = "subscription" /\ tx[t].kind = "settle"
             /\ r = tx[t].intent /\ status[r] # "SUCCEEDED" -> tx[t].to
      [] r = tx[t].sub /\ Cancels(t) -> "CANCELLED"
      [] tx[t].step = "subscription" /\ tx[t].kind \in {"omit", "resume"}
             /\ r = tx[t].sub -> tx[t].to
      [] tx[t].step = "omit" /\ r = Wants(t) /\ status[r] \in OmittableStates -> "OMITTED"
      [] OTHER -> tx[t].write[r]

AfterLock(t) ==
    [tx[t] EXCEPT !.read = [@ EXCEPT ![Wants(t)] = status[Wants(t)]],
                  !.write = [r \in LockRows |-> Change(t, r)],
                  !.step = NextStep(t),
                  !.todo = @ \ {Wants(t)},
                  !.ids = IF Cancels(t) THEN {j \in Intents : SubOf[j] = tx[t].sub} ELSE @]

\* A mutant: without FOR UPDATE.
ReadOnly(t) ==
    /\ Wants(t) # Nothing
    /\ IsFree(Wants(t), t)
    /\ tx' = [tx EXCEPT ![t] = AfterLock(t)]
    /\ UNCHANGED <<status, holder>>

Lock(t) ==
    /\ Wants(t) # Nothing
    /\ IsFree(Wants(t), t)
    /\ holder' = [holder EXCEPT ![Wants(t)] = t]
    /\ tx' = [tx EXCEPT ![t] = AfterLock(t)]
    /\ UNCHANGED status

\* A mutant: without a condition on the status.
MatchesAll(t) == {i \in tx[t].ids : tx[t].write[i] = Nothing}

\* The rows OMIT_INTENTS and OMIT_SUBSCRIPTION_INTENTS find committed as they
\* begin; a row the transaction has written itself is no longer one of them.
Matches(t) ==
    {i \in tx[t].ids : status[i] \in OmittableStates /\ tx[t].write[i] = Nothing}

OmitStatement(t) ==
    /\ tx[t].step = "omit" /\ tx[t].todo = {}
    /\ tx' = [tx EXCEPT ![t].todo = Matches(t),
                        ![t].step = IF Matches(t) = {} THEN "commit" ELSE "omit"]
    /\ UNCHANGED <<status, holder>>

-----------------------------------------------------------------------------
(* COMMIT and ROLLBACK *)

Released(t) == [r \in LockRows |-> IF holder[r] = t THEN Nothing ELSE holder[r]]

AfterCommit(t) ==
    [r \in LockRows |-> IF tx[t].write[r] = Nothing THEN status[r] ELSE tx[t].write[r]]

\* billing_intents_live_unique and the triggers that keep SUCCEEDED and CANCELLED.
Accepted(rows) ==
    /\ \A i, j \in Intents :
           SubOf[i] = SubOf[j] /\ {rows[i], rows[j]} \subseteq LiveStates => i = j
    /\ \A r \in LockRows : status[r] \in {"SUCCEEDED", "CANCELLED"} => rows[r] = status[r]

Commit(t) ==
    /\ tx[t].step = "commit"
    /\ Accepted(AfterCommit(t))
    /\ status' = AfterCommit(t)
    /\ holder' = Released(t)
    /\ tx' = [tx EXCEPT ![t] = NoTransaction]

Rollback(t) ==
    /\ holder' = Released(t)
    /\ tx' = [tx EXCEPT ![t] = NoTransaction]
    /\ UNCHANGED status

\* A constraint or the trigger rejects a statement.
Rejected(t) == tx[t].step = "commit" /\ ~Accepted(AfterCommit(t)) /\ Rollback(t)

\* The process or its connection dies.
Dies(t) == tx[t].kind # "none" /\ Rollback(t)

Blocker(t) == IF Wants(t) = Nothing THEN Nothing ELSE holder[Wants(t)]

\* Transactions each of which waits for the next.
IsCycle(C) ==
    /\ C # {}
    /\ \A t \in C : Blocker(t) \in C \ {t}
    /\ \A u \in C : \E t \in C : Blocker(t) = u

\* PostgreSQL finds the cycle after deadlock_timeout and aborts one of it.
DeadlockVictim(t) ==
    /\ \E C \in SUBSET Transactions : t \in C /\ IsCycle(C)
    /\ Rollback(t)

\* The insertion of an intent is one statement: it waits while the subscription
\* is locked FOR UPDATE, and then commits.
Insert(i) ==
    LET rows == [status EXCEPT ![i] = "SCHEDULED"]
    IN  /\ status[i] = "ABSENT"
        /\ \A t \in Transactions :
               holder[SubOf[i]] = t => tx[t].kind \notin {"start", "settle"}
        /\ Accepted(rows)
        /\ status' = rows
        /\ UNCHANGED <<holder, tx>>

-----------------------------------------------------------------------------
Begins(t) ==
    \/ \E i \in Intents :
          \/ BeginStart(t, i)
          \/ \E outcome \in Settlements : BeginSettle(t, i, outcome)
          \/ \E update \in SingleUpdates : BeginSingle(t, i, update)
    \/ \E s \in Subscriptions :
          \/ \E to \in {"CANCELLED", "PAUSED"} :
                \/ BeginOmit(t, s, {}, to)
                \/ \E i \in Intents : SubOf[i] = s /\ BeginOmit(t, s, {i}, to)
          \/ BeginResume(t, s)

LocksNext ==
    \/ \E t \in Transactions :
          \/ Begins(t)
          \/ Lock(t) \/ OmitStatement(t) \/ Commit(t)
          \/ Rejected(t) \/ DeadlockVictim(t) \/ Dies(t)
    \/ \E i \in Intents : Insert(i)

LocksSpec == LocksInit /\ [][LocksNext]_locksVars

-----------------------------------------------------------------------------
(* Correctness *)

\* What a transaction read under its locks is still so when it commits, so that
\* it might as well have happened in one step: the updates by id alone
\* (MARK_IN_FLIGHT, SETTLE_INTENT, APPLY_CANCELLATION) overwrite nothing they
\* have not seen.
DecisionsStand ==
    \A t \in Transactions, r \in LockRows :
        /\ holder[r] = t <=> tx[t].read[r] # Nothing
        /\ holder[r] = t => status[r] = tx[t].read[r]

\* A startAttempt and a cancellation or a pause that is about to omit its intent.
StartMeetsOmission(t, u) ==
    /\ tx[t].kind = "start" /\ status[tx[t].intent] \in OmittableStates
    /\ tx[u].kind = "omit" /\ tx[u].sub = tx[t].sub

\* The only transactions that can deadlock are a startAttempt and a cancellation
\* or a pause that is about to omit its intent, for they lock the two rows in
\* opposite orders. A settlement, a recovery or a verification is never the victim
\* PostgreSQL chooses, so no outcome of a charge is lost that way.
OnlyStartsDeadlock ==
    \A C \in SUBSET Transactions : IsCycle(C) =>
        \A t \in C :
            /\ Blocker(Blocker(t)) = t
            /\ StartMeetsOmission(t, Blocker(t)) \/ StartMeetsOmission(Blocker(t), t)

-----------------------------------------------------------------------------
(* The inductive invariant *)

Settles(t) == tx[t].kind = "settle" \/ (tx[t].kind = "single" /\ tx[t].from = {"IN_FLIGHT"})

\* What each kind of transaction works on, and at which statements it can be.
TransactionsFit ==
    \A t \in Transactions :
        /\ tx[t].kind = "none" => tx[t] = NoTransaction
        /\ tx[t].kind \in {"start", "settle", "single"} =>
               tx[t].intent \in Intents /\ status[tx[t].intent] # "ABSENT"
        /\ tx[t].kind \in {"start", "settle"} => tx[t].sub = SubOf[tx[t].intent]
        /\ tx[t].kind \in {"omit", "resume"} => tx[t].sub \in Subscriptions
        /\ tx[t].kind \in {"none", "single"} => tx[t].sub = Nothing
        /\ tx[t].kind \in {"none", "omit", "resume"} => tx[t].intent = Nothing
        /\ tx[t].kind = "settle" => tx[t].to \in Settlements
        /\ tx[t].kind = "single" =>
               /\ tx[t].from \cap OmittableStates = {}
               /\ "IN_FLIGHT" \in tx[t].from => tx[t].from = {"IN_FLIGHT"}
               /\ tx[t].to \in IntentStates \ {"ABSENT"}
        /\ tx[t].kind \in {"omit", "resume"} => tx[t].to \in SubscriptionStates
        /\ tx[t].step = "none" <=> tx[t].kind = "none"
        /\ tx[t].step = "intent" => tx[t].kind \in {"start", "settle", "single"}
        /\ tx[t].step = "subscription" => tx[t].kind \in {"start", "settle", "omit", "resume"}
        /\ tx[t].step = "omit" => tx[t].kind \in {"settle", "omit"}
        /\ \A j \in tx[t].ids : SubOf[j] = tx[t].sub
        /\ tx[t].todo \subseteq tx[t].ids
        /\ tx[t].todo # {} => tx[t].step = "omit"

\* The rows a transaction has locked at each of its statements.
LocksInOrder ==
    \A t \in Transactions :
        /\ tx[t].step \in {"none", "intent"} => \A r \in LockRows : holder[r] # t
        /\ tx[t].step = "subscription" =>
               \A r \in LockRows : holder[r] = t <=> r = tx[t].intent
        /\ tx[t].step \in {"omit", "commit"} /\ tx[t].kind # "single" => holder[tx[t].sub] = t
        /\ \A r \in LockRows : holder[r] = t =>
               \/ r \in {tx[t].intent, tx[t].sub}
               \/ r \in Intents /\ SubOf[r] = tx[t].sub /\ tx[t].read[r] # "ABSENT"

\* A transaction writes rows it has locked, from the statuses its kind allows.
WritesLocked(t) ==
    /\ \A s \in Subscriptions : tx[t].write[s] # Nothing =>
           holder[s] = t /\ tx[t].write[s] \in SubscriptionStates
    /\ \A j \in Intents : tx[t].write[j] # Nothing =>
           /\ holder[j] = t /\ tx[t].write[j] \in IntentStates \ {"ABSENT"}
           /\ tx[t].step \in {"omit", "commit"}
           /\ \/ tx[t].kind = "single" /\ tx[t].read[j] \in tx[t].from
              \/ tx[t].kind = "settle" /\ j = tx[t].intent
              \/ /\ tx[t].kind # "single" /\ tx[t].read[j] \in OmittableStates
                 /\ SubOf[j] = tx[t].sub
    /\ tx[t].kind = "settle" /\ tx[t].step = "omit" => tx[t].write[tx[t].intent] # Nothing

WritesAreLocked == \A t \in Transactions : WritesLocked(t)

\* Nobody but the one that settles an intent moves it out of IN_FLIGHT.
SettlesAlone ==
    \A t \in Transactions : Settles(t) =>
        /\ status[tx[t].intent] = "IN_FLIGHT"
        /\ \A u \in Transactions : Settles(u) /\ tx[u].intent = tx[t].intent => u = t

\* The rows an omission has still to update wait for it as it found them.
OmissionsStand ==
    \A t \in Transactions : \A j \in tx[t].todo :
        status[j] \in OmittableStates /\ tx[t].write[j] = Nothing

OneLive ==
    \A i, j \in Intents :
        SubOf[i] = SubOf[j] /\ {status[i], status[j]} \subseteq LiveStates => i = j

\* Why decisions stand and settlements do not deadlock: two transactions that write
\* the same intent hold it one after the other, a start needs the subscription an
\* omission holds, and an intent in flight is not one an omission waits for.
LocksInvariant ==
    /\ LocksTypeOK
    /\ DecisionsStand
    /\ TransactionsFit
    /\ LocksInOrder
    /\ WritesAreLocked
    /\ SettlesAlone
    /\ OmissionsStand
    /\ OneLive
=============================================================================
