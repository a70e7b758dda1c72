----------------------------- MODULE RowLocksProofs -----------------------------
(***************************************************************************)
(* The transactions of RowLocks, for any number of them: what they read     *)
(* under their locks stands, and only starts deadlock with omissions.       *)
(***************************************************************************)
EXTENDS RowLocks, TLAPS

-----------------------------------------------------------------------------
(* Rows *)

LEMMA RowFacts ==
    /\ Subscriptions \subseteq LockRows /\ Intents \subseteq LockRows
    /\ Nothing \notin LockRows /\ Nothing \notin Transactions /\ Nothing \notin Statuses
    /\ \A i \in Intents : SubOf[i] \in Subscriptions /\ i \notin Subscriptions
    /\ \A r \in LockRows : r \in Subscriptions \/ r \in Intents
  BY LocksAssumption DEF LockRows

\* The row a transaction is at is the one its statement names.
LEMMA WantsRow ==
  ASSUME LocksTypeOK, TransactionsFit, NEW t \in Transactions, Wants(t) # Nothing
  PROVE  /\ Wants(t) \in LockRows
         /\ \/ tx[t].step = "intent" /\ Wants(t) = tx[t].intent
            \/ tx[t].step = "subscription" /\ Wants(t) = tx[t].sub
               /\ tx[t].sub \in Subscriptions
            \/ tx[t].step = "omit" /\ Wants(t) \in tx[t].todo /\ Wants(t) \in Intents
<1>1. tx[t] \in Transaction
  BY DEF LocksTypeOK
<1>2. tx[t].step \in {"none", "intent", "subscription", "omit", "commit"} /\ tx[t].todo \subseteq Intents
  BY <1>1 DEF Transaction
<1>3. CASE tx[t].step = "intent"
  BY <1>3, RowFacts DEF Wants, TransactionsFit
<1>4. CASE tx[t].step = "subscription"
  BY <1>4, RowFacts DEF Wants, TransactionsFit
<1>5. CASE tx[t].step = "omit" /\ tx[t].todo # {}
  BY <1>2, <1>5, RowFacts DEF Wants
<1> QED
  BY <1>2, <1>3, <1>4, <1>5 DEF Wants

\* What a lock lets its transaction do next.
LEMMA LockEffect ==
  ASSUME LocksTypeOK, TransactionsFit, NEW t \in Transactions, Lock(t)
  PROVE  LET W == tx[t]
             N == tx'[t]
             q == Wants(t)
         IN  /\ q \in LockRows /\ W \in Transaction /\ N \in Transaction
             /\ holder[q] \in {Nothing, t} /\ holder' = [holder EXCEPT ![q] = t]
             /\ status' = status
             /\ \A u \in Transactions \ {t} : tx'[u] = tx[u]
             /\ N.kind = W.kind /\ N.intent = W.intent /\ N.sub = W.sub
             /\ N.from = W.from /\ N.to = W.to
             /\ N.read = [W.read EXCEPT ![q] = status[q]]
             /\ N.write = [r \in LockRows |-> Change(t, r)]
             /\ N.step = NextStep(t)
             /\ N.todo = W.todo \ {q}
             /\ N.ids = IF Cancels(t) THEN {j \in Intents : SubOf[j] = W.sub} ELSE W.ids
<1> DEFINE W == tx[t]
           q == Wants(t)
<1>1. /\ W \in Transaction /\ tx \in [Transactions -> Transaction]
      /\ status \in [LockRows -> Statuses]
      /\ holder \in [LockRows -> Transactions \cup {Nothing}]
      /\ q \in LockRows
      /\ tx' = [tx EXCEPT ![t] = AfterLock(t)]
  BY WantsRow DEF LocksTypeOK, Lock
<1>2. \A r \in LockRows : Change(t, r) \in Statuses \cup {Nothing}
  <2>1. W.to \in Statuses \cup {Nothing} /\ W.write \in [LockRows -> Statuses \cup {Nothing}]
    BY <1>1 DEF Transaction
  <2> QED
    BY <2>1 DEF Change, Statuses, IntentStates, SubscriptionStates
<1>3. NextStep(t) \in {"none", "intent", "subscription", "omit", "commit"}
  BY DEF NextStep
<1>4. /\ AfterLock(t) \in Transaction
      /\ AfterLock(t).kind = W.kind /\ AfterLock(t).intent = W.intent
      /\ AfterLock(t).sub = W.sub /\ AfterLock(t).from = W.from /\ AfterLock(t).to = W.to
      /\ AfterLock(t).read = [W.read EXCEPT ![q] = status[q]]
      /\ AfterLock(t).write = [r \in LockRows |-> Change(t, r)]
      /\ AfterLock(t).step = NextStep(t)
      /\ AfterLock(t).todo = W.todo \ {q}
      /\ AfterLock(t).ids = IF Cancels(t) THEN {j \in Intents : SubOf[j] = W.sub} ELSE W.ids
  BY <1>1, <1>2, <1>3 DEF AfterLock, Transaction
<1> QED
  BY <1>1, <1>4 DEF Lock, IsFree

-----------------------------------------------------------------------------
(* Each step keeps the invariant *)

LEMMA LockInvariant ==
  ASSUME LocksInvariant, NEW t \in Transactions, Lock(t)
  PROVE  LocksInvariant'
<1> DEFINE W == tx[t]
           N == tx'[t]
           q == Wants(t)
<1>0. /\ LocksTypeOK /\ DecisionsStand /\ TransactionsFit /\ LocksInOrder
      /\ WritesAreLocked /\ SettlesAlone /\ OmissionsStand /\ OneLive
  BY DEF LocksInvariant
<1>1. /\ q \in LockRows /\ W \in Transaction /\ N \in Transaction
      /\ holder[q] \in {Nothing, t} /\ holder' = [holder EXCEPT ![q] = t]
      /\ status' = status
      /\ \A u \in Transactions \ {t} : tx'[u] = tx[u]
      /\ N.kind = W.kind /\ N.intent = W.intent /\ N.sub = W.sub
      /\ N.from = W.from /\ N.to = W.to
      /\ N.read = [W.read EXCEPT ![q] = status[q]]
      /\ N.write = [r \in LockRows |-> Change(t, r)]
      /\ N.step = NextStep(t)
      /\ N.todo = W.todo \ {q}
      /\ N.ids = IF Cancels(t) THEN {j \in Intents : SubOf[j] = W.sub} ELSE W.ids
  BY <1>0, LockEffect
<1>2. \/ W.step = "intent" /\ q = W.intent /\ W.intent \in Intents /\ W.todo = {}
      \/ W.step = "subscription" /\ q = W.sub /\ W.sub \in Subscriptions /\ W.todo = {}
      \/ W.step = "omit" /\ q \in W.todo /\ q \in Intents
  BY <1>0, WantsRow DEF Lock, TransactionsFit
<1>3. /\ holder \in [LockRows -> Transactions \cup {Nothing}]
      /\ tx \in [Transactions -> Transaction] /\ status \in [LockRows -> Statuses]
      /\ W.read \in [LockRows -> Statuses \cup {Nothing}]
  BY <1>0, <1>1 DEF LocksTypeOK, Transaction
<1> HIDE DEF q
<1>4. LocksTypeOK'
  <2>1. tx' \in [Transactions -> Transaction]
    BY <1>1, <1>3 DEF Lock
  <2> QED
    BY <1>0, <1>1, <1>3, <2>1 DEF LocksTypeOK
<1>5. DecisionsStand'
  BY <1>0, <1>1, <1>3, RowFacts DEF DecisionsStand
<1>6. TransactionsFit'
  <2>1. ASSUME NEW u \in Transactions \ {t}
        PROVE  tx'[u] = tx[u]
    BY <1>1
  <2>2. /\ N.kind = W.kind /\ W.kind \in {"start", "settle", "single", "omit", "resume"}
        /\ N.step \in {"subscription", "omit", "commit"}
        /\ N.step = "subscription" => W.kind \in {"start", "settle"}
        /\ N.step = "omit" => W.kind \in {"settle", "omit"}
    BY <1>0, <1>1, <1>2 DEF NextStep, TransactionsFit, Cancels, Transaction
  <2>3. \A j \in N.ids : SubOf[j] = N.sub
    BY <1>0, <1>1 DEF TransactionsFit
  <2>4. N.todo \subseteq N.ids /\ (N.todo # {} => N.step = "omit")
    BY <1>0, <1>1, <1>2 DEF TransactionsFit, NextStep, Cancels
  <2> QED
    BY <1>0, <1>1, <2>1, <2>2, <2>3, <2>4 DEF TransactionsFit
<1>7. LocksInOrder'
  <2>1. ASSUME NEW u \in Transactions \ {t}
        PROVE  /\ tx'[u] = tx[u]
               /\ \A r \in LockRows : holder'[r] = u <=> holder[r] = u
    BY <1>1, <1>3, RowFacts
  <2>2. \A r \in LockRows : holder'[r] = t <=> holder[r] = t \/ r = q
    BY <1>1, <1>3
  <2>3. CASE W.step = "intent" /\ q = W.intent
    BY <1>0, <1>1, <2>1, <2>2, <2>3, RowFacts DEF LocksInOrder, NextStep, TransactionsFit
  <2>4. CASE W.step = "subscription" /\ q = W.sub
    BY <1>0, <1>1, <2>1, <2>2, <2>4, RowFacts DEF LocksInOrder, NextStep, TransactionsFit
  <2>5. CASE W.step = "omit" /\ q \in W.todo /\ q \in Intents
    <3>1. /\ W.kind \in {"settle", "omit"} /\ N.step \in {"omit", "commit"}
          /\ SubOf[q] = W.sub
      BY <1>0, <1>1, <2>5 DEF NextStep, TransactionsFit
    <3>2. /\ \A r \in LockRows : N.read[r] = IF r = q THEN status[q] ELSE W.read[r]
          /\ status[q] # "ABSENT"
      BY <1>0, <1>1, <1>3, <2>5 DEF OmissionsStand, OmittableStates
    <3>3. ASSUME NEW u \in Transactions, tx[u].step \in {"omit", "commit"},
                 tx[u].kind # "single"
          PROVE  tx[u].sub \in LockRows
      <4>1. tx[u].kind \in {"none", "start", "settle", "single", "omit", "resume"}
        BY <1>3 DEF Transaction
      <4> QED
        BY <1>0, <3>3, <4>1, RowFacts DEF TransactionsFit
    <3>4. holder'[N.sub] = t /\ N.sub \in LockRows
      BY <1>0, <1>1, <2>2, <2>5, <3>1, <3>3 DEF LocksInOrder
    <3>5. ASSUME NEW r \in LockRows, holder'[r] = t
          PROVE  \/ r \in {N.intent, N.sub}
                 \/ r \in Intents /\ SubOf[r] = N.sub /\ N.read[r] # "ABSENT"
      BY <1>0, <1>1, <2>2, <2>5, <3>1, <3>2, <3>5 DEF LocksInOrder
    <3>6. ASSUME NEW u \in Transactions \ {t}, tx[u].step \in {"omit", "commit"},
                 tx[u].kind # "single"
          PROVE  holder'[tx[u].sub] = u
      BY <1>0, <2>1, <3>3, <3>6 DEF LocksInOrder
    <3> QED
      BY <1>0, <2>1, <3>1, <3>4, <3>5, <3>6 DEF LocksInOrder
  <2> QED
    BY <1>2, <2>3, <2>4, <2>5
<1>8. WritesAreLocked'
  <2>1. ASSUME NEW u \in Transactions \ {t}
        PROVE  /\ tx'[u] = tx[u]
               /\ \A r \in LockRows : holder'[r] = u <=> holder[r] = u
    BY <1>1, <1>3, RowFacts
  <2>2. /\ \A r \in LockRows : holder'[r] = t <=> holder[r] = t \/ r = q
        /\ \A r \in LockRows : N.write[r] = Change(t, r)
        /\ \A r \in LockRows : N.read[r] = IF r = q THEN status[q] ELSE W.read[r]
    BY <1>1, <1>3
  <2>3. ASSUME W.step = "intent" /\ q = W.intent /\ W.intent \in Intents
        PROVE  WritesLocked(t)'
    <3>1. \A s \in Subscriptions : N.write[s] = Nothing
      BY <1>0, <2>2, <2>3, RowFacts DEF Change, Cancels, WritesAreLocked, WritesLocked, LocksInOrder
    <3>2. \A j \in Intents : N.write[j] # Nothing =>
             W.kind = "single" /\ j = q /\ status[j] \in W.from /\ N.write[j] = W.to
      BY <1>0, <2>2, <2>3, RowFacts DEF Change, Cancels, WritesAreLocked, WritesLocked, LocksInOrder
    <3>3. W.kind = "single" => N.step = "commit" /\ W.to \in IntentStates \ {"ABSENT"}
      BY <1>0, <1>1, <2>3 DEF NextStep, TransactionsFit, Cancels
    <3>4. N.step # "omit"
      BY <1>1, <2>3 DEF NextStep, Cancels
    <3> QED
      BY <1>0, <1>1, <2>2, <2>3, <3>1, <3>2, <3>3, <3>4 DEF WritesLocked
  <2>4. ASSUME W.step = "subscription" /\ q = W.sub /\ W.sub \in Subscriptions
        PROVE  WritesLocked(t)'
    <3>1. \A r \in LockRows : W.write[r] = Nothing
      <4>1. ASSUME NEW s \in Subscriptions
            PROVE  holder[s] # t
        BY <1>0, <2>4, RowFacts DEF LocksInOrder, TransactionsFit
      <4>2. ASSUME NEW s \in Subscriptions
            PROVE  W.write[s] = Nothing
        BY <1>0, <4>1 DEF WritesAreLocked, WritesLocked
      <4>3. ASSUME NEW j \in Intents
            PROVE  W.write[j] = Nothing
        BY <1>0, <2>4 DEF WritesAreLocked, WritesLocked
      <4> QED
        BY <4>2, <4>3, RowFacts
    <3>2. \A s \in Subscriptions : N.write[s] # Nothing =>
             s = q /\ N.write[s] \in SubscriptionStates
      BY <1>0, <2>2, <2>4, <3>1, RowFacts
         DEF Change, Cancels, TransactionsFit, SubscriptionStates
    <3>3. \A j \in Intents : N.write[j] # Nothing =>
             /\ j = W.intent /\ holder[j] = t /\ N.write[j] \in IntentStates \ {"ABSENT"}
             /\ N.read[j] = status[j]
             /\ \/ W.kind = "settle"
                \/ W.kind = "start" /\ status[j] \in OmittableStates
      <4>1. ASSUME NEW j \in Intents, N.write[j] # Nothing
            PROVE  /\ j = W.intent /\ N.write[j] \in IntentStates \ {"ABSENT"}
                   /\ \/ W.kind = "settle"
                      \/ W.kind = "start" /\ status[j] \in OmittableStates
        BY <1>0, <2>2, <2>4, <3>1, <4>1, RowFacts
           DEF Change, Cancels, TransactionsFit, IntentStates, Settlements
      <4>2. ASSUME NEW j \in Intents, j = W.intent
            PROVE  holder[j] = t /\ N.read[j] = status[j]
        BY <1>0, <2>2, <2>4, <4>2, RowFacts DEF LocksInOrder, DecisionsStand
      <4> QED
        BY <4>1, <4>2
    <3>4. W.kind = "settle" => N.write[W.intent] # Nothing
      BY <1>0, <2>2, <2>4, RowFacts
         DEF Change, Cancels, TransactionsFit, SettlesAlone, Settles, Settlements, Statuses, IntentStates
    <3>5. N.step \in {"omit", "commit"}
      BY <1>1, <2>4 DEF NextStep
    <3> QED
      <4>1. W.kind = "start" => \A j \in Intents : j = W.intent => SubOf[j] = W.sub
        BY <1>0 DEF TransactionsFit
      <4> QED
        BY <1>1, <2>2, <3>2, <3>3, <3>4, <3>5, <4>1, RowFacts DEF WritesLocked
  <2>5. ASSUME W.step = "omit" /\ q \in W.todo /\ q \in Intents
        PROVE  WritesLocked(t)'
    <3>1. \A r \in LockRows : N.write[r] = IF r = q THEN "OMITTED" ELSE W.write[r]
      BY <1>0, <2>2, <2>5 DEF Change, Cancels, OmissionsStand, q
    <3>2. /\ status[q] \in OmittableStates /\ SubOf[q] = W.sub
          /\ W.kind \in {"settle", "omit"} /\ N.step \in {"omit", "commit"}
      BY <1>0, <1>1, <2>5 DEF NextStep, OmissionsStand, TransactionsFit
    <3>3. \A s \in Subscriptions : N.write[s] = W.write[s]
      BY <2>5, <3>1, RowFacts
    <3>4. \A j \in Intents : N.write[j] # Nothing =>
            /\ holder'[j] = t /\ N.write[j] \in IntentStates \ {"ABSENT"}
            /\ \/ W.kind = "settle" /\ j = W.intent
               \/ N.read[j] \in OmittableStates /\ SubOf[j] = W.sub
      BY <1>0, <2>2, <2>5, <3>1, <3>2, RowFacts DEF WritesAreLocked, WritesLocked, IntentStates
    <3>5. W.kind = "settle" => N.write[W.intent] # Nothing
      BY <1>0, <2>5, <3>1, RowFacts DEF WritesAreLocked, WritesLocked, TransactionsFit, Statuses, IntentStates
    <3> QED
      <4>1. \A s \in Subscriptions : N.write[s] # Nothing =>
               holder'[s] = t /\ N.write[s] \in SubscriptionStates
        BY <1>0, <2>2, <3>3, RowFacts DEF WritesAreLocked, WritesLocked
      <4> QED
        BY <1>1, <3>2, <3>4, <3>5, <4>1 DEF WritesLocked
  <2>6. WritesLocked(t)'
    BY <1>2, <2>3, <2>4, <2>5
  <2>7. ASSUME NEW u \in Transactions \ {t}
        PROVE  WritesLocked(u)'
    BY <1>0, <2>1, RowFacts DEF WritesAreLocked, WritesLocked
  <2> QED
    BY <2>6, <2>7 DEF WritesAreLocked
<1>9. SettlesAlone'
  BY <1>0, <1>1 DEF SettlesAlone, Settles
<1>10. OmissionsStand'
  <2>1. ASSUME NEW j \in N.todo
        PROVE  N.write[j] = Nothing /\ status[j] \in OmittableStates
    <3>1. j \in W.todo /\ j # q /\ j \in Intents /\ W.step = "omit"
      BY <1>1, <1>2, <2>1 DEF Transaction
    <3> QED
      BY <1>0, <1>1, <3>1, RowFacts DEF Change, Cancels, OmissionsStand, q
  <2>2. ASSUME NEW u \in Transactions, NEW j \in tx'[u].todo
        PROVE  status'[j] \in OmittableStates /\ tx'[u].write[j] = Nothing
    <3>1. CASE u = t
      BY <1>1, <2>1, <2>2, <3>1
    <3>2. CASE u # t
      BY <1>0, <1>1, <2>2, <3>2 DEF OmissionsStand
    <3> QED
      BY <3>1, <3>2
  <2> QED
    BY <2>2 DEF OmissionsStand
<1>11. OneLive'
  BY <1>0, <1>1 DEF OneLive
<1> QED
  BY <1>4, <1>5, <1>6, <1>7, <1>8, <1>9, <1>10, <1>11 DEF LocksInvariant

\* A transaction that has just begun holds, has read and has written nothing.
LEMMA FreshInvariant ==
  ASSUME LocksInvariant, NEW t \in Transactions, NEW work \in Transaction, Begin(t, work),
         work.read = NoRows, work.write = NoRows, work.todo = {},
         work.step = "intent" \/ (work.step = "subscription" /\ work.intent = Nothing),
         TransactionsFit', SettlesAlone'
  PROVE  LocksInvariant'
<1>0. /\ LocksTypeOK /\ DecisionsStand /\ TransactionsFit /\ LocksInOrder
      /\ WritesAreLocked /\ OmissionsStand /\ OneLive
  BY DEF LocksInvariant
<1>1. /\ tx' \in [Transactions -> Transaction] /\ tx'[t] = work
      /\ \A u \in Transactions \ {t} : tx'[u] = tx[u]
      /\ status' = status /\ holder' = holder
  BY <1>0 DEF Begin, LocksTypeOK
<1>2. \A r \in LockRows : holder[r] # t
  BY <1>0 DEF Begin, TransactionsFit, LocksInOrder
<1>3. LocksTypeOK'
  BY <1>0, <1>1 DEF LocksTypeOK
<1>4. DecisionsStand'
  BY <1>0, <1>1, <1>2 DEF DecisionsStand, NoRows
<1>5. LocksInOrder'
  BY <1>0, <1>1, <1>2, RowFacts DEF LocksInOrder
<1>6. WritesAreLocked'
  <2>1. ASSUME NEW u \in Transactions \ {t}
        PROVE  WritesLocked(u)'
    BY <1>0, <1>1 DEF WritesAreLocked, WritesLocked
  <2>2. WritesLocked(t)'
    BY <1>1, RowFacts DEF WritesLocked, NoRows
  <2> QED
    BY <2>1, <2>2 DEF WritesAreLocked
<1>7. OmissionsStand'
  BY <1>0, <1>1 DEF OmissionsStand
<1>8. OneLive'
  BY <1>0, <1>1 DEF OneLive
<1> QED
  BY <1>3, <1>4, <1>5, <1>6, <1>7, <1>8 DEF LocksInvariant

LEMMA NoTransactionFacts ==
    /\ NoTransaction \in Transaction
    /\ NoTransaction.kind = "none" /\ NoTransaction.intent = Nothing
    /\ NoTransaction.sub = Nothing /\ NoTransaction.from = {} /\ NoTransaction.to = Nothing
    /\ NoTransaction.ids = {} /\ NoTransaction.step = "none" /\ NoTransaction.todo = {}
    /\ NoTransaction.read = NoRows /\ NoTransaction.write = NoRows
  BY DEF NoTransaction, Transaction, NoRows

LEMMA BeginInvariant ==
  ASSUME LocksInvariant, NEW t \in Transactions, Begins(t)
  PROVE  LocksInvariant'
<1>0. LocksTypeOK /\ TransactionsFit /\ SettlesAlone
  BY DEF LocksInvariant
<1>1. ASSUME NEW work, Begin(t, work)
      PROVE  /\ tx'[t] = work /\ status' = status
             /\ \A u \in Transactions \ {t} : tx'[u] = tx[u]
  BY <1>0, <1>1 DEF Begin, LocksTypeOK
<1>2. ASSUME NEW i \in Intents, BeginStart(t, i)
      PROVE  LocksInvariant'
  <2> DEFINE work == [NoTransaction EXCEPT !.kind = "start", !.step = "intent",
                                          !.intent = i, !.sub = SubOf[i]]
  <2>1. /\ work \in Transaction /\ work.read = NoRows /\ work.write = NoRows
        /\ work.todo = {} /\ work.step = "intent" /\ work.kind = "start" /\ work.ids = {}
        /\ work.intent = i /\ work.sub = SubOf[i]
    BY RowFacts DEF NoTransaction, Transaction, NoRows
  <2>2. Begin(t, work) /\ status[i] # "ABSENT"
    BY <1>2 DEF BeginStart
  <2> HIDE DEF work
  <2>3. TransactionsFit'
    BY <1>0, <1>1, <2>1, <2>2 DEF TransactionsFit
  <2>4. SettlesAlone'
    BY <1>0, <1>1, <2>1, <2>2 DEF SettlesAlone, Settles
  <2> QED
    BY <2>1, <2>2, <2>3, <2>4, FreshInvariant
<1>3. ASSUME NEW i \in Intents, NEW outcome \in Settlements, BeginSettle(t, i, outcome)
      PROVE  LocksInvariant'
  <2> DEFINE work == [NoTransaction EXCEPT !.kind = "settle", !.step = "intent",
                                          !.to = outcome, !.intent = i, !.sub = SubOf[i]]
  <2>1. /\ work \in Transaction /\ work.read = NoRows /\ work.write = NoRows
        /\ work.todo = {} /\ work.step = "intent" /\ work.kind = "settle" /\ work.ids = {}
        /\ work.intent = i /\ work.sub = SubOf[i] /\ work.to = outcome
    BY RowFacts DEF NoTransaction, Transaction, NoRows, Settlements, Statuses, IntentStates
  <2>2. Begin(t, work) /\ status[i] = "IN_FLIGHT" /\ ~SettlementOpen(i)
    BY <1>3 DEF BeginSettle
  <2> HIDE DEF work
  <2>3. TransactionsFit'
    BY <1>0, <1>1, <2>1, <2>2 DEF TransactionsFit
  <2>4. SettlesAlone'
    BY <1>0, <1>1, <2>1, <2>2 DEF SettlesAlone, Settles, SettlementOpen
  <2> QED
    BY <2>1, <2>2, <2>3, <2>4, FreshInvariant
<1>4. ASSUME NEW i \in Intents, NEW update \in SingleUpdates, BeginSingle(t, i, update)
      PROVE  LocksInvariant'
  <2> DEFINE work == [NoTransaction EXCEPT !.kind = "single", !.step = "intent", !.intent = i,
                                          !.from = update.from, !.to = update.to]
  <2>0. /\ update.from \subseteq IntentStates \ {"ABSENT"} /\ update.from \cap OmittableStates = {}
        /\ "IN_FLIGHT" \in update.from => update.from = {"IN_FLIGHT"}
        /\ update.to \in IntentStates \ {"ABSENT"}
    BY DEF SingleUpdates, IntentStates, OmittableStates
  <2>1. /\ work \in Transaction /\ work.read = NoRows /\ work.write = NoRows
        /\ work.todo = {} /\ work.step = "intent" /\ work.kind = "single" /\ work.ids = {}
        /\ work.intent = i /\ work.sub = Nothing
        /\ work.from = update.from /\ work.to = update.to
    BY <2>0, RowFacts DEF NoTransaction, Transaction, NoRows, Statuses
  <2>2. /\ Begin(t, work) /\ status[i] \in update.from
        /\ update.from = {"IN_FLIGHT"} => ~SettlementOpen(i)
    BY <1>4 DEF BeginSingle
  <2> HIDE DEF work
  <2>3. TransactionsFit'
    BY <1>0, <1>1, <2>0, <2>1, <2>2 DEF TransactionsFit
  <2>4. SettlesAlone'
    BY <1>0, <1>1, <2>1, <2>2 DEF SettlesAlone, Settles, SettlementOpen
  <2> QED
    BY <2>1, <2>2, <2>3, <2>4, FreshInvariant
<1>5. ASSUME NEW s \in Subscriptions, NEW ids \in SUBSET Intents, NEW to \in {"CANCELLED", "PAUSED"},
             \A j \in ids : SubOf[j] = s, BeginOmit(t, s, ids, to)
      PROVE  LocksInvariant'
  <2> DEFINE work == [NoTransaction EXCEPT !.kind = "omit", !.step = "subscription", !.sub = s,
                                          !.ids = ids, !.to = to]
  <2>1. /\ work \in Transaction /\ work.read = NoRows /\ work.write = NoRows
        /\ work.todo = {} /\ work.step = "subscription" /\ work.kind = "omit"
        /\ work.ids = ids /\ work.intent = Nothing /\ work.sub = s /\ work.to = to
    BY RowFacts DEF NoTransaction, Transaction, NoRows, Statuses, SubscriptionStates
  <2>2. Begin(t, work)
    BY <1>5 DEF BeginOmit
  <2> HIDE DEF work
  <2>3. TransactionsFit'
    BY <1>0, <1>1, <1>5, <2>1, <2>2 DEF TransactionsFit, SubscriptionStates
  <2>4. SettlesAlone'
    BY <1>0, <1>1, <2>1, <2>2 DEF SettlesAlone, Settles
  <2> QED
    BY <2>1, <2>2, <2>3, <2>4, FreshInvariant
<1>6. ASSUME NEW s \in Subscriptions, BeginResume(t, s)
      PROVE  LocksInvariant'
  <2> DEFINE work == [NoTransaction EXCEPT !.kind = "resume", !.step = "subscription",
                                          !.sub = s, !.to = "ACTIVE"]
  <2>1. /\ work \in Transaction /\ work.read = NoRows /\ work.write = NoRows
        /\ work.todo = {} /\ work.step = "subscription" /\ work.kind = "resume"
        /\ work.ids = {} /\ work.intent = Nothing /\ work.sub = s /\ work.to = "ACTIVE"
    BY RowFacts DEF NoTransaction, Transaction, NoRows, Statuses, SubscriptionStates
  <2>2. Begin(t, work)
    BY <1>6 DEF BeginResume
  <2> HIDE DEF work
  <2>3. TransactionsFit'
    BY <1>0, <1>1, <2>1, <2>2 DEF TransactionsFit, SubscriptionStates
  <2>4. SettlesAlone'
    BY <1>0, <1>1, <2>1, <2>2 DEF SettlesAlone, Settles
  <2> QED
    BY <2>1, <2>2, <2>3, <2>4, FreshInvariant
<1> QED
  <2>1. ASSUME NEW s \in Subscriptions, NEW to \in {"CANCELLED", "PAUSED"},
               \/ BeginOmit(t, s, {}, to)
               \/ \E i \in Intents : SubOf[i] = s /\ BeginOmit(t, s, {i}, to)
        PROVE  LocksInvariant'
    <3>1. CASE BeginOmit(t, s, {}, to)
      <4>1. {} \in SUBSET Intents /\ \A j \in {} : SubOf[j] = s
        OBVIOUS
      <4> QED
        BY <1>5, <3>1, <4>1
    <3>2. ASSUME NEW i \in Intents, SubOf[i] = s, BeginOmit(t, s, {i}, to)
          PROVE  LocksInvariant'
      <4>1. {i} \in SUBSET Intents /\ \A j \in {i} : SubOf[j] = s
        BY <3>2
      <4> QED
        BY <1>5, <3>2, <4>1
    <3> QED
      BY <2>1, <3>1, <3>2
  <2> QED
    BY <1>2, <1>3, <1>4, <1>6, <2>1 DEF Begins

\* An omission finds rows that are still to be charged and are not its own.
LEMMA OmitStatementInvariant ==
  ASSUME LocksInvariant, NEW t \in Transactions, OmitStatement(t)
  PROVE  LocksInvariant'
<1> DEFINE W == tx[t]
           N == tx'[t]
           M == Matches(t)
<1>0. /\ LocksTypeOK /\ DecisionsStand /\ TransactionsFit /\ LocksInOrder
      /\ WritesAreLocked /\ SettlesAlone /\ OmissionsStand /\ OneLive
  BY DEF LocksInvariant
<1>1. /\ tx' \in [Transactions -> Transaction]
      /\ \A u \in Transactions \ {t} : tx'[u] = tx[u]
      /\ status' = status /\ holder' = holder
      /\ N.kind = W.kind /\ N.intent = W.intent /\ N.sub = W.sub /\ N.from = W.from
      /\ N.to = W.to /\ N.ids = W.ids /\ N.read = W.read /\ N.write = W.write
      /\ N.todo = M /\ N.step = IF M = {} THEN "commit" ELSE "omit"
  <2>1. tx \in [Transactions -> Transaction] /\ W \in Transaction
    BY <1>0 DEF LocksTypeOK
  <2>2. M \subseteq Intents
    BY <2>1 DEF Matches, Transaction
  <2> HIDE DEF M
  <2>3. N = [W EXCEPT !.todo = M, !.step = IF M = {} THEN "commit" ELSE "omit"]
    BY <2>1 DEF OmitStatement, M
  <2>4. N \in Transaction
    BY <2>1, <2>2, <2>3 DEF Transaction
  <2>5. tx' \in [Transactions -> Transaction] /\ \A u \in Transactions \ {t} : tx'[u] = tx[u]
    BY <2>1, <2>4 DEF OmitStatement
  <2> QED
    BY <2>1, <2>3, <2>5 DEF OmitStatement, Transaction
<1>2. W.step = "omit" /\ W.kind \in {"settle", "omit"} /\ W.todo = {}
  BY <1>0 DEF OmitStatement, TransactionsFit
<1>3. M \subseteq W.ids /\ \A j \in M : status[j] \in OmittableStates /\ W.write[j] = Nothing
  BY DEF Matches
<1> HIDE DEF M
<1>4. LocksTypeOK'
  BY <1>0, <1>1 DEF LocksTypeOK
<1>5. DecisionsStand'
  BY <1>0, <1>1 DEF DecisionsStand
<1>6. TransactionsFit'
  BY <1>0, <1>1, <1>2, <1>3 DEF TransactionsFit
<1>7. LocksInOrder'
  BY <1>0, <1>1, <1>2 DEF LocksInOrder
<1>8. WritesAreLocked'
  <2>1. ASSUME NEW u \in Transactions
        PROVE  WritesLocked(u)'
    BY <1>0, <1>1, <1>2 DEF WritesAreLocked, WritesLocked
  <2> QED
    BY <2>1 DEF WritesAreLocked
<1>9. SettlesAlone'
  BY <1>0, <1>1 DEF SettlesAlone, Settles
<1>10. OmissionsStand'
  BY <1>0, <1>1, <1>3 DEF OmissionsStand
<1>11. OneLive'
  BY <1>0, <1>1 DEF OneLive
<1> QED
  BY <1>4, <1>5, <1>6, <1>7, <1>8, <1>9, <1>10, <1>11 DEF LocksInvariant

-----------------------------------------------------------------------------
(* The end of a transaction *)

\* A transaction that is over holds nothing, and nobody else's rows change hands.
LEMMA OverFacts ==
  ASSUME LocksInvariant, NEW t \in Transactions, holder' = Released(t),
         tx' = [tx EXCEPT ![t] = NoTransaction]
  PROVE  /\ tx' \in [Transactions -> Transaction]
         /\ holder' \in [LockRows -> Transactions \cup {Nothing}]
         /\ tx'[t] = NoTransaction
         /\ \A u \in Transactions \ {t} : tx'[u] = tx[u]
         /\ \A r \in LockRows : holder'[r] # t
         /\ \A u \in Transactions \ {t} : \A r \in LockRows : holder'[r] = u <=> holder[r] = u
         /\ LocksInOrder'
<1>0. LocksTypeOK /\ LocksInOrder
  BY DEF LocksInvariant
<1>1. /\ tx' \in [Transactions -> Transaction]
      /\ holder' \in [LockRows -> Transactions \cup {Nothing}]
      /\ tx'[t] = NoTransaction
      /\ \A u \in Transactions \ {t} : tx'[u] = tx[u]
      /\ \A r \in LockRows : holder'[r] # t
      /\ \A u \in Transactions \ {t} : \A r \in LockRows : holder'[r] = u <=> holder[r] = u
  <2>1. /\ tx \in [Transactions -> Transaction]
        /\ holder \in [LockRows -> Transactions \cup {Nothing}]
    BY <1>0 DEF LocksTypeOK
  <2>2. /\ \A r \in LockRows : holder'[r] = IF holder[r] = t THEN Nothing ELSE holder[r]
        /\ holder' \in [LockRows -> Transactions \cup {Nothing}]
    BY <2>1 DEF Released
  <2> QED
    BY <2>1, <2>2, NoTransactionFacts, RowFacts
<1>2. ASSUME NEW u \in Transactions, tx[u].step \in {"omit", "commit"}, tx[u].kind # "single", u # t
      PROVE  tx[u].sub \in LockRows
  <2>1. tx[u].kind \in {"none", "start", "settle", "single", "omit", "resume"}
    BY <1>0 DEF LocksTypeOK, Transaction
  <2> QED
    BY <1>2, <2>1, RowFacts DEF LocksInvariant, TransactionsFit
<1>3. LocksInOrder'
  BY <1>0, <1>1, <1>2, NoTransactionFacts DEF LocksInOrder
<1> QED
  BY <1>1, <1>3

LEMMA RollbackInvariant ==
  ASSUME LocksInvariant, NEW t \in Transactions, Rollback(t)
  PROVE  LocksInvariant'
<1>0. /\ LocksTypeOK /\ DecisionsStand /\ TransactionsFit /\ LocksInOrder
      /\ WritesAreLocked /\ SettlesAlone /\ OmissionsStand /\ OneLive
  BY DEF LocksInvariant
<1>1. /\ tx' \in [Transactions -> Transaction]
      /\ holder' \in [LockRows -> Transactions \cup {Nothing}]
      /\ tx'[t] = NoTransaction /\ status' = status
      /\ \A u \in Transactions \ {t} : tx'[u] = tx[u]
      /\ \A r \in LockRows : holder'[r] # t
      /\ \A u \in Transactions \ {t} : \A r \in LockRows : holder'[r] = u <=> holder[r] = u
      /\ LocksInOrder'
  BY OverFacts DEF Rollback
<1>2. LocksTypeOK'
  BY <1>0, <1>1 DEF LocksTypeOK
<1>3. DecisionsStand'
  BY <1>0, <1>1, NoTransactionFacts DEF DecisionsStand, NoRows
<1>4. TransactionsFit'
  BY <1>0, <1>1, NoTransactionFacts DEF TransactionsFit
<1>5. WritesAreLocked'
  <2>1. ASSUME NEW u \in Transactions \ {t}
        PROVE  WritesLocked(u)'
    BY <1>0, <1>1, RowFacts DEF WritesAreLocked, WritesLocked
  <2>2. WritesLocked(t)'
    BY <1>1, NoTransactionFacts, RowFacts DEF WritesLocked, NoRows
  <2> QED
    BY <2>1, <2>2 DEF WritesAreLocked
<1>6. SettlesAlone'
  BY <1>0, <1>1, NoTransactionFacts DEF SettlesAlone, Settles
<1>7. OmissionsStand'
  BY <1>0, <1>1, NoTransactionFacts DEF OmissionsStand
<1>8. OneLive'
  BY <1>0, <1>1 DEF OneLive
<1> QED
  BY <1>1, <1>2, <1>3, <1>4, <1>5, <1>6, <1>7, <1>8 DEF LocksInvariant

\* A commit overwrites nothing that another settles or is about to omit: it holds the
\* row, and the other would have to hold it, or the subscription, as well.
LEMMA CommitInvariant ==
  ASSUME LocksInvariant, NEW t \in Transactions, Commit(t)
  PROVE  LocksInvariant'
<1> DEFINE W == tx[t]
<1>0. /\ LocksTypeOK /\ DecisionsStand /\ TransactionsFit /\ LocksInOrder
      /\ WritesAreLocked /\ SettlesAlone /\ OmissionsStand /\ OneLive
  BY DEF LocksInvariant
<1>1. /\ tx' \in [Transactions -> Transaction]
      /\ holder' \in [LockRows -> Transactions \cup {Nothing}]
      /\ tx'[t] = NoTransaction
      /\ \A u \in Transactions \ {t} : tx'[u] = tx[u]
      /\ \A r \in LockRows : holder'[r] # t
      /\ \A u \in Transactions \ {t} : \A r \in LockRows : holder'[r] = u <=> holder[r] = u
      /\ LocksInOrder'
  BY OverFacts DEF Commit
<1>2. /\ W.step = "commit" /\ Accepted(AfterCommit(t)) /\ status' = AfterCommit(t)
      /\ \A r \in LockRows :
             status'[r] = IF W.write[r] = Nothing THEN status[r] ELSE W.write[r]
  BY DEF Commit, AfterCommit
<1>3. \A r \in LockRows : W.write[r] # Nothing => holder[r] = t
  BY <1>0, RowFacts DEF WritesAreLocked, WritesLocked
<1>4. ASSUME NEW u \in Transactions \ {t}, NEW r \in LockRows, holder[r] = u
      PROVE  status'[r] = status[r]
  BY <1>2, <1>3, <1>4
<1>5. LocksTypeOK'
  <2>1. ASSUME NEW s \in Subscriptions
        PROVE  status'[s] \in SubscriptionStates
    BY <1>0, <1>2, RowFacts DEF LocksTypeOK, WritesAreLocked, WritesLocked
  <2>2. ASSUME NEW i \in Intents
        PROVE  status'[i] \in IntentStates
    BY <1>0, <1>2, RowFacts DEF LocksTypeOK, WritesAreLocked, WritesLocked
  <2>3. status' \in [LockRows -> Statuses]
    <3>1. \A r \in LockRows : status'[r] \in Statuses
      BY <2>1, <2>2, RowFacts DEF Statuses
    <3> QED
      BY <1>2, <3>1 DEF AfterCommit
  <2> QED
    BY <1>1, <2>1, <2>2, <2>3 DEF LocksTypeOK
<1>6. DecisionsStand'
  BY <1>0, <1>1, <1>4, NoTransactionFacts DEF DecisionsStand, NoRows
<1>7. TransactionsFit'
  <2>1. ASSUME NEW i \in Intents, status[i] # "ABSENT"
        PROVE  status'[i] # "ABSENT"
    BY <1>0, <1>2, <2>1, RowFacts DEF WritesAreLocked, WritesLocked
  <2> QED
    BY <1>0, <1>1, <2>1, NoTransactionFacts DEF TransactionsFit
<1>8. WritesAreLocked'
  <2>1. ASSUME NEW u \in Transactions \ {t}
        PROVE  WritesLocked(u)'
    BY <1>0, <1>1, RowFacts DEF WritesAreLocked, WritesLocked
  <2>2. WritesLocked(t)'
    BY <1>1, NoTransactionFacts, RowFacts DEF WritesLocked, NoRows
  <2> QED
    BY <2>1, <2>2 DEF WritesAreLocked
<1>9. ASSUME NEW j \in Intents, W.write[j] # Nothing
      PROVE  /\ holder[j] = t /\ W.read[j] = status[j]
             /\ \/ Settles(t) /\ j = W.intent /\ status[j] = "IN_FLIGHT"
                \/ W.kind = "single" /\ status[j] \notin OmittableStates \cup {"IN_FLIGHT"}
                \/ /\ status[j] \in OmittableStates /\ SubOf[j] = W.sub
                   /\ W.kind # "single"
  <2>1. holder[j] = t /\ W.read[j] = status[j]
    BY <1>0, <1>3, <1>9, RowFacts DEF DecisionsStand
  <2>2. CASE W.kind = "single" /\ W.read[j] \in W.from
    <3>1. j = W.intent
      BY <1>0, <2>1, <2>2, RowFacts DEF LocksInOrder, TransactionsFit
    <3> QED
      BY <1>0, <2>1, <2>2, <3>1 DEF TransactionsFit, Settles
  <2>3. CASE W.kind = "settle" /\ j = W.intent
    BY <1>0, <2>1, <2>3 DEF SettlesAlone, Settles
  <2>4. CASE W.kind # "single" /\ W.read[j] \in OmittableStates /\ SubOf[j] = W.sub
    BY <2>1, <2>4
  <2> QED
    BY <1>0, <1>9, <2>1, <2>2, <2>3, <2>4 DEF WritesAreLocked, WritesLocked
<1>10. SettlesAlone'
  <2>1. ASSUME NEW u \in Transactions, Settles(u)'
        PROVE  /\ u # t /\ Settles(u) /\ tx'[u] = tx[u] /\ tx[u].intent \in Intents
               /\ status[tx[u].intent] = "IN_FLIGHT"
    <3>1. u # t
      BY <1>1, <2>1, NoTransactionFacts DEF Settles
    <3>2. Settles(u) /\ tx'[u] = tx[u]
      BY <1>1, <2>1, <3>1 DEF Settles
    <3> QED
      BY <1>0, <3>1, <3>2 DEF SettlesAlone, Settles, TransactionsFit
  <2>2. ASSUME NEW u \in Transactions, Settles(u)'
        PROVE  status'[tx'[u].intent] = "IN_FLIGHT"
    <3>1. W.write[tx[u].intent] = Nothing
      BY <1>0, <1>9, <2>1, <2>2 DEF SettlesAlone, OmittableStates
    <3> QED
      BY <1>2, <2>1, <2>2, <3>1, RowFacts
  <2> QED
    BY <1>0, <2>1, <2>2 DEF SettlesAlone
<1>11. OmissionsStand'
  <2>1. ASSUME NEW u \in Transactions, NEW j \in tx'[u].todo
        PROVE  status'[j] \in OmittableStates /\ tx'[u].write[j] = Nothing
    <3>1. u # t /\ tx'[u] = tx[u] /\ j \in tx[u].todo
      BY <1>1, <2>1, NoTransactionFacts
    <3>2. /\ j \in Intents /\ SubOf[j] = tx[u].sub /\ tx[u].kind # "single"
          /\ tx[u].step = "omit"
      BY <1>0, <3>1 DEF LocksTypeOK, Transaction, TransactionsFit
    <3>3. status[j] \in OmittableStates /\ tx[u].write[j] = Nothing
      BY <1>0, <3>1 DEF OmissionsStand
    <3>4. W.write[j] = Nothing
      <4>1. SUFFICES ASSUME W.write[j] # Nothing PROVE FALSE
        OBVIOUS
      <4>2. W.kind # "single" /\ SubOf[j] = W.sub
        BY <1>9, <3>2, <3>3, <4>1 DEF OmittableStates
      <4>3. holder[W.sub] = t /\ holder[tx[u].sub] = u
        BY <1>0, <1>2, <3>2, <4>2 DEF LocksInOrder
      <4> QED
        BY <3>1, <3>2, <4>2, <4>3
    <3> QED
      BY <1>2, <3>1, <3>2, <3>3, <3>4, RowFacts
  <2> QED
    BY <2>1 DEF OmissionsStand
<1>12. OneLive'
  BY <1>2 DEF OneLive, Accepted
<1> QED
  BY <1>1, <1>5, <1>6, <1>7, <1>8, <1>10, <1>11, <1>12 DEF LocksInvariant

\* A row that is not there yet is nobody's.
LEMMA InsertInvariant ==
  ASSUME LocksInvariant, NEW i \in Intents, Insert(i)
  PROVE  LocksInvariant'
<1>0. /\ LocksTypeOK /\ DecisionsStand /\ TransactionsFit /\ LocksInOrder
      /\ WritesAreLocked /\ SettlesAlone /\ OmissionsStand /\ OneLive
  BY DEF LocksInvariant
<1>1. /\ status[i] = "ABSENT" /\ tx' = tx /\ holder' = holder
      /\ status' = [status EXCEPT ![i] = "SCHEDULED"] /\ Accepted(status')
  BY DEF Insert
<1>2. /\ status \in [LockRows -> Statuses] /\ i \in LockRows /\ i \notin Subscriptions
      /\ status'[i] = "SCHEDULED"
      /\ \A r \in LockRows : r # i => status'[r] = status[r]
  BY <1>0, <1>1, RowFacts DEF LocksTypeOK
<1>3. \A u \in Transactions : holder[i] # u
  <2>1. SUFFICES ASSUME NEW u \in Transactions, holder[i] = u PROVE FALSE
    OBVIOUS
  <2>2. tx[u].read[i] = "ABSENT"
    BY <1>0, <1>1, <1>2, <2>1 DEF DecisionsStand
  <2>3. i = tx[u].intent \/ i = tx[u].sub
    BY <1>0, <1>2, <2>1, <2>2 DEF LocksInOrder
  <2>4. tx[u].sub \in Subscriptions \cup {Nothing} /\ tx[u].intent \in Intents \cup {Nothing}
    BY <1>0 DEF LocksTypeOK, Transaction
  <2>5. tx[u].kind \in {"none", "start", "settle", "single", "omit", "resume"}
    BY <1>0 DEF LocksTypeOK, Transaction
  <2>6. i = tx[u].intent
    BY <1>2, <2>3, <2>4, RowFacts
  <2> QED
    BY <1>0, <1>1, <2>5, <2>6, RowFacts DEF TransactionsFit
<1>4. LocksTypeOK'
  BY <1>0, <1>1, <1>2 DEF LocksTypeOK, Statuses, IntentStates
<1>5. DecisionsStand'
  BY <1>0, <1>1, <1>2, <1>3 DEF DecisionsStand
<1>6. TransactionsFit'
  BY <1>0, <1>1, <1>2, RowFacts DEF TransactionsFit
<1>7. LocksInOrder'
  BY <1>0, <1>1 DEF LocksInOrder
<1>8. WritesAreLocked'
  BY <1>0, <1>1 DEF WritesAreLocked, WritesLocked
<1>9. SettlesAlone'
  BY <1>0, <1>1, <1>2, RowFacts DEF SettlesAlone, Settles, TransactionsFit
<1>10. OmissionsStand'
  <2>1. ASSUME NEW u \in Transactions, NEW j \in tx[u].todo
        PROVE  status'[j] \in OmittableStates
    <3>1. j \in LockRows
      BY <1>0, RowFacts DEF LocksTypeOK, Transaction
    <3> QED
      BY <1>0, <1>2, <3>1 DEF OmissionsStand, OmittableStates
  <2> QED
    BY <1>0, <1>1, <2>1 DEF OmissionsStand
<1>11. OneLive'
  BY <1>1 DEF OneLive, Accepted
<1> QED
  BY <1>4, <1>5, <1>6, <1>7, <1>8, <1>9, <1>10, <1>11 DEF LocksInvariant

-----------------------------------------------------------------------------
(* Deadlocks *)

\* Whoever is in a cycle holds a row another waits for, and waits for one itself: it
\* is at its subscription with the intent, or at an omission with the subscription.
LEMMA CycleMember ==
  ASSUME LocksInvariant, NEW C \in SUBSET Transactions, IsCycle(C), NEW v \in C
  PROVE  /\ v \in Transactions /\ Blocker(v) \in C \ {v} /\ Wants(v) \in LockRows
         /\ holder[Wants(v)] = Blocker(v)
         /\ \/ /\ tx[v].step = "subscription" /\ tx[v].kind \in {"start", "settle"}
               /\ Wants(v) = tx[v].sub /\ tx[v].intent \in Intents
               /\ \A r \in LockRows : holder[r] = v => r = tx[v].intent
            \/ /\ tx[v].step = "omit" /\ tx[v].kind \in {"settle", "omit"}
               /\ Wants(v) \in tx[v].todo /\ Wants(v) \in Intents
               /\ holder[tx[v].sub] = v
<1>0. LocksTypeOK /\ TransactionsFit /\ LocksInOrder
  BY DEF LocksInvariant
<1>1. v \in Transactions /\ Blocker(v) \in C \ {v} /\ C \subseteq Transactions
  BY DEF IsCycle
<1>2. Wants(v) # Nothing /\ holder[Wants(v)] = Blocker(v)
  BY <1>1, RowFacts DEF Blocker
<1>3. PICK w \in C : Blocker(w) = v
  BY DEF IsCycle
<1>4. Wants(w) # Nothing /\ holder[Wants(w)] = v /\ w \in Transactions
  BY <1>1, <1>3, RowFacts DEF Blocker
<1>5. Wants(w) \in LockRows
  BY <1>0, <1>4, WantsRow
<1>6. tx[v].step \notin {"none", "intent"}
  BY <1>0, <1>1, <1>4, <1>5 DEF LocksInOrder
<1>7. Wants(v) \in LockRows
  BY <1>0, <1>1, <1>2, WantsRow
<1>8. CASE tx[v].step = "subscription" /\ Wants(v) = tx[v].sub
  <2>1. \A r \in LockRows : holder[r] = v => r = tx[v].intent
    BY <1>0, <1>1, <1>8 DEF LocksInOrder
  <2>2. tx[v].intent \in LockRows
    BY <1>4, <1>5, <2>1
  <2>3. tx[v].kind \in {"start", "settle"} /\ tx[v].intent \in Intents
    BY <1>0, <1>1, <1>8, <2>2, RowFacts DEF TransactionsFit
  <2> QED
    BY <1>1, <1>2, <1>7, <1>8, <2>1, <2>3
<1>9. CASE tx[v].step = "omit" /\ Wants(v) \in tx[v].todo /\ Wants(v) \in Intents
  <2>1. tx[v].kind \in {"settle", "omit"}
    BY <1>0, <1>1, <1>9 DEF TransactionsFit
  <2>2. holder[tx[v].sub] = v
    BY <1>0, <1>1, <1>9, <2>1 DEF LocksInOrder
  <2> QED
    BY <1>1, <1>2, <1>7, <1>9, <2>1, <2>2
<1> QED
  BY <1>0, <1>1, <1>2, <1>6, <1>8, <1>9, WantsRow

\* Who omits waits for a start, and the start for it.
LEMMA OmissionInCycle ==
  ASSUME LocksInvariant, NEW C \in SUBSET Transactions, IsCycle(C), NEW v \in C,
         tx[v].step = "omit"
  PROVE  Blocker(Blocker(v)) = v /\ StartMeetsOmission(Blocker(v), v)
<1> DEFINE u == Blocker(v)
           j == Wants(v)
<1>0. /\ LocksTypeOK /\ TransactionsFit /\ LocksInOrder /\ SettlesAlone
      /\ OmissionsStand /\ OneLive
  BY DEF LocksInvariant
<1>1. /\ v \in Transactions /\ u \in C \ {v} /\ j \in Intents /\ j \in tx[v].todo
      /\ holder[j] = u /\ holder[tx[v].sub] = v /\ tx[v].kind \in {"settle", "omit"}
  BY CycleMember
<1>2. status[j] \in OmittableStates /\ SubOf[j] = tx[v].sub
  BY <1>0, <1>1 DEF OmissionsStand, TransactionsFit
<1>3. /\ u \in Transactions
      /\ \/ /\ tx[u].step = "subscription" /\ tx[u].kind \in {"start", "settle"}
            /\ Wants(u) = tx[u].sub /\ tx[u].intent \in Intents
            /\ holder[Wants(u)] = Blocker(u)
            /\ \A r \in LockRows : holder[r] = u => r = tx[u].intent
         \/ /\ tx[u].step = "omit" /\ tx[u].kind \in {"settle", "omit"}
            /\ holder[tx[u].sub] = u
  BY <1>1, CycleMember
<1> HIDE DEF u, j
<1>4. ASSUME tx[u].step = "omit" PROVE FALSE
  <2>1. tx[u].kind \in {"settle", "omit"} /\ holder[tx[u].sub] = u
    BY <1>3, <1>4
  <2>2. j = tx[u].intent \/ SubOf[j] = tx[u].sub
    <3>1. tx[u].sub \in Subscriptions
      BY <1>0, <1>3, <2>1, RowFacts DEF TransactionsFit
    <3> QED
      BY <1>0, <1>1, <1>3, <3>1, RowFacts DEF LocksInOrder
  <2>3. SubOf[j] = tx[u].sub
    BY <1>0, <1>1, <1>3, <2>1, <2>2, RowFacts DEF TransactionsFit
  <2> QED
    BY <1>1, <1>2, <2>1, <2>3
<1>5. /\ tx[u].kind \in {"start", "settle"} /\ Wants(u) = tx[u].sub
      /\ holder[Wants(u)] = Blocker(u) /\ j = tx[u].intent
  BY <1>1, <1>3, <1>4, RowFacts
<1>6. tx[u].kind = "start"
  BY <1>0, <1>2, <1>3, <1>5 DEF SettlesAlone, Settles, OmittableStates
<1>7. tx[u].sub = tx[v].sub
  BY <1>0, <1>2, <1>3, <1>5 DEF TransactionsFit
<1>8. tx[v].kind = "omit"
  <2>1. SUFFICES ASSUME tx[v].kind = "settle" PROVE FALSE
    BY <1>1
  <2>2. /\ tx[v].intent \in Intents /\ SubOf[tx[v].intent] = SubOf[j]
        /\ status[tx[v].intent] = "IN_FLIGHT"
    BY <1>0, <1>1, <1>2, <2>1 DEF TransactionsFit, SettlesAlone, Settles
  <2>3. tx[v].intent = j
    BY <1>0, <1>1, <1>2, <2>2 DEF OneLive, LiveStates, OmittableStates
  <2> QED
    BY <1>2, <2>2, <2>3 DEF OmittableStates
<1>9. Blocker(u) = v
  BY <1>1, <1>5, <1>7
<1> QED
  BY <1>2, <1>5, <1>6, <1>7, <1>8, <1>9 DEF StartMeetsOmission, u

LEMMA InvariantDeadlocks ==
  ASSUME LocksInvariant
  PROVE  OnlyStartsDeadlock
<1> SUFFICES ASSUME NEW C \in SUBSET Transactions, IsCycle(C), NEW t \in C
             PROVE  /\ Blocker(Blocker(t)) = t
                    /\ \/ StartMeetsOmission(t, Blocker(t))
                       \/ StartMeetsOmission(Blocker(t), t)
  BY DEF OnlyStartsDeadlock
<1>1. CASE tx[t].step = "omit"
  BY <1>1, OmissionInCycle
<1>2. CASE tx[t].step = "subscription"
  <2>1. PICK w \in C : Blocker(w) = t
    BY DEF IsCycle
  <2>2. Wants(w) \in LockRows /\ holder[Wants(w)] = t /\ w \in Transactions
    BY <2>1, CycleMember
  <2>3. Wants(w) = tx[t].intent /\ Wants(w) \in Intents
    BY <1>2, <2>2, CycleMember
  <2>4. tx[w].step = "omit"
    <3>1. SUFFICES ASSUME tx[w].step = "subscription", Wants(w) = tx[w].sub,
                          tx[w].kind \in {"start", "settle"}, tx[w].intent \in Intents
                   PROVE  FALSE
      BY <2>1, CycleMember
    <3>2. tx[w].sub \in Subscriptions
      BY <2>2, <3>1, RowFacts DEF LocksInvariant, TransactionsFit
    <3> QED
      BY <2>3, <3>1, <3>2, RowFacts
  <2>5. Blocker(t) = w /\ StartMeetsOmission(t, w)
    BY <2>1, <2>4, OmissionInCycle
  <2> QED
    BY <2>1, <2>5
<1> QED
  BY <1>1, <1>2, CycleMember

-----------------------------------------------------------------------------
(* Theorems *)

LEMMA InitInvariant == LocksInit => LocksInvariant
<1> SUFFICES ASSUME LocksInit PROVE LocksInvariant
  OBVIOUS
<1>1. /\ \A t \in Transactions : tx[t] = NoTransaction
      /\ tx = [t \in Transactions |-> NoTransaction]
      /\ holder = NoRows /\ \A r \in LockRows : holder[r] = Nothing
      /\ status = [r \in LockRows |-> IF r \in Subscriptions THEN "ACTIVE" ELSE "ABSENT"]
  BY DEF LocksInit, NoRows
<1>2. /\ \A s \in Subscriptions : status[s] = "ACTIVE"
      /\ \A i \in Intents : status[i] = "ABSENT"
  BY <1>1, RowFacts
<1>3. LocksTypeOK
  BY <1>1, <1>2, NoTransactionFacts, RowFacts
     DEF LocksTypeOK, NoRows, Statuses, SubscriptionStates, IntentStates
<1>4. DecisionsStand
  BY <1>1, NoTransactionFacts, RowFacts DEF DecisionsStand, NoRows
<1>5. TransactionsFit
  BY <1>1, NoTransactionFacts DEF TransactionsFit
<1>6. LocksInOrder
  BY <1>1, NoTransactionFacts, RowFacts DEF LocksInOrder
<1>7. WritesAreLocked
  BY <1>1, NoTransactionFacts, RowFacts DEF WritesAreLocked, WritesLocked, NoRows
<1>8. SettlesAlone /\ OmissionsStand
  BY <1>1, NoTransactionFacts DEF SettlesAlone, Settles, OmissionsStand
<1>9. OneLive
  BY <1>2 DEF OneLive, LiveStates
<1> QED
  BY <1>3, <1>4, <1>5, <1>6, <1>7, <1>8, <1>9 DEF LocksInvariant

LEMMA StepInvariant == LocksInvariant /\ [LocksNext]_locksVars => LocksInvariant'
<1> SUFFICES ASSUME LocksInvariant, [LocksNext]_locksVars PROVE LocksInvariant'
  OBVIOUS
<1>1. ASSUME NEW t \in Transactions, Begins(t)
      PROVE  LocksInvariant'
  BY <1>1, BeginInvariant
<1>2. ASSUME NEW t \in Transactions, Lock(t)
      PROVE  LocksInvariant'
  BY <1>2, LockInvariant
<1>3. ASSUME NEW t \in Transactions, OmitStatement(t)
      PROVE  LocksInvariant'
  BY <1>3, OmitStatementInvariant
<1>4. ASSUME NEW t \in Transactions, Commit(t)
      PROVE  LocksInvariant'
  BY <1>4, CommitInvariant
<1>5. ASSUME NEW t \in Transactions, Rejected(t) \/ DeadlockVictim(t) \/ Dies(t)
      PROVE  LocksInvariant'
  BY <1>5, RollbackInvariant DEF Rejected, DeadlockVictim, Dies
<1>6. ASSUME NEW i \in Intents, Insert(i)
      PROVE  LocksInvariant'
  BY <1>6, InsertInvariant
<1>7. ASSUME UNCHANGED locksVars
      PROVE  LocksInvariant'
  <2>1. status' = status /\ holder' = holder /\ tx' = tx
    BY <1>7 DEF locksVars
  <2>2. WritesAreLocked'
    BY <2>1 DEF LocksInvariant, WritesAreLocked, WritesLocked
  <2>3. SettlesAlone'
    BY <2>1 DEF LocksInvariant, SettlesAlone, Settles
  <2> QED
    BY <2>1, <2>2, <2>3 DEF LocksInvariant, LocksTypeOK, DecisionsStand, TransactionsFit,
       LocksInOrder, OmissionsStand, OneLive
<1> QED
  BY <1>1, <1>2, <1>3, <1>4, <1>5, <1>6, <1>7 DEF LocksNext

\* What a transaction may hold, have read and write at each of its statements, and
\* what it may count on in the rows it has yet to lock: for any number of connections,
\* executors, sweeps, reprocess requests and lifecycle changes.
THEOREM LocksInvariantHolds == LocksSpec => []LocksInvariant
<1> QED
  BY InitInvariant, StepInvariant, PTL DEF LocksSpec

\* No transaction commits on something that has changed since it locked it, so the
\* other modules may take it for one step.
THEOREM DecisionsAlwaysStand == LocksSpec => []DecisionsStand
<1>1. LocksInvariant => DecisionsStand
  BY DEF LocksInvariant
<1> QED
  BY <1>1, LocksInvariantHolds, PTL

\* Of any number of transactions, only a startAttempt and the cancellation or pause
\* that omits its intent wait for each other, and no cycle is longer than these two.
THEOREM DeadlocksAreStarts == LocksSpec => []OnlyStartsDeadlock
<1> QED
  BY InvariantDeadlocks, LocksInvariantHolds, PTL
=============================================================================
