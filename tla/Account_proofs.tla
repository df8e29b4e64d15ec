--------------------------- MODULE Account_proofs ---------------------------
(***************************************************************************)
(* The logs of DealLocalResource stay ordered, so that a record is given   *)
(* up only when it lists nothing; a node that keeps alive stays listed;    *)
(* what is silent is unlisted, and a silent record removed, in time: for   *)
(* all nodes, pods, accounts and periods.                                  *)
(***************************************************************************)
EXTENDS Account, TLAPS

IInv == TypeOK /\ LogsOrdered

-----------------------------------------------------------------------------
(* The operators on a log *)

(* A log that is new has no entries. *)
LEMMA LogOfGood ==
    ASSUME IInv, NEW n \in Nodes, NEW acc \in Accounts
    PROVE  IsLog(LogOf(n, acc)) /\ Ordered(LogOf(n, acc))
<1>1. CASE logs[n][acc] = NoLog
  <2>1. LogOf(n, acc) = [lastUpdated |-> now, lastChecked |-> now, entries |-> <<>>]
    BY <1>1 DEF LogOf
  <2>2. DOMAIN LogOf(n, acc).entries = {} /\ LogOf(n, acc).entries = <<>>
    BY <2>1
  <2>3. QED BY <2>1, <2>2 DEF IInv, TypeOK, IsLog, Ordered
<1>2. CASE logs[n][acc] # NoLog
  BY <1>2 DEF LogOf, IInv, TypeOK, LogsOrdered
<1>3. QED BY <1>1, <1>2

(* Whatever has changed is seen now, and then the log has changed now; what *)
(* has not changed was seen no later than the log.                          *)
LEMMA CheckedGood ==
    ASSUME now \in Nat, NEW log, IsLog(log), Ordered(log), NEW record, IsRecord(record)
    PROVE  IsLog(Checked(log, record)) /\ Ordered(Checked(log, record))
<1> DEFINE changed == Changed(log, record)
           kept == (DOMAIN log.entries \cup changed) \ Forgotten(log, record)
           entries == [k \in kept |-> IF k \in changed THEN [seen |-> now, stamp |-> record[k]]
                                      ELSE log.entries[k]]
           quiet == changed \cup Expired(log, record) \cup Forgotten(log, record) = {}
           updated == IF quiet THEN log.lastUpdated ELSE now
<1>1. Checked(log, record) = [lastUpdated |-> updated, lastChecked |-> now, entries |-> entries]
  BY DEF Checked
<1>2. changed \subseteq DOMAIN record /\ DOMAIN record \subseteq Keys /\ DOMAIN log.entries \subseteq Keys
  BY DEF Changed, IsRecord, IsLog
<1>3. \A k \in DOMAIN record : record[k] \in Nat
  BY DEF IsRecord
<1>4. /\ log.lastUpdated \in Nat /\ log.lastUpdated <= now
      /\ \A k \in DOMAIN log.entries : /\ log.entries[k] \in [seen : Nat, stamp : Nat]
                                       /\ log.entries[k].seen <= log.lastUpdated
  BY DEF IsLog, Ordered
<1>5. entries \in [kept -> [seen : Nat, stamp : Nat]]
  BY <1>2, <1>3, <1>4
<1>6. updated \in Nat /\ updated <= now
  BY <1>4
<1>7. \A k \in kept : entries[k].seen <= updated
  <2>1. CASE quiet
    <3>1. \A k \in kept : k \in DOMAIN log.entries /\ entries[k] = log.entries[k]
      BY <2>1
    <3>2. QED BY <1>4, <2>1, <3>1
  <2>2. CASE ~ quiet
    <3>1. ASSUME NEW k \in kept PROVE entries[k].seen <= now
      <4>1. CASE k \in changed
        BY <4>1
      <4>2. CASE k \notin changed
        <5>1. k \in DOMAIN log.entries /\ entries[k] = log.entries[k]
          BY <3>1, <4>2
        <5>2. log.entries[k].seen \in Nat /\ log.entries[k].seen <= log.lastUpdated
          BY <1>4, <5>1
        <5>3. QED BY <1>4, <5>1, <5>2
      <4>3. QED BY <4>1, <4>2
    <3>2. QED BY <2>2, <3>1
  <2>3. QED BY <2>1, <2>2
<1> HIDE DEF entries, updated, changed, kept, quiet
<1>8. DOMAIN entries = kept /\ kept \subseteq Keys
  BY <1>2, <1>5 DEF kept
<1>9. QED BY <1>1, <1>5, <1>6, <1>7, <1>8 DEF IsLog, Ordered

(* A record with a key in it is not outdated: its key has changed, and so   *)
(* has its log, or is expired, or was seen too recently.                    *)
LEMMA OutdatedIsEmpty ==
    ASSUME IInv, NEW n \in Nodes, NEW acc \in DOMAIN mgr[n].resources, Outdated(n, acc)
    PROVE  DOMAIN mgr[n].resources[acc] = {}
<1> DEFINE record == mgr[n].resources[acc]
           log == LogOf(n, acc)
<1>1. acc \in Accounts /\ IsRecord(record) /\ now \in Nat
  BY DEF IInv, TypeOK, IsManager
<1>2. IsLog(log) /\ Ordered(log)
  BY <1>1, LogOfGood
<1>3. {ResourceLifetime, AccountLifetime} \subseteq Nat /\ ResourceLifetime <= AccountLifetime
  BY AccountAssumption
<1>4. Expired(log, record) = {} /\ now > Checked(log, record).lastUpdated + AccountLifetime
  BY DEF Outdated
<1> HIDE DEF record, log
<1>5. SUFFICES ASSUME NEW k \in DOMAIN record PROVE FALSE
  BY DEF record
<1>6. log.lastUpdated \in Nat
  BY <1>2 DEF IsLog
<1>7. Changed(log, record) = {} /\ Checked(log, record).lastUpdated = log.lastUpdated
  BY <1>1, <1>3, <1>4, <1>6 DEF Checked
<1>8. k \in DOMAIN log.entries /\ ~ (now > log.entries[k].seen + ResourceLifetime)
  BY <1>4, <1>7 DEF Changed, Expired
<1>9. log.entries[k].seen \in Nat /\ log.entries[k].seen <= log.lastUpdated
  BY <1>2, <1>8 DEF IsLog, Ordered
<1>10. QED BY <1>1, <1>3, <1>4, <1>6, <1>7, <1>8, <1>9

-----------------------------------------------------------------------------
(* Records and managers *)

LEMMA MergeGood ==
    ASSUME NEW record, record # NoRecord => IsRecord(record), NEW news, IsRecord(news)
    PROVE  IsRecord(Merge(record, news))
<1> DEFINE old == IF record = NoRecord THEN {} ELSE DOMAIN record
           all == old \cup DOMAIN news
           merged == [k \in all |-> IF k \in DOMAIN news THEN news[k] ELSE record[k]]
<1>1. Merge(record, news) = merged
  BY DEF Merge
<1>2. all \subseteq Keys
  BY DEF IsRecord
<1>3. ASSUME NEW k \in all PROVE merged[k] \in Nat
  BY <1>3 DEF IsRecord
<1>4. QED BY <1>1, <1>2, <1>3 DEF IsRecord

LEMMA AliveGood ==
    ASSUME now \in Nat, NEW n \in Nodes
    PROVE  IsRecord(Alive(n))
BY AccountAssumption DEF Alive, IsRecord, Keys

LEMMA DealtGood ==
    ASSUME NEW n, NEW acc, IsRecord(mgr[n].resources[acc]), Dealt(n, acc) # NoRecord
    PROVE  IsRecord(Dealt(n, acc))
<1> DEFINE record == mgr[n].resources[acc]
           alive == DOMAIN record \ Expired(LogOf(n, acc), record)
<1>1. Dealt(n, acc) = [k \in alive |-> record[k]]
  BY DEF Dealt, Restrict
<1>2. QED BY <1>1 DEF IsRecord

LEMMA IdleGood == IsManager(Idle) /\ IsManager(Down) /\ IsManager([Down EXCEPT !.pc = "starting"])
<1>1. DOMAIN Down.resources = {}
  BY DEF Down
<1>2. QED BY <1>1 DEF IsManager, Idle, Down

(* One manager is replaced by another good one. *)
LEMMA ManagerStep ==
    ASSUME TypeOK, NEW n \in Nodes, NEW m, IsManager(m), mgr' = [mgr EXCEPT ![n] = m]
    PROVE  mgr' \in [Nodes -> {mgr'[k] : k \in Nodes}] /\ \A k \in Nodes : IsManager(mgr'[k])
BY DEF TypeOK

(* IsManager is about constants only, and so survives a step. *)
LEMMA ManagersStay ==
    ASSUME TypeOK, mgr' = mgr
    PROVE  mgr' \in [Nodes -> {mgr'[k] : k \in Nodes}] /\ \A k \in Nodes : IsManager(mgr'[k])
BY DEF TypeOK

LEMMA RecordStep ==
    ASSUME TypeOK, NEW acc \in Accounts, NEW r, r # NoRecord => IsRecord(r),
           kvs' = [kvs EXCEPT ![acc] = r]
    PROVE  /\ kvs' \in [Accounts -> {kvs'[other] : other \in Accounts}]
           /\ \A other \in Accounts : kvs'[other] # NoRecord => IsRecord(kvs'[other])
BY DEF TypeOK

LEMMA RecordsStay ==
    ASSUME TypeOK, kvs' = kvs
    PROVE  /\ kvs' \in [Accounts -> {kvs'[other] : other \in Accounts}]
           /\ \A other \in Accounts : kvs'[other] # NoRecord => IsRecord(kvs'[other])
BY DEF TypeOK

LEMMA SpendGood ==
    ASSUME TypeOK, NEW event \in Counters, Spend(event)
    PROVE  used' \in [Counters -> Nat]
BY DEF TypeOK, Spend, Counters

LEMMA WritesGood ==
    ASSUME TypeOK, NEW acc \in Accounts, NEW copy, NEW r, Writes(acc, copy, r)
    PROVE  kvs' = [kvs EXCEPT ![acc] = r] /\ used' \in [Counters -> Nat]
<1>1. "mishaps" \in Counters
  BY DEF Counters
<1>2. QED BY <1>1, SpendGood DEF Writes, TypeOK

(* What the logs promise, as a predicate on them *)
LogsGood(l, t) ==
    /\ l \in [Nodes -> {l[n] : n \in Nodes}]
    /\ \A n \in Nodes : l[n] \in [Accounts -> {l[n][acc] : acc \in Accounts}]
    /\ \A n \in Nodes, acc \in Accounts :
        l[n][acc] # NoLog =>
            /\ IsLog(l[n][acc]) /\ l[n][acc].lastUpdated <= t
            /\ \A k \in DOMAIN l[n][acc].entries : l[n][acc].entries[k].seen <= l[n][acc].lastUpdated

(* The logs stay as they are, while time may pass. *)
LEMMA LogsStay ==
    ASSUME IInv, logs' = logs, now' \in Nat, now <= now'
    PROVE  LogsGood(logs', now')
<1>1. \A n \in Nodes, acc \in Accounts : logs[n][acc] # NoLog => logs[n][acc].lastUpdated \in Nat
  BY DEF IInv, TypeOK, IsLog
<1>2. \A n \in Nodes, acc \in Accounts : logs[n][acc] # NoLog =>
        /\ IsLog(logs[n][acc]) /\ logs[n][acc].lastUpdated <= now
        /\ \A k \in DOMAIN logs[n][acc].entries :
                logs[n][acc].entries[k].seen <= logs[n][acc].lastUpdated
  BY DEF IInv, TypeOK, LogsOrdered, Ordered
<1>3. now \in Nat
  BY DEF IInv, TypeOK
<1>4. \A n \in Nodes, acc \in Accounts : logs[n][acc] # NoLog => logs[n][acc].lastUpdated <= now'
  BY <1>1, <1>2, <1>3
<1>5. /\ logs \in [Nodes -> {logs[n] : n \in Nodes}]
      /\ \A n \in Nodes : logs[n] \in [Accounts -> {logs[n][acc] : acc \in Accounts}]
  BY DEF IInv, TypeOK
<1>6. LogsGood(logs, now')
  BY <1>2, <1>4, <1>5 DEF LogsGood
<1>7. QED BY <1>6

LEMMA CheckGood ==
    ASSUME IInv, NEW n \in Nodes, NEW acc \in DOMAIN mgr[n].resources, Check(n, acc), now' = now
    PROVE  LogsGood(logs', now')
<1> DEFINE new == Checked(LogOf(n, acc), mgr[n].resources[acc])
           mine == [other \in Accounts |-> IF other = acc THEN new ELSE Cleaned(logs[n][other])]
<1>1. acc \in Accounts /\ IsRecord(mgr[n].resources[acc]) /\ now \in Nat
  BY DEF IInv, TypeOK, IsManager
<1>2. IsLog(new) /\ Ordered(new)
  BY <1>1, LogOfGood, CheckedGood
<1>3. \A other \in Accounts : Cleaned(logs[n][other]) \in {NoLog, logs[n][other]}
  BY DEF Cleaned
<1>4. logs' = [logs EXCEPT ![n] = mine]
  BY DEF Check
<1>5. /\ logs' \in [Nodes -> {logs'[m] : m \in Nodes}]
      /\ \A m \in Nodes : logs'[m] \in [Accounts -> {logs'[m][o] : o \in Accounts}]
  <2>1. mine \in [Accounts -> {mine[o] : o \in Accounts}]
    OBVIOUS
  <2> HIDE DEF mine
  <2>2. QED BY <1>4, <2>1 DEF IInv, TypeOK
<1>6. ASSUME NEW m \in Nodes, NEW o \in Accounts, logs'[m][o] # NoLog
      PROVE  IsLog(logs'[m][o]) /\ Ordered(logs'[m][o])
  <2>1. logs'[m][o] = IF m = n THEN mine[o] ELSE logs[m][o]
    BY <1>4 DEF IInv, TypeOK
  <2>2. CASE m = n /\ o = acc
    BY <1>2, <2>1, <2>2
  <2>3. CASE m # n \/ o # acc
    <3>1. logs'[m][o] = logs[m][o]
      BY <1>3, <1>6, <2>1, <2>3
    <3>2. QED BY <1>6, <3>1 DEF IInv, TypeOK, LogsOrdered
  <2>4. QED BY <2>2, <2>3
<1>7. QED BY <1>5, <1>6 DEF LogsGood, Ordered

-----------------------------------------------------------------------------
(* The induction.  Assembled puts the parts of the next state together.     *)

LEMMA Assembled ==
    ASSUME now' \in Nat, LogsGood(logs', now'),
           kvs' \in [Accounts -> {kvs'[acc] : acc \in Accounts}],
           \A acc \in Accounts : kvs'[acc] # NoRecord => IsRecord(kvs'[acc]),
           holder' \in [Accounts -> Nodes],
           mgr' \in [Nodes -> {mgr'[n] : n \in Nodes}],
           \A n \in Nodes : IsManager(mgr'[n]),
           keepDue' \in [Nodes -> Nat], dealDue' \in [Nodes -> Nat],
           used' \in [Counters -> Nat],
           written' \in [Accounts -> Nat], held' \in [Accounts -> Nat]
    PROVE  IInv'
BY DEF IInv, TypeOK, LogsOrdered, Ordered, LogsGood

LEMMA InitGood == Init => IInv
<1> SUFFICES ASSUME Init PROVE IInv
  OBVIOUS
<1>1. \A n \in Nodes : IsManager(mgr[n])
  BY AccountAssumption, IdleGood DEF Init
<1>2. QED BY <1>1, AccountAssumption DEF Init, IInv, TypeOK, LogsOrdered

LEMMA KeepAliveGood ==
    ASSUME IInv, NEW n \in Nodes,
           KeepAliveGet(n) \/ KeepAliveInvalid(n) \/ KeepAliveSet(n) \/ KeepAliveFails(n)
    PROVE  IInv'
<1>1. TypeOK /\ now \in Nat /\ IsManager(mgr[n])
  BY DEF IInv, TypeOK
<1>2. now' = now /\ logs' = logs
  BY DEF KeepAliveGet, KeepAliveInvalid, KeepAliveSet, KeepAliveFails
<1>3. LogsGood(logs', now') /\ now' \in Nat
  BY <1>1, <1>2, LogsStay
<1>4. NextDue(n) \/ UNCHANGED tickers
  BY DEF KeepAliveGet, KeepAliveInvalid, KeepAliveSet, KeepAliveFails
<1>5. keepDue' \in [Nodes -> Nat] /\ dealDue' \in [Nodes -> Nat]
  <2>1. now + KeepAlivePeriod \in Nat /\ now + DealPeriod \in Nat
    BY <1>1, AccountAssumption
  <2>2. keepDue \in [Nodes -> Nat] /\ dealDue \in [Nodes -> Nat]
    BY <1>1 DEF TypeOK
  <2>3. /\ keepDue' \in {keepDue, [keepDue EXCEPT ![n] = now + KeepAlivePeriod]}
        /\ dealDue' \in {dealDue, [dealDue EXCEPT ![n] = now + DealPeriod]}
    BY <1>4 DEF NextDue, tickers
  <2>4. QED BY <2>1, <2>2, <2>3
<1>6. ToUpdate(n) \subseteq Accounts \cup {NoAccount}
  BY <1>1, AccountAssumption DEF ToUpdate, IsManager
<1>7. CASE KeepAliveGet(n)
  <2>1. PICK acc \in ToUpdate(n) \cap Accounts :
            mgr' = [mgr EXCEPT ![n] = [mgr[n] EXCEPT !.pc = "write", !.todo = ToUpdate(n),
                                                     !.acc = acc, !.copy = kvs[acc]]]
    BY <1>7 DEF KeepAliveGet
  <2> DEFINE m == [mgr[n] EXCEPT !.pc = "write", !.todo = ToUpdate(n), !.acc = acc, !.copy = kvs[acc]]
  <2>2. DOMAIN mgr[n].resources = {}
    BY <1>1, <1>7 DEF KeepAliveGet, KeepAliveDue, IsManager
  <2>3. IsManager(m)
    BY <1>1, <1>6, <2>1, <2>2 DEF IsManager, TypeOK
  <2>4. kvs' = kvs /\ UNCHANGED <<holder, used, history>>
    BY <1>7 DEF KeepAliveGet
  <2> HIDE DEF m
  <2>5. mgr' \in [Nodes -> {mgr'[k] : k \in Nodes}] /\ \A k \in Nodes : IsManager(mgr'[k])
    BY <1>1, <2>1, <2>3, ManagerStep DEF m
  <2>6. QED BY <1>1, <1>3, <1>5, <2>4, <2>5, RecordsStay, Assembled DEF TypeOK, history
<1>8. CASE KeepAliveInvalid(n)
  <2>1. mgr' = [mgr EXCEPT ![n] = Idle] /\ kvs' = kvs /\ UNCHANGED <<holder, used, history>>
    BY <1>8 DEF KeepAliveInvalid, Rest
  <2>2. mgr' \in [Nodes -> {mgr'[k] : k \in Nodes}] /\ \A k \in Nodes : IsManager(mgr'[k])
    BY <1>1, <2>1, IdleGood, ManagerStep
  <2>3. QED BY <1>1, <1>3, <1>5, <2>1, <2>2, RecordsStay, Assembled DEF TypeOK, history
<1>9. CASE KeepAliveSet(n)
  <2> DEFINE acc == mgr[n].acc
             r == Merge(mgr[n].copy, Alive(n))
             m == [mgr[n] EXCEPT !.pc = "keepalive", !.todo = mgr[n].todo \ {acc},
                                 !.acc = NoAccount, !.copy = NoRecord]
  <2>1. acc \in Accounts /\ DOMAIN mgr[n].resources = {}
    BY <1>1, <1>9 DEF KeepAliveSet, IsManager
  <2>2. IsRecord(r)
    BY <1>1, MergeGood, AliveGood DEF IsManager
  <2>3. /\ Writes(acc, mgr[n].copy, r) /\ written' = [written EXCEPT ![acc] = now]
        /\ mgr' = [mgr EXCEPT ![n] = Idle] \/ mgr' = [mgr EXCEPT ![n] = m]
        /\ UNCHANGED <<holder, held>>
    BY <1>9 DEF KeepAliveSet, Rest
  <2>4. IsManager(m)
    BY <1>1, <2>1 DEF IsManager
  <2> HIDE DEF r, m, acc
  <2>5. kvs' = [kvs EXCEPT ![acc] = r] /\ used' \in [Counters -> Nat]
    BY <1>1, <2>1, <2>3, WritesGood
  <2>6. mgr' \in [Nodes -> {mgr'[k] : k \in Nodes}] /\ \A k \in Nodes : IsManager(mgr'[k])
    BY <1>1, <2>3, <2>4, IdleGood, ManagerStep
  <2>7. /\ kvs' \in [Accounts -> {kvs'[other] : other \in Accounts}]
        /\ \A other \in Accounts : kvs'[other] # NoRecord => IsRecord(kvs'[other])
    BY <1>1, <2>1, <2>2, <2>5, RecordStep
  <2>8. QED BY <1>1, <1>3, <1>5, <2>1, <2>3, <2>5, <2>6, <2>7, Assembled DEF TypeOK
<1>10. CASE KeepAliveFails(n)
  <2>1. /\ mgr' = [mgr EXCEPT ![n] = Idle] /\ kvs' = kvs /\ UNCHANGED <<holder, history>>
        /\ Spend("mishaps")
    BY <1>10 DEF KeepAliveFails, Rest
  <2>2. mgr' \in [Nodes -> {mgr'[k] : k \in Nodes}] /\ \A k \in Nodes : IsManager(mgr'[k])
    BY <1>1, <2>1, IdleGood, ManagerStep
  <2>3. used' \in [Counters -> Nat]
    BY <1>1, <2>1, SpendGood DEF Counters
  <2>4. QED BY <1>1, <1>3, <1>5, <2>1, <2>2, <2>3, RecordsStay, Assembled DEF TypeOK, history
<1>11. QED BY <1>7, <1>8, <1>9, <1>10

LEMMA DealGood ==
    ASSUME IInv, NEW n \in Nodes, Deal(n) \/ DealRecord(n) \/ DealFails(n)
    PROVE  IInv'
<1>1. TypeOK /\ now \in Nat /\ IsManager(mgr[n])
  BY DEF IInv, TypeOK
<1>2. CASE Deal(n)
  <2> DEFINE m == [Idle EXCEPT !.pc = "deal", !.resources = [acc \in Local(n) |-> kvs[acc]]]
  <2>1. /\ mgr' = [mgr EXCEPT ![n] = IF Local(n) = {} THEN Idle ELSE m]
        /\ dealDue' = [dealDue EXCEPT ![n] = now + DealPeriod]
        /\ UNCHANGED <<now, kvs, holder, keepDue, logs, used, history>>
    BY <1>2 DEF Deal
  <2>2. /\ Local(n) \subseteq Accounts /\ \A acc \in Local(n) : IsRecord(kvs[acc])
        /\ m.resources = [acc \in Local(n) |-> kvs[acc]]
    BY <1>1 DEF Local, TypeOK, Idle, Down
  <2>3. Local(n) # {} => IsManager(m)
    BY <2>2 DEF IsManager, Idle, Down
  <2> HIDE DEF m
  <2>4. mgr' \in [Nodes -> {mgr'[k] : k \in Nodes}] /\ \A k \in Nodes : IsManager(mgr'[k])
    BY <1>1, <2>1, <2>3, IdleGood, ManagerStep
  <2>5. LogsGood(logs', now') /\ now' \in Nat
    BY <1>1, <2>1, LogsStay
  <2>6. dealDue' \in [Nodes -> Nat]
    <3>1. now + DealPeriod \in Nat
      BY <1>1, AccountAssumption
    <3>2. QED BY <1>1, <2>1, <3>1 DEF TypeOK
  <2>7. QED BY <1>1, <2>1, <2>4, <2>5, <2>6, RecordsStay, Assembled DEF TypeOK, history
<1>3. CASE DealRecord(n)
  <2>1. PICK acc \in DOMAIN mgr[n].resources :
            LET record == mgr[n].resources[acc] IN
            /\ mgr[n].pc = "deal" /\ Check(n, acc)
            /\ IF Dealt(n, acc) = record THEN UNCHANGED <<kvs, used>>
               ELSE Writes(acc, record, Dealt(n, acc))
            /\ IF DOMAIN mgr[n].resources = {acc}
               THEN Rest(n)
               ELSE mgr' = [mgr EXCEPT ![n].resources = Restrict(@, DOMAIN @ \ {acc})]
            /\ UNCHANGED <<now, holder, tickers, history>>
    BY <1>3 DEF DealRecord
  <2> DEFINE left == DOMAIN mgr[n].resources \ {acc}
             rest == [other \in left |-> mgr[n].resources[other]]
             m == [mgr[n] EXCEPT !.resources = rest]
  <2>2. acc \in Accounts /\ IsRecord(mgr[n].resources[acc])
    BY <1>1 DEF IsManager
  <2>3. Dealt(n, acc) # NoRecord => IsRecord(Dealt(n, acc))
    BY <2>2, DealtGood
  <2>4. /\ kvs' = kvs \/ kvs' = [kvs EXCEPT ![acc] = Dealt(n, acc)]
        /\ used' \in [Counters -> Nat]
    BY <1>1, <2>1, <2>2, WritesGood DEF TypeOK
  <2>5. /\ kvs' \in [Accounts -> {kvs'[other] : other \in Accounts}]
        /\ \A other \in Accounts : kvs'[other] # NoRecord => IsRecord(kvs'[other])
    BY <1>1, <2>2, <2>3, <2>4, RecordStep, RecordsStay
  <2>6. \/ mgr' = [mgr EXCEPT ![n] = Idle]
        \/ left # {} /\ mgr' = [mgr EXCEPT ![n] = m]
    BY <2>1 DEF Rest, Restrict
  <2>7. left # {} => IsManager(m)
    <3>1. m.resources = rest /\ m.pc = "deal" /\ DOMAIN rest = left /\ left \subseteq Accounts
      BY <1>1, <2>1 DEF IsManager
    <3>2. \A other \in left : IsRecord(rest[other])
      BY <1>1 DEF IsManager
    <3>3. m \in [pc : {"down", "starting", "idle", "keepalive", "write", "deal"},
                todo : SUBSET (Accounts \cup {NoAccount}), acc : Accounts \cup {NoAccount},
                copy : {m.copy}, resources : {m.resources}]
      BY <1>1 DEF IsManager
    <3>4. m.copy = mgr[n].copy
      BY <1>1 DEF IsManager
    <3> HIDE DEF m, rest, left
    <3>5. QED BY <1>1, <3>1, <3>2, <3>3, <3>4 DEF IsManager
  <2> HIDE DEF m, left, rest
  <2>8. mgr' \in [Nodes -> {mgr'[k] : k \in Nodes}] /\ \A k \in Nodes : IsManager(mgr'[k])
    BY <1>1, <2>6, <2>7, IdleGood, ManagerStep
  <2>9. LogsGood(logs', now') /\ now' \in Nat
    BY <1>1, <2>1, CheckGood
  <2>10. QED BY <1>1, <2>1, <2>4, <2>5, <2>8, <2>9, Assembled DEF TypeOK, history, tickers
<1>4. CASE DealFails(n)
  <2>1. PICK acc \in DOMAIN mgr[n].resources :
            /\ Check(n, acc) /\ Spend("mishaps") /\ Rest(n)
            /\ UNCHANGED <<now, kvs, holder, tickers, history>>
    BY <1>4 DEF DealFails
  <2>2. mgr' \in [Nodes -> {mgr'[k] : k \in Nodes}] /\ \A k \in Nodes : IsManager(mgr'[k])
    BY <1>1, <2>1, IdleGood, ManagerStep DEF Rest
  <2>3. LogsGood(logs', now') /\ now' \in Nat
    BY <1>1, <2>1, CheckGood
  <2>4. used' \in [Counters -> Nat]
    BY <1>1, <2>1, SpendGood DEF Counters
  <2>5. QED BY <1>1, <2>1, <2>2, <2>3, <2>4, RecordsStay, Assembled DEF TypeOK, history, tickers
<1>5. QED BY <1>2, <1>3, <1>4

LEMMA NodeGood ==
    ASSUME IInv, NEW n \in Nodes, NodeStarts(n) \/ NodeLeaves(n)
    PROVE  IInv'
<1>1. TypeOK /\ now \in Nat /\ IsManager(mgr[n])
  BY DEF IInv, TypeOK
<1>2. CASE NodeStarts(n)
  <2> DEFINE m == [mgr[n] EXCEPT !.pc = "starting"]
  <2>1. /\ mgr' = [mgr EXCEPT ![n] = m] /\ mgr[n].pc = "down"
        /\ UNCHANGED <<now, kvs, holder, tickers, logs, used, history>>
    BY <1>2 DEF NodeStarts
  <2>2. IsManager(m)
    BY <1>1, <2>1 DEF IsManager
  <2> HIDE DEF m
  <2>3. mgr' \in [Nodes -> {mgr'[k] : k \in Nodes}] /\ \A k \in Nodes : IsManager(mgr'[k])
    BY <1>1, <2>1, <2>2, ManagerStep
  <2>4. LogsGood(logs', now') /\ now' \in Nat
    BY <1>1, <2>1, LogsStay
  <2>5. QED BY <1>1, <2>1, <2>3, <2>4, RecordsStay, Assembled DEF TypeOK, history, tickers
<1>3. CASE NodeLeaves(n)
  <2>1. PICK m \in Nodes : holder' = [acc \in Accounts |-> IF holder[acc] = n THEN m ELSE holder[acc]]
    BY <1>3 DEF NodeLeaves
  <2>2. /\ mgr' = [mgr EXCEPT ![n] = Down]
        /\ logs' = [logs EXCEPT ![n] = [acc \in Accounts |-> NoLog]]
        /\ held' = [acc \in Accounts |-> IF holder[acc] = n THEN now ELSE held[acc]]
        /\ Spend("changes") /\ UNCHANGED <<now, kvs, tickers, written>>
    BY <1>3 DEF NodeLeaves
  <2>3. mgr' \in [Nodes -> {mgr'[k] : k \in Nodes}] /\ \A k \in Nodes : IsManager(mgr'[k])
    BY <1>1, <2>2, IdleGood, ManagerStep
  <2>4. LogsGood(logs', now') /\ now' \in Nat
    BY <1>1, <2>2 DEF IInv, TypeOK, LogsOrdered, Ordered, LogsGood
  <2>5. used' \in [Counters -> Nat]
    BY <1>1, <2>2, SpendGood DEF Counters
  <2>6. holder' \in [Accounts -> Nodes] /\ held' \in [Accounts -> Nat]
    BY <1>1, <2>1, <2>2 DEF TypeOK
  <2>7. QED BY <1>1, <2>2, <2>3, <2>4, <2>5, <2>6, RecordsStay, Assembled DEF TypeOK, tickers
<1>4. QED BY <1>2, <1>3

LEMMA Inductive == IInv /\ [Next]_vars => IInv'
<1> SUFFICES ASSUME IInv, [Next]_vars PROVE IInv'
  OBVIOUS
<1>1. TypeOK /\ now \in Nat
  BY DEF IInv, TypeOK
<1>2. CASE Tick
  <2>1. now' = now + 1 /\ UNCHANGED <<kvs, holder, mgr, tickers, logs, used, history>>
    BY <1>2 DEF Tick
  <2>2. LogsGood(logs', now') /\ now' \in Nat
    BY <1>1, <2>1, LogsStay
  <2>3. QED
    BY <1>1, <2>1, <2>2, RecordsStay, ManagersStay, Assembled DEF TypeOK, history, tickers
<1>3. CASE \E n \in Nodes : NodeStep(n)
  BY <1>3, KeepAliveGood, DealGood, NodeGood DEF NodeStep
<1>4. ASSUME NEW acc \in Accounts, HolderMoves(acc) PROVE IInv'
  <2>1. PICK n \in Nodes : holder' = [holder EXCEPT ![acc] = n]
    BY <1>4 DEF HolderMoves
  <2>2. /\ held' = [held EXCEPT ![acc] = now] /\ Spend("changes")
        /\ UNCHANGED <<now, kvs, mgr, tickers, logs, written>>
    BY <1>4 DEF HolderMoves
  <2>3. LogsGood(logs', now') /\ now' \in Nat
    BY <1>1, <2>2, LogsStay
  <2>4. used' \in [Counters -> Nat]
    BY <1>1, <2>2, SpendGood DEF Counters
  <2>5. holder' \in [Accounts -> Nodes] /\ held' \in [Accounts -> Nat]
    BY <1>1, <2>1, <2>2 DEF TypeOK
  <2>6. QED
    BY <1>1, <2>2, <2>3, <2>4, <2>5, RecordsStay, ManagersStay, Assembled DEF TypeOK, tickers
<1>5. CASE UNCHANGED vars
  <2>1. LogsGood(logs', now') /\ now' \in Nat
    BY <1>1, <1>5, LogsStay DEF vars
  <2>2. QED
    BY <1>1, <1>5, <2>1, RecordsStay, ManagersStay, Assembled DEF TypeOK, vars
<1>6. QED BY <1>2, <1>3, <1>4, <1>5 DEF Next

-----------------------------------------------------------------------------

(* Every value has its type, for all nodes, pods, accounts and periods. *)
THEOREM TypeCorrect == Spec => []TypeOK
<1>1. IInv => TypeOK
  BY DEF IInv
<1>2. QED BY <1>1, InitGood, Inductive, PTL DEF Spec

(* The log of a record is never older than what it says of the record's     *)
(* keys, whatever DealLocalResource finds and whoever has the record.       *)
THEOREM LogsAreOrdered == Spec => []LogsOrdered
<1>1. IInv => LogsOrdered
  BY DEF IInv
<1>2. QED BY <1>1, InitGood, Inductive, PTL DEF Spec

(* DealLocalResource gives up no record that lists a node or a pod, whatever*)
(* the interleaving of keep-alives, moves of the record and failing calls.  *)
THEOREM NothingListedIsRemoved == Spec => []OnlyEmptyRemoved
<1>1. IInv => OnlyEmptyRemoved
  BY OutdatedIsEmpty DEF OnlyEmptyRemoved
<1>2. QED BY <1>1, InitGood, Inductive, PTL DEF Spec
-----------------------------------------------------------------------------
(* Whoever keeps alive is listed: its entry is as young as its ticker, so   *)
(* that no holder finds it expired, whenever it saw the entry first.        *)

Stamped(r, t) == \A k \in DOMAIN r : r[k] <= t

InHand(m, t) ==
    /\ m.copy # NoRecord => Stamped(m.copy, t)
    /\ \A acc \in DOMAIN m.resources : Stamped(m.resources[acc], t)

SeenLater(log) == \A k \in DOMAIN log.entries : log.entries[k].stamp <= log.entries[k].seen

(* Nothing is known of a later time, and a log has seen what it knows. *)
Stamps ==
    /\ \A acc \in Accounts : kvs[acc] # NoRecord => Stamped(kvs[acc], now)
    /\ \A n \in Nodes : InHand(mgr[n], now)
    /\ \A n \in Nodes, acc \in Accounts : logs[n][acc] # NoLog => SeenLater(logs[n][acc])

Running(n) == mgr[n].pc \notin {"down", "starting"}

(* No ticker of a running manager is overdue. *)
Clock ==
    \A n \in Nodes :
        /\ keepDue[n] <= now + KeepAlivePeriod /\ dealDue[n] <= now + DealPeriod
        /\ Running(n) => now <= keepDue[n] /\ now <= dealDue[n]

Owners(n) == {AccountOf[n]} \cup {Owner[p] : p \in PodsAt[n]}

(* A keep-alive writes to the accounts of the node and its pods only. *)
Tasks ==
    \A n \in Nodes : mgr[n].pc \in {"keepalive", "write"} => mgr[n].todo \subseteq Owners(n)

(* The node has written itself since its ticker fired last. *)
Wrote(n) ==
    \/ mgr[n].pc \in {"idle", "deal"}
    \/ mgr[n].pc \in {"keepalive", "write"} /\ AccountOf[n] \notin mgr[n].todo

ListedSince(n) == Listed(n) /\ keepDue[n] <= kvs[AccountOf[n]][n] + KeepAlivePeriod

Fresh ==
    Undisturbed => \A n \in Nodes : Wrote(n) /\ ~ Unread(n) => ListedSince(n)

LiveInv == IInv /\ Stamps /\ Clock /\ Tasks /\ Fresh

-----------------------------------------------------------------------------
(* What is silent is dropped. *)

Dealing(n, acc) == acc \in DOMAIN mgr[n].resources

(* When the holder of a record deals with it at the latest *)
NextDeal(acc) ==
    LET n == holder[acc] IN
    IF mgr[n].pc = "starting" THEN now + DealPeriod
    ELSE IF Dealing(n, acc) THEN now ELSE dealDue[n]

(* A record is with a node that is up; who deals with it and does not have  *)
(* it any more has lost it just now.                                        *)
Hands ==
    /\ \A acc \in Accounts : Up(holder[acc])
    /\ \A n \in Nodes, acc \in Accounts : Dealing(n, acc) =>
        /\ mgr[n].resources[acc] # NoRecord
        /\ holder[acc] # n => held[acc] = now

(* What differs from the copy a node deals with was written just now. *)
Copies ==
    Undisturbed => \A n \in Nodes, acc \in Accounts : Dealing(n, acc) /\ kvs[acc] # NoRecord =>
        LET record == mgr[n].resources[acc] IN
        /\ \A k \in DOMAIN kvs[acc] :
            \/ now <= kvs[acc][k]
            \/ k \in DOMAIN record /\ record[k] = kvs[acc][k]
        /\ kvs[acc] = record \/ now <= Latest(written[acc], acc)

Knows(log, k, stamp) == k \in DOMAIN log.entries /\ log.entries[k].stamp = stamp

(* The log of the holder is so recent that it is not cleaned away. *)
Logged(acc) ==
    /\ logs[holder[acc]][acc] # NoLog
    /\ NextDeal(acc) <= logs[holder[acc]][acc].lastChecked + DealPeriod

(* The holder has still to see the entry of k, or has seen it in time and   *)
(* found it no older than a lifetime when it dealt with it last.            *)
Watched(acc, k) ==
    LET log == logs[holder[acc]][acc]
        late == Latest(kvs[acc][k], acc) + DealPeriod
    IN  \/ NextDeal(acc) <= late
        \/ /\ Logged(acc) /\ Knows(log, k, kvs[acc][k])
           /\ log.entries[k].seen <= late
           /\ NextDeal(acc) <= log.entries[k].seen + ResourceLifetime + DealPeriod

(* The same of the record as a whole: the holder has still to see the last  *)
(* keep-alive in it, or knows all of it since then.                         *)
Judged(acc) ==
    LET log == logs[holder[acc]][acc]
        late == Latest(written[acc], acc) + DealPeriod
    IN  \/ NextDeal(acc) <= late
        \/ /\ Logged(acc)
           /\ \A k \in DOMAIN kvs[acc] : Knows(log, k, kvs[acc][k])
           /\ \A k \in DOMAIN log.entries :
                /\ log.entries[k].seen <= late
                /\ NextDeal(acc) <= log.entries[k].seen + 2 * ResourceLifetime + DealPeriod
           /\ log.lastUpdated <= late + 2 * ResourceLifetime + DealPeriod
           /\ NextDeal(acc) <= log.lastUpdated + AccountLifetime + DealPeriod

AllWatched ==
    Undisturbed => \A acc \in Accounts : kvs[acc] # NoRecord =>
        \A k \in DOMAIN kvs[acc] : Watched(acc, k)

AllJudged ==
    Undisturbed => \A acc \in Accounts : kvs[acc] # NoRecord => Judged(acc)

SilentInv == IInv /\ Clock /\ Hands /\ Copies /\ AllWatched /\ AllJudged
-----------------------------------------------------------------------------
(* Stamps, the clock and the tasks of a keep-alive *)

LEMMA ClockKept ==
    ASSUME IInv, Clock, [Next]_vars
    PROVE  Clock'
<1>1. /\ now \in Nat /\ keepDue \in [Nodes -> Nat] /\ dealDue \in [Nodes -> Nat]
      /\ {KeepAlivePeriod, DealPeriod} \subseteq Nat
  BY AccountAssumption DEF IInv, TypeOK
<1>2. \A n \in Nodes : IsManager(mgr[n])
  BY DEF IInv, TypeOK
<1>3. mgr \in [Nodes -> {mgr[n] : n \in Nodes}]
  BY DEF IInv, TypeOK
<1>4. ASSUME NEW n \in Nodes, KeepAliveGet(n) \/ KeepAliveInvalid(n) \/ KeepAliveFails(n)
      PROVE  Clock'
  <2>1. /\ now' = now /\ NextDue(n) /\ (mgr[n].pc \in {"keepalive", "write"} \/ KeepAliveDue(n))
        /\ \A m \in Nodes : m # n => mgr'[m] = mgr[m]
    BY <1>3, <1>4 DEF KeepAliveGet, KeepAliveInvalid, KeepAliveFails, Rest
  <2>2. KeepAliveDue(n) \/ Running(n)
    BY <2>1 DEF Running
  <2>3. ASSUME NEW m \in Nodes PROVE
            /\ keepDue'[m] <= now + KeepAlivePeriod /\ dealDue'[m] <= now + DealPeriod
            /\ Running(m)' => now <= keepDue'[m] /\ now <= dealDue'[m]
    <3>1. CASE m # n
      BY <1>1, <2>1, <3>1 DEF Clock, Running, NextDue
    <3>2. CASE m = n /\ KeepAliveDue(n)
      <4>1. keepDue'[m] = now + KeepAlivePeriod
        BY <1>1, <2>1, <3>2 DEF NextDue
      <4>2. dealDue'[m] = IF mgr[n].pc = "starting" THEN now + DealPeriod ELSE dealDue[n]
        BY <1>1, <2>1, <3>2 DEF NextDue
      <4>3. mgr[n].pc = "starting" \/ Running(n)
        BY <3>2 DEF KeepAliveDue, Running
      <4>4. QED BY <1>1, <3>2, <4>1, <4>2, <4>3 DEF Clock
    <3>3. CASE m = n /\ ~ KeepAliveDue(n)
      <4>1. Running(n) /\ mgr[n].pc # "starting"
        BY <2>2, <3>3 DEF KeepAliveDue
      <4>2. keepDue' = keepDue /\ dealDue' = dealDue
        BY <2>1, <3>3, <4>1 DEF NextDue
      <4>3. QED BY <1>1, <3>3, <4>1, <4>2 DEF Clock
    <3>4. QED BY <3>1, <3>2, <3>3
  <2>4. QED BY <2>1, <2>3 DEF Clock
<1>5. ASSUME NEW n \in Nodes, KeepAliveSet(n) \/ DealRecord(n) \/ DealFails(n)
      PROVE  Clock'
  <2>1. /\ now' = now /\ UNCHANGED tickers /\ Running(n)
        /\ \A m \in Nodes : m # n => mgr'[m] = mgr[m]
    BY <1>3, <1>5 DEF KeepAliveSet, DealRecord, DealFails, Rest, Running
  <2>2. \A m \in Nodes : Running(m)' => Running(m)
    BY <2>1 DEF Running
  <2>3. QED BY <2>1, <2>2 DEF Clock, tickers
<1>6. ASSUME NEW n \in Nodes, Deal(n) PROVE Clock'
  <2>1. /\ now' = now /\ keepDue' = keepDue /\ dealDue' = [dealDue EXCEPT ![n] = now + DealPeriod]
        /\ Running(n) /\ \A m \in Nodes : m # n => mgr'[m] = mgr[m]
    BY <1>3, <1>6 DEF Deal, Running
  <2>2. \A m \in Nodes : Running(m)' => Running(m)
    BY <2>1 DEF Running
  <2>3. QED BY <1>1, <2>1, <2>2 DEF Clock
<1>7. ASSUME NEW n \in Nodes, NodeStarts(n) \/ NodeLeaves(n) PROVE Clock'
  <2>1. now' = now /\ UNCHANGED tickers /\ \A m \in Nodes : m # n => mgr'[m] = mgr[m]
    BY <1>3, <1>7 DEF NodeStarts, NodeLeaves
  <2>2. mgr'[n].pc \in {"down", "starting"}
    BY <1>2, <1>3, <1>7 DEF NodeStarts, NodeLeaves, Down, IsManager
  <2>3. \A m \in Nodes : Running(m)' => Running(m)
    BY <2>1, <2>2 DEF Running
  <2>4. QED BY <2>1, <2>3 DEF Clock, tickers
<1>8. ASSUME Tick PROVE Clock'
  <2>1. now' = now + 1 /\ UNCHANGED <<mgr, tickers>> /\ \A n \in Nodes : Punctual(n)
    BY <1>8 DEF Tick
  <2>2. \A n \in Nodes : Running(n) => now < keepDue[n] /\ now < dealDue[n]
    BY <2>1 DEF Punctual, Running
  <2>3. ASSUME NEW n \in Nodes PROVE
            /\ keepDue[n] <= now + 1 + KeepAlivePeriod /\ dealDue[n] <= now + 1 + DealPeriod
            /\ Running(n) => now + 1 <= keepDue[n] /\ now + 1 <= dealDue[n]
    BY <1>1, <2>2 DEF Clock
  <2>4. QED BY <2>1, <2>3 DEF Clock, Running, tickers
<1>9. ASSUME NEW acc \in Accounts, HolderMoves(acc) PROVE Clock'
  BY <1>9 DEF HolderMoves, Clock, Running, tickers
<1>10. CASE UNCHANGED vars
  BY <1>10 DEF vars, Clock, Running, tickers
<1>11. QED BY <1>4, <1>5, <1>6, <1>7, <1>8, <1>9, <1>10 DEF Next, NodeStep

LEMMA TasksKept ==
    ASSUME IInv, Tasks, [Next]_vars
    PROVE  Tasks'
<1>1. mgr \in [Nodes -> {mgr[n] : n \in Nodes}] /\ \A n \in Nodes : IsManager(mgr[n])
  BY DEF IInv, TypeOK
<1>2. Idle.pc = "idle" /\ Down.pc = "down"
  BY DEF Idle, Down
<1>3. ASSUME NEW n \in Nodes, NodeStep(n) PROVE Tasks'
  <2>1. \A m \in Nodes : m # n => mgr'[m] = mgr[m]
    BY <1>1, <1>3 DEF NodeStep, KeepAliveGet, KeepAliveInvalid, KeepAliveSet, KeepAliveFails,
                      Deal, DealRecord, DealFails, NodeStarts, NodeLeaves, Rest
  <2>2. SUFFICES mgr'[n].pc \in {"keepalive", "write"} => mgr'[n].todo \subseteq Owners(n)
    BY <2>1 DEF Tasks
  <2>3. CASE KeepAliveGet(n)
    <3>1. mgr'[n].todo = ToUpdate(n)
      BY <1>1, <2>3 DEF KeepAliveGet, IsManager
    <3>2. QED BY <3>1 DEF ToUpdate, Owners, Tasks
  <2>4. CASE KeepAliveSet(n)
    <3>1. mgr'[n] = Idle \/ mgr'[n].todo \subseteq mgr[n].todo
      BY <1>1, <2>4 DEF KeepAliveSet, Rest, IsManager
    <3>2. mgr[n].pc = "write"
      BY <2>4 DEF KeepAliveSet
    <3>3. QED BY <1>2, <3>1, <3>2 DEF Tasks
  <2>5. CASE KeepAliveInvalid(n) \/ KeepAliveFails(n) \/ DealFails(n)
    BY <1>1, <1>2, <2>5 DEF KeepAliveInvalid, KeepAliveFails, DealFails, Rest
  <2>6. CASE Deal(n) \/ NodeStarts(n) \/ NodeLeaves(n)
    <3>1. ASSUME Deal(n) PROVE mgr'[n].pc \in {"idle", "deal"}
      BY <1>1, <3>1 DEF Deal, Idle, Down
    <3>2. ASSUME NodeStarts(n) PROVE mgr'[n].pc = "starting"
      BY <1>1, <3>2 DEF NodeStarts, IsManager
    <3>3. ASSUME NodeLeaves(n) PROVE mgr'[n].pc = "down"
      BY <1>1, <1>2, <3>3 DEF NodeLeaves
    <3>4. QED BY <2>6, <3>1, <3>2, <3>3
  <2>7. CASE DealRecord(n)
    <3>1. mgr'[n].pc \in {"idle", "deal"}
      BY <1>1, <1>2, <2>7 DEF DealRecord, Rest, IsManager
    <3>2. QED BY <3>1
  <2>8. QED BY <1>3, <2>3, <2>4, <2>5, <2>6, <2>7 DEF NodeStep
<1>4. CASE Tick \/ UNCHANGED vars \/ \E acc \in Accounts : HolderMoves(acc)
  BY <1>4 DEF Tick, HolderMoves, vars, Tasks, Owners
<1>5. QED BY <1>3, <1>4 DEF Next

LEMMA CheckedSeesLater ==
    ASSUME now \in Nat, NEW log, IsLog(log), SeenLater(log),
           NEW record, IsRecord(record), Stamped(record, now)
    PROVE  SeenLater(Checked(log, record))
<1> DEFINE changed == Changed(log, record)
           kept == (DOMAIN log.entries \cup changed) \ Forgotten(log, record)
           entries == [k \in kept |-> IF k \in changed THEN [seen |-> now, stamp |-> record[k]]
                                      ELSE log.entries[k]]
<1>1. Checked(log, record).entries = entries
  BY DEF Checked
<1>2. changed \subseteq DOMAIN record
  BY DEF Changed
<1>3. ASSUME NEW k \in kept PROVE entries[k].stamp <= entries[k].seen
  <2>1. CASE k \in changed
    BY <1>2, <2>1 DEF Stamped
  <2>2. CASE k \notin changed
    BY <1>3, <2>2 DEF SeenLater
  <2>3. QED BY <2>1, <2>2
<1> HIDE DEF changed
<1>4. DOMAIN entries = kept
  OBVIOUS
<1> HIDE DEF kept, entries
<1>5. QED BY <1>1, <1>3, <1>4 DEF SeenLater

(* The logs of a node after Check *)
LEMMA CheckedLogs ==
    ASSUME IInv, NEW n \in Nodes, NEW acc \in Accounts, Check(n, acc)
    PROVE  /\ logs'[n][acc] = Checked(LogOf(n, acc), mgr[n].resources[acc])
           /\ \A other \in Accounts \ {acc} : logs'[n][other] = Cleaned(logs[n][other])
           /\ \A m \in Nodes \ {n} : logs'[m] = logs[m]
BY DEF IInv, TypeOK, Check

LEMMA CheckStamps ==
    ASSUME IInv, Stamps, NEW n \in Nodes, NEW acc \in DOMAIN mgr[n].resources, Check(n, acc),
           NEW m \in Nodes, NEW o \in Accounts, logs'[m][o] # NoLog
    PROVE  SeenLater(logs'[m][o])
<1>1. /\ acc \in Accounts /\ IsRecord(mgr[n].resources[acc]) /\ now \in Nat
      /\ Stamped(mgr[n].resources[acc], now)
  BY DEF IInv, TypeOK, IsManager, Stamps, InHand
<1>2. CASE m = n /\ o = acc
  <2>1. IsLog(LogOf(n, acc))
    BY <1>1, LogOfGood
  <2>2. SeenLater(LogOf(n, acc))
    <3>1. CASE logs[n][acc] = NoLog
      <4>1. LogOf(n, acc).entries = <<>> /\ DOMAIN <<>> = {}
        BY <3>1 DEF LogOf
      <4>2. QED BY <4>1 DEF SeenLater
    <3>2. CASE logs[n][acc] # NoLog
      BY <1>1, <3>2 DEF LogOf, Stamps
    <3>3. QED BY <3>1, <3>2
  <2>3. logs'[m][o] = Checked(LogOf(n, acc), mgr[n].resources[acc])
    BY <1>1, <1>2, CheckedLogs
  <2>4. QED BY <1>1, <2>1, <2>2, <2>3, CheckedSeesLater
<1>3. CASE ~ (m = n /\ o = acc)
  <2>1. logs'[m][o] \in {NoLog, logs[m][o]}
    BY <1>1, <1>3, CheckedLogs DEF Cleaned
  <2>2. QED BY <2>1 DEF Stamps
<1>4. QED BY <1>2, <1>3

(* What the manager of n does leaves the others alone. *)
LEMMA OthersStay ==
    ASSUME IInv, NEW n \in Nodes, NodeStep(n), NEW m \in Nodes, m # n
    PROVE  mgr'[m] = mgr[m]
BY DEF IInv, TypeOK, NodeStep, KeepAliveGet, KeepAliveInvalid, KeepAliveSet, KeepAliveFails,
       Deal, DealRecord, DealFails, NodeStarts, NodeLeaves, Rest

(* A record after a write of a keep-alive *)
LEMMA MergedStamps ==
    ASSUME IInv, Stamps, NEW n \in Nodes
    PROVE  Stamped(Merge(mgr[n].copy, Alive(n)), now)
<1>1. now \in Nat /\ \A k \in DOMAIN Alive(n) : Alive(n)[k] = now
  BY DEF IInv, TypeOK, Alive
<1>2. mgr[n].copy # NoRecord => Stamped(mgr[n].copy, now)
  BY DEF Stamps, InHand
<1>3. QED BY <1>1, <1>2 DEF Merge, Stamped

LEMMA DealtStamps ==
    ASSUME IInv, Stamps, NEW n \in Nodes, NEW acc \in DOMAIN mgr[n].resources, Dealt(n, acc) # NoRecord
    PROVE  Stamped(Dealt(n, acc), now)
<1>1. Stamped(mgr[n].resources[acc], now)
  BY DEF Stamps, InHand
<1>2. QED BY <1>1 DEF Dealt, Restrict, Stamped

LEMMA IdleInHand == \A t : InHand(Idle, t) /\ InHand(Down, t)
<1>1. Idle.copy = NoRecord /\ Down.copy = NoRecord /\ DOMAIN Idle.resources = {} /\ DOMAIN Down.resources = {}
  BY DEF Idle, Down
<1>2. QED BY <1>1 DEF InHand

LEMMA StampsKept ==
    ASSUME IInv, Stamps, [Next]_vars
    PROVE  Stamps'
<1>1. /\ now \in Nat /\ mgr \in [Nodes -> {mgr[n] : n \in Nodes}] /\ \A n \in Nodes : IsManager(mgr[n])
      /\ kvs \in [Accounts -> {kvs[acc] : acc \in Accounts}]
      /\ \A acc \in Accounts : kvs[acc] # NoRecord => IsRecord(kvs[acc])
  BY DEF IInv, TypeOK
<1>2. ASSUME NEW n \in Nodes, NodeStep(n), now' = now,
             \A acc \in Accounts : kvs'[acc] # NoRecord => Stamped(kvs'[acc], now),
             InHand(mgr'[n], now),
             \A m \in Nodes, acc \in Accounts : logs'[m][acc] # NoLog => SeenLater(logs'[m][acc])
      PROVE  Stamps'
  <2>1. \A m \in Nodes : InHand(mgr'[m], now)
    BY <1>2, OthersStay DEF Stamps
  <2>2. QED BY <1>2, <2>1 DEF Stamps
<1>3. ASSUME NEW n \in Nodes, NodeStep(n) PROVE Stamps'
  <2>1. CASE KeepAliveGet(n)
    <3>1. InHand(mgr'[n], now)
      <4>1. PICK acc \in Accounts :
                mgr' = [mgr EXCEPT ![n] = [mgr[n] EXCEPT !.pc = "write", !.todo = ToUpdate(n),
                                                         !.acc = acc, !.copy = kvs[acc]]]
        BY <2>1 DEF KeepAliveGet
      <4>2. mgr'[n].copy = kvs[acc] /\ mgr'[n].resources = mgr[n].resources
        BY <1>1, <4>1 DEF IsManager
      <4>3. QED BY <4>2 DEF Stamps, InHand
    <3>2. now' = now /\ kvs' = kvs /\ logs' = logs
      BY <2>1 DEF KeepAliveGet
    <3>3. QED BY <1>2, <1>3, <3>1, <3>2 DEF Stamps
  <2>2. CASE KeepAliveInvalid(n) \/ KeepAliveFails(n)
    <3>1. mgr'[n] = Idle /\ now' = now /\ kvs' = kvs /\ logs' = logs
      BY <1>1, <2>2 DEF KeepAliveInvalid, KeepAliveFails, Rest
    <3>2. QED BY <1>2, <1>3, <3>1, IdleInHand DEF Stamps
  <2>3. CASE KeepAliveSet(n)
    <3>1. /\ mgr[n].acc \in Accounts /\ now' = now /\ logs' = logs
          /\ kvs' = [kvs EXCEPT ![mgr[n].acc] = Merge(mgr[n].copy, Alive(n))]
      BY <1>1, <2>3 DEF KeepAliveSet, Writes, IsManager
    <3>2. mgr'[n] = Idle \/ (mgr'[n].copy = NoRecord /\ mgr'[n].resources = mgr[n].resources)
      BY <1>1, <2>3 DEF KeepAliveSet, Rest, IsManager
    <3>3. InHand(mgr'[n], now)
      BY <3>2, IdleInHand DEF Stamps, InHand
    <3>4. \A acc \in Accounts : kvs'[acc] # NoRecord => Stamped(kvs'[acc], now)
      BY <1>1, <3>1, MergedStamps DEF Stamps
    <3>5. QED BY <1>2, <1>3, <3>1, <3>3, <3>4 DEF Stamps
  <2>4. CASE Deal(n)
    <3>1. /\ now' = now /\ kvs' = kvs /\ logs' = logs
          /\ mgr'[n] = IF Local(n) = {} THEN Idle
                       ELSE [Idle EXCEPT !.pc = "deal", !.resources = [acc \in Local(n) |-> kvs[acc]]]
      BY <1>1, <2>4 DEF Deal
    <3>2. \A acc \in Local(n) : Stamped(kvs[acc], now)
      BY DEF Local, Stamps
    <3>3. InHand(mgr'[n], now)
      <4>1. CASE Local(n) = {}
        BY <3>1, <4>1, IdleInHand
      <4>2. CASE Local(n) # {}
        <5>1. mgr'[n].copy = NoRecord /\ mgr'[n].resources = [acc \in Local(n) |-> kvs[acc]]
          BY <3>1, <4>2 DEF Idle, Down
        <5>2. QED BY <3>2, <5>1 DEF InHand
      <4>3. QED BY <4>1, <4>2
    <3>4. QED BY <1>2, <1>3, <3>1, <3>3 DEF Stamps
  <2>5. CASE DealRecord(n)
    <3>1. PICK acc \in DOMAIN mgr[n].resources :
              LET record == mgr[n].resources[acc] IN
              /\ Check(n, acc)
              /\ IF Dealt(n, acc) = record THEN UNCHANGED <<kvs, used>>
                 ELSE Writes(acc, record, Dealt(n, acc))
              /\ IF DOMAIN mgr[n].resources = {acc}
                 THEN Rest(n)
                 ELSE mgr' = [mgr EXCEPT ![n].resources = Restrict(@, DOMAIN @ \ {acc})]
              /\ now' = now
      BY <2>5 DEF DealRecord
    <3>2. acc \in Accounts
      BY <1>1 DEF IsManager
    <3>3. \A o \in Accounts : kvs'[o] # NoRecord => Stamped(kvs'[o], now)
      BY <1>1, <3>1, <3>2, DealtStamps DEF Writes, Stamps
    <3>4. \/ mgr'[n] = Idle
          \/ mgr'[n].copy = mgr[n].copy
             /\ mgr'[n].resources = Restrict(mgr[n].resources, DOMAIN mgr[n].resources \ {acc})
      BY <1>1, <3>1 DEF Rest, IsManager
    <3>5. InHand(mgr'[n], now)
      BY <3>4, IdleInHand DEF Stamps, InHand, Restrict
    <3>6. QED BY <1>2, <1>3, <3>1, <3>3, <3>5, CheckStamps
  <2>6. CASE DealFails(n)
    <3>1. PICK acc \in DOMAIN mgr[n].resources : Check(n, acc) /\ Rest(n) /\ now' = now /\ kvs' = kvs
      BY <2>6 DEF DealFails
    <3>2. InHand(mgr'[n], now)
      BY <1>1, <3>1, IdleInHand DEF Rest
    <3>3. QED BY <1>2, <1>3, <3>1, <3>2, CheckStamps DEF Stamps
  <2>7. CASE NodeStarts(n)
    <3>1. /\ now' = now /\ kvs' = kvs /\ logs' = logs
          /\ mgr'[n].copy = mgr[n].copy /\ mgr'[n].resources = mgr[n].resources
      BY <1>1, <2>7 DEF NodeStarts, IsManager
    <3>2. QED BY <1>2, <1>3, <3>1 DEF Stamps, InHand
  <2>8. CASE NodeLeaves(n)
    <3>1. /\ now' = now /\ kvs' = kvs /\ mgr'[n] = Down
          /\ \A m \in Nodes, acc \in Accounts : logs'[m][acc] \in {NoLog, logs[m][acc]}
      BY <1>1, <2>8 DEF NodeLeaves, IInv, TypeOK
    <3>2. QED BY <1>2, <1>3, <3>1, IdleInHand DEF Stamps
  <2>9. QED BY <1>3, <2>1, <2>2, <2>3, <2>4, <2>5, <2>6, <2>7, <2>8 DEF NodeStep
<1>4. CASE Tick
  <2>1. now' = now + 1 /\ UNCHANGED <<kvs, mgr, logs>>
    BY <1>4 DEF Tick
  <2>2. ASSUME NEW r, IsRecord(r), Stamped(r, now) PROVE Stamped(r, now + 1)
    BY <1>1, <2>2 DEF IsRecord, Stamped
  <2>3. \A n \in Nodes : InHand(mgr[n], now + 1)
    BY <1>1, <2>2 DEF Stamps, InHand, IsManager
  <2>4. \A acc \in Accounts : kvs[acc] # NoRecord => Stamped(kvs[acc], now + 1)
    BY <1>1, <2>2 DEF Stamps
  <2>5. QED BY <2>1, <2>3, <2>4 DEF Stamps
<1>5. CASE UNCHANGED vars \/ \E acc \in Accounts : HolderMoves(acc)
  BY <1>5 DEF HolderMoves, vars, Stamps
<1>6. QED BY <1>3, <1>4, <1>5 DEF Next

-----------------------------------------------------------------------------
(* The node that keeps alive is listed *)

LEMMA Calm == ASSUME IInv, [Next]_vars, Undisturbed' PROVE Undisturbed
<1>1. used \in [Counters -> Nat] /\ "mishaps" \in Counters
  BY DEF IInv, TypeOK, Counters
<1>2. used' = used \/ \E event \in Counters : Spend(event)
  BY DEF Next, NodeStep, Tick, KeepAliveGet, KeepAliveInvalid, KeepAliveSet, KeepAliveFails, Deal,
         DealRecord, DealFails, NodeStarts, NodeLeaves, HolderMoves, Writes, Counters, vars
<1>3. QED BY <1>1, <1>2 DEF Undisturbed, Spend

LEMMA NoMishap == ASSUME IInv, Spend("mishaps"), Undisturbed' PROVE FALSE
<1>1. used \in [Counters -> Nat] /\ "mishaps" \in Counters
  BY DEF IInv, TypeOK, Counters
<1>2. used'["mishaps"] = used["mishaps"] + 1 /\ used["mishaps"] \in Nat
  BY <1>1 DEF Spend
<1>3. QED BY <1>2 DEF Undisturbed

(* Undisturbed, who writes a record has read it as it is. *)
LEMMA CalmWrites ==
    ASSUME IInv, NEW acc, NEW copy, NEW record, Writes(acc, copy, record), Undisturbed'
    PROVE  kvs[acc] = copy /\ kvs' = [kvs EXCEPT ![acc] = record]
BY NoMishap DEF Writes

LEMMA RecordIs == ASSUME NEW r, IsRecord(r) PROVE r # NoRecord
BY AccountAssumption DEF IsRecord

LEMMA MergeIs == ASSUME IInv, NEW n \in Nodes PROVE Merge(mgr[n].copy, Alive(n)) # NoRecord
<1>1. (mgr[n].copy # NoRecord => IsRecord(mgr[n].copy)) /\ now \in Nat
  BY DEF IInv, TypeOK, IsManager
<1>2. QED BY <1>1, AliveGood, MergeGood, RecordIs

(* A node whose entry is as young as its ticker is not expired for any      *)
(* holder that deals with the record as it is.                              *)
LEMMA YoungStays ==
    ASSUME KeepAlivePeriod <= ResourceLifetime, LiveInv, NEW n \in Nodes, Wrote(n), ListedSince(n),
           NEW m \in Nodes, NEW acc \in DOMAIN mgr[m].resources, acc = AccountOf[n],
           mgr[m].resources[acc] = kvs[acc]
    PROVE  /\ Dealt(m, acc) # NoRecord /\ n \in DOMAIN Dealt(m, acc)
           /\ Dealt(m, acc)[n] = kvs[acc][n]
<1> DEFINE record == mgr[m].resources[acc]
           log == LogOf(m, acc)
<1>1. /\ acc \in Accounts /\ IsRecord(record) /\ now \in Nat /\ keepDue[n] \in Nat
      /\ {KeepAlivePeriod, ResourceLifetime} \subseteq Nat
  BY AccountAssumption DEF LiveInv, IInv, TypeOK, IsManager
<1>2. n \in DOMAIN record /\ now <= keepDue[n] /\ keepDue[n] <= record[n] + KeepAlivePeriod
  BY DEF ListedSince, Listed, LiveInv, Clock, Wrote, Running
<1>3. record[n] \in Nat
  BY <1>1, <1>2 DEF IsRecord
<1>4. IsLog(log) /\ SeenLater(log)
  <2>1. IsLog(log)
    BY <1>1, LogOfGood DEF LiveInv
  <2>2. CASE logs[m][acc] = NoLog
    <3>1. log.entries = <<>> /\ DOMAIN <<>> = {}
      BY <2>2 DEF LogOf
    <3>2. QED BY <2>1, <3>1 DEF SeenLater
  <2>3. CASE logs[m][acc] # NoLog
    BY <1>1, <2>1, <2>3 DEF LogOf, LiveInv, Stamps
  <2>4. QED BY <2>2, <2>3
<1> HIDE DEF log
<1>5. n \notin Expired(log, record)
  <2>1. SUFFICES ASSUME n \in Expired(log, record) PROVE FALSE
    OBVIOUS
  <2>2. /\ n \in DOMAIN log.entries /\ log.entries[n].stamp = record[n]
        /\ now > log.entries[n].seen + ResourceLifetime
    BY <2>1 DEF Expired, Changed
  <2>3. log.entries[n].seen \in Nat /\ log.entries[n].stamp <= log.entries[n].seen
    BY <1>4, <2>2 DEF IsLog, SeenLater
  <2>4. QED BY <1>1, <1>2, <1>3, <2>2, <2>3
<1>6. ~ Outdated(m, acc)
  BY <1>2, OutdatedIsEmpty DEF LiveInv
<1>7. Dealt(m, acc) = Restrict(record, DOMAIN record \ Expired(log, record))
  BY <1>6 DEF Dealt, log
<1>8. IsRecord(Dealt(m, acc))
  BY <1>1, <1>7 DEF Restrict, IsRecord
<1>9. QED BY <1>2, <1>5, <1>7, <1>8, RecordIs DEF Restrict

LEMMA DealKeepsListed ==
    ASSUME KeepAlivePeriod <= ResourceLifetime, LiveInv, Undisturbed', NEW n \in Nodes, Wrote(n),
           ~ Unread(n), keepDue'[n] = keepDue[n], NEW m \in Nodes, DealRecord(m), Undisturbed
    PROVE  ListedSince(n)'
<1>1. /\ IInv /\ IsManager(mgr[m]) /\ kvs \in [Accounts -> {kvs[acc] : acc \in Accounts}]
      /\ AccountOf[n] \in Accounts
  BY AccountAssumption DEF LiveInv, IInv, TypeOK
<1>2. ListedSince(n)
  BY DEF LiveInv, Fresh
<1>3. PICK acc \in DOMAIN mgr[m].resources :
          LET record == mgr[m].resources[acc] IN
          IF Dealt(m, acc) = record THEN UNCHANGED <<kvs, used>>
          ELSE Writes(acc, record, Dealt(m, acc))
  BY DEF DealRecord
<1>4. acc \in Accounts
  BY <1>1 DEF IsManager
<1>5. CASE kvs' = kvs \/ acc # AccountOf[n]
  <2>1. kvs'[AccountOf[n]] = kvs[AccountOf[n]]
    BY <1>1, <1>3, <1>4, <1>5 DEF Writes
  <2>2. QED BY <1>2, <2>1 DEF ListedSince, Listed
<1>6. CASE kvs' # kvs /\ acc = AccountOf[n]
  <2>1. Writes(acc, mgr[m].resources[acc], Dealt(m, acc))
    BY <1>3, <1>6
  <2>2. kvs[acc] = mgr[m].resources[acc] /\ kvs'[acc] = Dealt(m, acc)
    BY <1>1, <1>4, <2>1, CalmWrites
  <2>3. /\ Dealt(m, acc) # NoRecord /\ n \in DOMAIN Dealt(m, acc)
        /\ Dealt(m, acc)[n] = kvs[acc][n]
    BY <1>2, <1>6, <2>2, YoungStays
  <2>4. QED BY <1>2, <1>6, <2>2, <2>3 DEF ListedSince, Listed
<1>7. QED BY <1>5, <1>6

(* The entry of a node is written with its ticker, and left by the others. *)
LEMMA FreshKept ==
    ASSUME KeepAlivePeriod <= ResourceLifetime, LiveInv, [Next]_vars
    PROVE  Fresh'
<1>1. /\ now \in Nat /\ mgr \in [Nodes -> {mgr[n] : n \in Nodes}] /\ \A n \in Nodes : IsManager(mgr[n])
      /\ kvs \in [Accounts -> {kvs[acc] : acc \in Accounts}]
      /\ keepDue \in [Nodes -> Nat] /\ KeepAlivePeriod \in Nat
      /\ AccountOf \in [Nodes -> Accounts] /\ NoAccount \notin Accounts /\ Nodes \cap Pods = {}
      /\ PodsAt \in [Nodes -> SUBSET Pods]
  BY AccountAssumption DEF LiveInv, IInv, TypeOK
<1>2. IInv /\ Clock /\ Tasks /\ Fresh
  BY DEF LiveInv
<1>3. Idle.pc = "idle" /\ Down.pc = "down"
  BY DEF Idle, Down
<1>4. SUFFICES ASSUME Undisturbed', NEW n \in Nodes, Wrote(n)', ~ Unread(n) PROVE ListedSince(n)'
  BY DEF Fresh, Unread
<1> DEFINE mine == AccountOf[n]
<1>5. Undisturbed /\ mine \in Accounts
  BY <1>1, <1>2, <1>4, Calm
<1>6. ASSUME Wrote(n), kvs'[mine] = kvs[mine], keepDue'[n] = keepDue[n] PROVE ListedSince(n)'
  BY <1>2, <1>4, <1>5, <1>6 DEF Fresh, ListedSince, Listed
<1>7. NoAccount \notin Owners(n)
  BY <1>1, <1>4 DEF Owners, Unread
<1>8. ASSUME NodeStep(n) PROVE ListedSince(n)'
  <2>1. CASE KeepAliveGet(n)
    <3>1. mgr'[n].pc = "write" /\ mgr'[n].todo = ToUpdate(n)
      BY <1>1, <2>1 DEF KeepAliveGet, IsManager
    <3>2. mine \notin ToUpdate(n)
      BY <1>4, <3>1 DEF Wrote
    <3>3. mgr[n].pc = "keepalive" /\ mine \notin mgr[n].todo
      BY <3>2 DEF ToUpdate
    <3>4. keepDue'[n] = keepDue[n] /\ kvs' = kvs
      BY <2>1, <3>3 DEF KeepAliveGet, NextDue, KeepAliveDue
    <3>5. QED BY <1>6, <3>3, <3>4 DEF Wrote
  <2>2. CASE KeepAliveInvalid(n)
    <3>1. NoAccount \in ToUpdate(n) /\ ToUpdate(n) \subseteq Owners(n)
      BY <1>2, <2>2 DEF KeepAliveInvalid, ToUpdate, Owners, Tasks
    <3>2. QED BY <1>7, <3>1
  <2>3. CASE KeepAliveFails(n) \/ DealFails(n)
    BY <1>2, <1>4, <2>3, NoMishap DEF KeepAliveFails, DealFails
  <2>4. CASE KeepAliveSet(n)
    <3>1. /\ mgr[n].pc = "write" /\ mgr[n].acc \in Accounts /\ keepDue' = keepDue /\ now' = now
          /\ Writes(mgr[n].acc, mgr[n].copy, Merge(mgr[n].copy, Alive(n)))
      BY <1>1, <2>4 DEF KeepAliveSet, IsManager, tickers
    <3>2. kvs' = [kvs EXCEPT ![mgr[n].acc] = Merge(mgr[n].copy, Alive(n))]
      BY <3>1 DEF Writes
    <3>3. CASE mgr[n].acc = mine
      <4>1. n \in DOMAIN Alive(n) /\ Alive(n)[n] = now
        BY <3>3 DEF Alive
      <4>2. kvs'[mine] = Merge(mgr[n].copy, Alive(n))
        BY <1>1, <1>5, <3>2, <3>3
      <4>3. n \in DOMAIN kvs'[mine] /\ kvs'[mine][n] = now
        BY <4>1, <4>2 DEF Merge
      <4>4. kvs'[mine] # NoRecord
        BY <1>2, <4>2, MergeIs
      <4>5. keepDue'[n] <= now + KeepAlivePeriod
        BY <1>2, <3>1 DEF Clock
      <4>6. QED BY <4>3, <4>4, <4>5 DEF ListedSince, Listed
    <3>4. CASE mgr[n].acc # mine
      <4>1. kvs'[mine] = kvs[mine]
        BY <1>1, <1>5, <3>2, <3>4
      <4>2. mine \notin mgr[n].todo
        <5>1. CASE mgr[n].todo = {mgr[n].acc}
          BY <3>4, <5>1
        <5>2. CASE mgr[n].todo # {mgr[n].acc}
          <6>1. mgr'[n].pc = "keepalive" /\ mgr'[n].todo = mgr[n].todo \ {mgr[n].acc}
            BY <1>1, <2>4, <5>2 DEF KeepAliveSet, IsManager
          <6>2. QED BY <1>4, <3>4, <6>1 DEF Wrote
        <5>3. QED BY <5>1, <5>2
      <4>3. QED BY <1>6, <3>1, <4>1, <4>2 DEF Wrote
    <3>5. QED BY <3>3, <3>4
  <2>5. CASE Deal(n)
    BY <1>6, <2>5 DEF Deal, Wrote
  <2>6. CASE NodeStarts(n) \/ NodeLeaves(n)
    <3>1. ASSUME NodeStarts(n) PROVE mgr'[n].pc = "starting"
      BY <1>1, <3>1 DEF NodeStarts, IsManager
    <3>2. ASSUME NodeLeaves(n) PROVE mgr'[n].pc = "down"
      BY <1>1, <1>3, <3>2 DEF NodeLeaves
    <3>3. QED BY <1>4, <2>6, <3>1, <3>2 DEF Wrote
  <2>7. CASE DealRecord(n)
    <3>1. Wrote(n) /\ keepDue' = keepDue
      BY <2>7 DEF DealRecord, Wrote, tickers
    <3>2. QED BY <3>1, <1>4, <1>5, <2>7, DealKeepsListed
  <2>8. QED BY <1>8, <2>1, <2>2, <2>3, <2>4, <2>5, <2>6, <2>7 DEF NodeStep
<1>9. ASSUME NEW m \in Nodes, m # n, NodeStep(m) PROVE ListedSince(n)'
  <2>1. mgr'[n] = mgr[n] /\ Wrote(n)
    BY <1>2, <1>4, <1>9, OthersStay DEF Wrote
  <2>2. keepDue'[n] = keepDue[n]
    BY <1>1, <1>9 DEF NodeStep, KeepAliveGet, KeepAliveInvalid, KeepAliveSet, KeepAliveFails, Deal,
        DealRecord, DealFails, NodeStarts, NodeLeaves, NextDue, tickers
  <2>3. CASE KeepAliveSet(m)
    <3>1. /\ mgr[m].acc \in Accounts
          /\ Writes(mgr[m].acc, mgr[m].copy, Merge(mgr[m].copy, Alive(m)))
      BY <1>1, <2>3 DEF KeepAliveSet, IsManager
    <3>2. /\ kvs[mgr[m].acc] = mgr[m].copy
          /\ kvs' = [kvs EXCEPT ![mgr[m].acc] = Merge(mgr[m].copy, Alive(m))]
      BY <1>2, <1>4, <3>1, CalmWrites
    <3>3. CASE mgr[m].acc = mine
      <4>1. ListedSince(n)
        BY <1>2, <1>4, <1>5, <2>1 DEF Fresh
      <4>2. n \notin DOMAIN Alive(m)
        BY <1>1, <1>9 DEF Alive
      <4>3. kvs'[mine] = Merge(kvs[mine], Alive(m))
        BY <1>1, <1>5, <3>2, <3>3
      <4>4. n \in DOMAIN kvs'[mine] /\ kvs'[mine][n] = kvs[mine][n]
        BY <4>1, <4>2, <4>3 DEF Merge, ListedSince, Listed
      <4>5. kvs'[mine] # NoRecord
        BY <1>2, <1>5, <3>2, <3>3, <4>3, MergeIs
      <4>6. QED BY <2>2, <4>1, <4>4, <4>5 DEF ListedSince, Listed
    <3>4. CASE mgr[m].acc # mine
      <4>1. kvs'[mine] = kvs[mine]
        BY <1>1, <1>5, <3>2, <3>4
      <4>2. QED BY <1>6, <2>1, <2>2, <4>1
    <3>5. QED BY <3>3, <3>4
  <2>4. CASE DealRecord(m)
    BY <1>4, <1>5, <2>1, <2>2, <2>4, DealKeepsListed
  <2>5. CASE ~ (KeepAliveSet(m) \/ DealRecord(m))
    <3>1. kvs' = kvs
      BY <1>9, <2>5 DEF NodeStep, KeepAliveGet, KeepAliveInvalid, KeepAliveFails, Deal, DealFails,
                        NodeStarts, NodeLeaves
    <3>2. QED BY <1>6, <2>1, <2>2, <3>1
  <2>6. QED BY <2>3, <2>4, <2>5
<1>10. CASE Tick \/ UNCHANGED vars \/ \E acc \in Accounts : HolderMoves(acc)
  <2>1. kvs' = kvs /\ mgr' = mgr /\ keepDue' = keepDue
    BY <1>10 DEF Tick, HolderMoves, vars, tickers
  <2>2. QED BY <1>4, <1>6, <2>1 DEF Wrote
<1>11. QED BY <1>8, <1>9, <1>10 DEF Next

LEMMA LiveInit == Init => LiveInv
<1> SUFFICES ASSUME Init PROVE LiveInv
  OBVIOUS
<1>1. IInv
  BY InitGood
<1>2. {KeepAlivePeriod, DealPeriod} \subseteq Nat /\ now = 0
  BY AccountAssumption DEF Init
<1>3. \A n \in Nodes : /\ mgr[n].pc \in {"down", "starting"} /\ mgr[n].copy = NoRecord
                       /\ DOMAIN mgr[n].resources = {}
  BY DEF Init, Down
<1>4. Stamps
  BY <1>3 DEF Init, Stamps, InHand
<1>5. Clock
  BY <1>2, <1>3 DEF Init, Clock, Running
<1>6. Tasks /\ Fresh
  BY <1>3 DEF Tasks, Fresh, Wrote
<1>7. QED BY <1>1, <1>4, <1>5, <1>6 DEF LiveInv

(* A node that keeps alive stays listed in the record of its account: its   *)
(* entry was written when its ticker fired last, and whoever deals with the *)
(* record has seen it no earlier, so it is not expired before the ticker    *)
(* fires again, if a keep-alive comes at least once in a lifetime.          *)
THEOREM AliveAreListed ==
    ASSUME KeepAlivePeriod <= ResourceLifetime
    PROVE  Spec => []LiveListed
<1>1. LiveInv /\ [Next]_vars => LiveInv'
  BY Inductive, StampsKept, ClockKept, TasksKept, FreshKept DEF LiveInv
<1>2. LiveInv => LiveListed
  BY DEF LiveInv, Fresh, LiveListed, Wrote, ListedSince
<1>3. QED BY <1>1, <1>2, LiveInit, PTL DEF Spec

-----------------------------------------------------------------------------
(* What the holder of a record makes of the silent *)

(* A node deals with one of the records it got. *)
DealsWith(n, acc) ==
    /\ acc \in DOMAIN mgr[n].resources /\ mgr[n].pc = "deal"
    /\ Check(n, acc)
    /\ IF Dealt(n, acc) = mgr[n].resources[acc]
       THEN UNCHANGED <<kvs, used>>
       ELSE Writes(acc, mgr[n].resources[acc], Dealt(n, acc))
    /\ IF DOMAIN mgr[n].resources = {acc}
       THEN Rest(n)
       ELSE mgr' = [mgr EXCEPT ![n].resources = Restrict(@, DOMAIN @ \ {acc})]
    /\ UNCHANGED <<now, holder, tickers, history>>

LEMMA DealsWithOne == ASSUME NEW n, DealRecord(n) PROVE \E acc : DealsWith(n, acc)
BY DEF DealRecord, DealsWith

(* What a log says of a record after it was checked *)
LEMMA CheckedKnows ==
    ASSUME now \in Nat, NEW log, IsLog(log), NEW record, IsRecord(record)
    PROVE  LET new == Checked(log, record) IN
           /\ new.lastChecked = now
           /\ \A k \in DOMAIN record \ Expired(log, record) :
                /\ Knows(new, k, record[k])
                /\ \/ new.entries[k].seen = now /\ k \in Changed(log, record)
                   \/ /\ Knows(log, k, record[k]) /\ new.entries[k] = log.entries[k]
                      /\ now <= log.entries[k].seen + ResourceLifetime
           /\ \A k \in DOMAIN new.entries :
                \/ new.entries[k].seen = now /\ k \in Changed(log, record)
                \/ /\ k \in DOMAIN log.entries /\ new.entries[k] = log.entries[k]
                   /\ now <= log.entries[k].seen + 2 * ResourceLifetime
           /\ \/ new.lastUpdated = log.lastUpdated /\ Expired(log, record) = {}
              \/ /\ new.lastUpdated = now
                 /\ Changed(log, record) \cup Expired(log, record) \cup Forgotten(log, record) # {}
<1> DEFINE new == Checked(log, record)
           changed == Changed(log, record)
           gone == Forgotten(log, record)
           kept == (DOMAIN log.entries \cup changed) \ gone
           entries == [k \in kept |-> IF k \in changed THEN [seen |-> now, stamp |-> record[k]]
                                      ELSE log.entries[k]]
<1>1. /\ new.entries = entries /\ new.lastChecked = now
      /\ new.lastUpdated = IF changed \cup Expired(log, record) \cup gone = {} THEN log.lastUpdated ELSE now
  BY DEF Checked
<1>2. ResourceLifetime \in Nat
  BY AccountAssumption
<1>3. \A k \in DOMAIN log.entries : log.entries[k].seen \in Nat
  BY DEF IsLog
<1>4. ASSUME NEW k \in kept, k \notin changed
      PROVE  /\ k \in DOMAIN log.entries /\ entries[k] = log.entries[k]
             /\ now <= log.entries[k].seen + 2 * ResourceLifetime
  <2>1. k \in DOMAIN log.entries /\ entries[k] = log.entries[k]
    BY <1>4
  <2>2. ~ (now > log.entries[k].seen + 2 * ResourceLifetime)
    BY <1>4, <2>1 DEF Forgotten
  <2>3. QED BY <1>2, <1>3, <2>1, <2>2
<1>5. ASSUME NEW k \in kept, k \in changed PROVE entries[k] = [seen |-> now, stamp |-> record[k]]
  BY <1>5
<1>6. ASSUME NEW k \in DOMAIN record, k \notin Expired(log, record), k \notin changed
      PROVE  /\ k \in kept /\ Knows(log, k, record[k])
             /\ now <= log.entries[k].seen + ResourceLifetime
  <2>1. k \in DOMAIN log.entries /\ log.entries[k].stamp = record[k]
    BY <1>6 DEF Changed
  <2>2. ~ (now > log.entries[k].seen + ResourceLifetime) /\ log.entries[k].seen \in Nat
    BY <1>3, <1>6, <2>1 DEF Expired
  <2>3. now <= log.entries[k].seen + ResourceLifetime
    BY <1>2, <2>2
  <2>4. k \notin gone
    BY <1>2, <2>2, <2>3 DEF Forgotten
  <2>5. QED BY <2>1, <2>3, <2>4 DEF Knows
<1>7. ASSUME NEW k \in changed PROVE k \in kept
  BY DEF Forgotten
<1>8. DOMAIN entries = kept
  OBVIOUS
<1> HIDE DEF entries, kept
<1>9. ASSUME NEW k \in DOMAIN record \ Expired(log, record)
      PROVE  /\ Knows(new, k, record[k])
             /\ \/ new.entries[k].seen = now /\ k \in changed
                \/ /\ Knows(log, k, record[k]) /\ new.entries[k] = log.entries[k]
                   /\ now <= log.entries[k].seen + ResourceLifetime
  <2>1. CASE k \in changed
    BY <1>1, <1>5, <1>7, <1>8, <2>1 DEF Knows
  <2>2. CASE k \notin changed
    BY <1>1, <1>4, <1>6, <1>8, <1>9, <2>2 DEF Knows
  <2>3. QED BY <2>1, <2>2
<1>10. ASSUME NEW k \in DOMAIN new.entries
       PROVE  \/ new.entries[k].seen = now /\ k \in changed
              \/ /\ k \in DOMAIN log.entries /\ new.entries[k] = log.entries[k]
                 /\ now <= log.entries[k].seen + 2 * ResourceLifetime
  BY <1>1, <1>4, <1>5, <1>8, <1>10
<1> HIDE DEF new
<1>11. QED BY <1>1, <1>9, <1>10 DEF new

LEMMA LogIs == ASSUME NEW log, IsLog(log) PROVE log # NoLog
<1>1. /\ log \in [lastUpdated : Nat, lastChecked : Nat, entries : {log.entries}]
      /\ DOMAIN log.entries \in SUBSET Keys
      /\ log.entries \in [DOMAIN log.entries -> [seen : Nat, stamp : Nat]]
  BY DEF IsLog
<1>2. log \in [lastUpdated : Nat, lastChecked : Nat,
               entries : [DOMAIN log.entries -> [seen : Nat, stamp : Nat]]]
  BY <1>1
<1>3. QED BY <1>1, <1>2, AccountAssumption

-----------------------------------------------------------------------------
(* Who has what in hand *)

LEMMA GetIs ==
    ASSUME NEW n, KeepAliveGet(n)
    PROVE  \E a \in Accounts :
               mgr' = [mgr EXCEPT ![n] = [mgr[n] EXCEPT !.pc = "write", !.todo = ToUpdate(n),
                                                        !.acc = a, !.copy = kvs[a]]]
BY DEF KeepAliveGet

(* A record in hand was there before, or the node has just got its part.    *)
LEMMA InHandBefore ==
    ASSUME IInv, NEW n \in Nodes, NodeStep(n), NEW acc \in DOMAIN mgr'[n].resources
    PROVE  \/ /\ acc \in DOMAIN mgr[n].resources
              /\ mgr'[n].resources[acc] = mgr[n].resources[acc]
           \/ Deal(n) /\ acc \in Local(n) /\ mgr'[n].resources[acc] = kvs[acc]
<1>1. mgr \in [Nodes -> {mgr[m] : m \in Nodes}] /\ IsManager(mgr[n])
  BY DEF IInv, TypeOK
<1>2. DOMAIN Idle.resources = {} /\ DOMAIN Down.resources = {}
  BY DEF Idle, Down
<1>3. CASE mgr'[n].resources = mgr[n].resources
  BY <1>3
<1>4. CASE KeepAliveGet(n) \/ NodeStarts(n)
  <2>1. ASSUME NodeStarts(n) PROVE mgr'[n].resources = mgr[n].resources
    BY <1>1, <2>1 DEF NodeStarts, IsManager
  <2>2. ASSUME KeepAliveGet(n) PROVE mgr'[n].resources = mgr[n].resources
    <3>1. PICK a \in Accounts :
              mgr' = [mgr EXCEPT ![n] = [mgr[n] EXCEPT !.pc = "write", !.todo = ToUpdate(n),
                                                       !.acc = a, !.copy = kvs[a]]]
      BY <2>2, GetIs
    <3>2. QED BY <1>1, <3>1 DEF IsManager
  <2>3. QED BY <1>3, <1>4, <2>1, <2>2
<1>5. CASE KeepAliveInvalid(n) \/ KeepAliveFails(n) \/ DealFails(n) \/ NodeLeaves(n)
  <2>1. mgr'[n] \in {Idle, Down}
    BY <1>1, <1>5 DEF KeepAliveInvalid, KeepAliveFails, DealFails, NodeLeaves, Rest
  <2>2. QED BY <1>2, <2>1
<1>6. CASE KeepAliveSet(n)
  <2>1. mgr'[n] = Idle \/ mgr'[n].resources = mgr[n].resources
    BY <1>1, <1>6 DEF KeepAliveSet, Rest, IsManager
  <2>2. QED BY <1>2, <1>3, <2>1
<1>7. CASE Deal(n)
  <2>1. mgr'[n] = IF Local(n) = {} THEN Idle
                  ELSE [Idle EXCEPT !.pc = "deal", !.resources = [a \in Local(n) |-> kvs[a]]]
    BY <1>1, <1>7 DEF Deal
  <2>2. Local(n) # {} => mgr'[n].resources = [a \in Local(n) |-> kvs[a]]
    BY <2>1 DEF Idle, Down
  <2>3. QED BY <1>2, <1>7, <2>1, <2>2
<1>8. CASE DealRecord(n)
  <2>1. PICK a : DealsWith(n, a)
    BY <1>8, DealsWithOne
  <2>2. mgr'[n] = Idle \/ mgr'[n].resources = Restrict(mgr[n].resources, DOMAIN mgr[n].resources \ {a})
    BY <1>1, <2>1 DEF DealsWith, Rest, IsManager
  <2>3. QED BY <1>2, <2>2 DEF Restrict
<1>9. QED BY <1>4, <1>5, <1>6, <1>7, <1>8 DEF NodeStep

(* A node that is up stays up unless it leaves. *)
LEMMA StaysUp ==
    ASSUME IInv, NEW n \in Nodes, NodeStep(n), ~ NodeLeaves(n), Up(n)
    PROVE  Up(n)'
<1>1. mgr \in [Nodes -> {mgr[m] : m \in Nodes}] /\ IsManager(mgr[n])
  BY DEF IInv, TypeOK
<1>2. Idle.pc = "idle"
  BY DEF Idle, Down
<1>3. CASE KeepAliveGet(n)
  BY <1>1, <1>3 DEF KeepAliveGet, Up, IsManager
<1>4. CASE KeepAliveInvalid(n) \/ KeepAliveFails(n) \/ DealFails(n)
  BY <1>1, <1>2, <1>4 DEF KeepAliveInvalid, KeepAliveFails, DealFails, Rest, Up
<1>5. CASE KeepAliveSet(n)
  <2>1. mgr'[n] = Idle \/ mgr'[n].pc = "keepalive"
    BY <1>1, <1>5 DEF KeepAliveSet, Rest, IsManager
  <2>2. QED BY <1>2, <2>1 DEF Up
<1>6. CASE Deal(n)
  <2>1. mgr'[n].pc \in {"idle", "deal"}
    BY <1>1, <1>2, <1>6 DEF Deal, Idle, Down
  <2>2. QED BY <2>1 DEF Up
<1>7. CASE DealRecord(n)
  <2>1. mgr'[n] = Idle \/ mgr'[n].pc = mgr[n].pc
    BY <1>1, <1>7 DEF DealRecord, Rest, IsManager
  <2>2. QED BY <1>2, <2>1 DEF Up
<1>8. ~ NodeStarts(n)
  BY DEF NodeStarts, Up
<1>9. QED BY <1>3, <1>4, <1>5, <1>6, <1>7, <1>8 DEF NodeStep

LEMMA PartStays ==
    ASSUME NEW n \in Nodes, NodeStep(n), ~ NodeLeaves(n)
    PROVE  UNCHANGED <<now, holder, held>>
BY DEF NodeStep, KeepAliveGet, KeepAliveInvalid, KeepAliveSet, KeepAliveFails, Deal, DealRecord,
       DealFails, NodeStarts, history

LEMMA HandsKept ==
    ASSUME IInv, Hands, [Next]_vars
    PROVE  Hands'
<1>1. /\ mgr \in [Nodes -> {mgr[m] : m \in Nodes}] /\ \A n \in Nodes : IsManager(mgr[n])
      /\ holder \in [Accounts -> Nodes] /\ held \in [Accounts -> Nat]
  BY DEF IInv, TypeOK
<1>2. ASSUME NEW n \in Nodes, NodeStep(n), ~ NodeLeaves(n) PROVE Hands'
  <2>1. UNCHANGED <<now, holder, held>>
    BY <1>2, PartStays
  <2>2. ASSUME NEW acc \in Accounts PROVE mgr'[holder[acc]].pc # "down"
    <3>1. holder[acc] \in Nodes /\ Up(holder[acc])
      BY <1>1 DEF Hands
    <3>2. CASE holder[acc] = n
      <4>1. Up(n)'
        BY <1>2, <3>1, <3>2, StaysUp
      <4>2. QED BY <3>2, <4>1 DEF Up
    <3>3. CASE holder[acc] # n
      <4>1. mgr'[holder[acc]] = mgr[holder[acc]]
        BY <1>2, <3>1, <3>3, OthersStay
      <4>2. QED BY <3>1, <4>1 DEF Up
    <3>4. QED BY <3>2, <3>3
  <2>3. ASSUME NEW m \in Nodes, NEW acc \in Accounts, acc \in DOMAIN mgr'[m].resources
        PROVE  mgr'[m].resources[acc] # NoRecord /\ (holder[acc] # m => held[acc] = now)
    <3>1. CASE m # n
      BY <1>2, <2>3, <3>1, OthersStay DEF Hands, Dealing
    <3>2. CASE m = n
      BY <1>2, <2>3, <3>2, InHandBefore DEF Hands, Dealing, Local
    <3>3. QED BY <3>1, <3>2
  <2>4. QED BY <2>1, <2>2, <2>3 DEF Hands, Dealing, Up
<1>3. ASSUME NEW n \in Nodes, NodeLeaves(n) PROVE Hands'
  <2>1. PICK m \in Nodes \ {n} :
            /\ Up(m)
            /\ holder' = [acc \in Accounts |-> IF holder[acc] = n THEN m ELSE holder[acc]]
    BY <1>3 DEF NodeLeaves
  <2>2. /\ mgr' = [mgr EXCEPT ![n] = Down] /\ now' = now
        /\ held' = [acc \in Accounts |-> IF holder[acc] = n THEN now ELSE held[acc]]
    BY <1>3 DEF NodeLeaves
  <2>3. DOMAIN Down.resources = {}
    BY DEF Down
  <2>4. \A acc \in Accounts : Up(holder[acc])'
    BY <1>1, <2>1, <2>2 DEF Hands, Up
  <2>5. ASSUME NEW o \in Nodes, NEW acc \in Accounts, acc \in DOMAIN mgr'[o].resources
        PROVE  mgr'[o].resources[acc] # NoRecord /\ (holder'[acc] # o => held'[acc] = now)
    BY <1>1, <2>1, <2>2, <2>3, <2>5 DEF Hands, Dealing
  <2>6. QED BY <2>2, <2>4, <2>5 DEF Hands, Dealing
<1>4. CASE Tick
  <2>1. \A n \in Nodes : DOMAIN mgr[n].resources = {}
    BY <1>1, <1>4 DEF Tick, Punctual, IsManager
  <2>2. UNCHANGED <<mgr, holder, held>>
    BY <1>4 DEF Tick, history
  <2>3. QED BY <2>1, <2>2 DEF Hands, Dealing, Up
<1>5. ASSUME NEW a \in Accounts, HolderMoves(a) PROVE Hands'
  <2>1. PICK n \in Nodes : Up(n) /\ holder' = [holder EXCEPT ![a] = n]
    BY <1>5 DEF HolderMoves
  <2>2. held' = [held EXCEPT ![a] = now] /\ UNCHANGED <<now, mgr>>
    BY <1>5 DEF HolderMoves
  <2>3. QED BY <1>1, <2>1, <2>2 DEF Hands, Dealing, Up
<1>6. CASE UNCHANGED vars
  BY <1>6 DEF vars, Hands, Dealing, Up
<1>7. QED BY <1>2, <1>3, <1>4, <1>5, <1>6 DEF Next

-----------------------------------------------------------------------------
(* When the holder deals with a record next *)

LEMMA NextDealSoon ==
    ASSUME IInv, Clock, Hands, NEW acc \in Accounts
    PROVE  NextDeal(acc) \in Nat /\ now <= NextDeal(acc) /\ NextDeal(acc) <= now + DealPeriod
<1>1. /\ now \in Nat /\ dealDue \in [Nodes -> Nat] /\ holder[acc] \in Nodes /\ DealPeriod \in Nat
  BY AccountAssumption DEF IInv, TypeOK
<1>2. mgr[holder[acc]].pc = "starting" \/ Running(holder[acc])
  BY DEF Hands, Up, Running
<1>3. QED BY <1>1, <1>2 DEF NextDeal, Clock

DealSoon(acc) ==
    NextDeal(acc) \in Nat /\ now <= NextDeal(acc) /\ NextDeal(acc) <= now + DealPeriod

LEMMA NextDealSoonNext ==
    IInv' /\ Clock' /\ Hands' => (\A acc \in Accounts : DealSoon(acc))'
<1>1. IInv /\ Clock /\ Hands => \A acc \in Accounts : DealSoon(acc)
  BY NextDealSoon DEF DealSoon
<1>2. QED BY <1>1, PTL

LEMMA NextDealWhenDealing ==
    ASSUME IInv, NEW n \in Nodes, NEW acc, acc \in DOMAIN mgr[n].resources, holder[acc] = n
    PROVE  NextDeal(acc) = now
<1>1. mgr[n].pc = "deal"
  BY DEF IInv, TypeOK, IsManager
<1>2. QED BY <1>1 DEF NextDeal, Dealing

(* Nothing about who has the record and what its log says gets worse. *)
Holds(acc) ==
    /\ holder'[acc] = holder[acc] /\ held'[acc] = held[acc]
    /\ Logged(acc) => logs'[holder[acc]][acc] = logs[holder[acc]][acc]
    /\ NextDeal(acc)' <= NextDeal(acc)

(* The log of a holder is never so old that another record's check clears it. *)
LEMMA LoggedStays ==
    ASSUME DealPeriod <= 2 * AccountLifetime, IInv, Clock, Hands, NEW acc \in Accounts, Logged(acc)
    PROVE  Cleaned(logs[holder[acc]][acc]) = logs[holder[acc]][acc]
<1> DEFINE log == logs[holder[acc]][acc]
<1>1. holder[acc] \in Nodes /\ now \in Nat /\ {DealPeriod, AccountLifetime} \subseteq Nat
  BY AccountAssumption DEF IInv, TypeOK
<1>2. log # NoLog /\ NextDeal(acc) <= log.lastChecked + DealPeriod
  BY DEF Logged
<1>3. log.lastChecked \in Nat
  BY <1>1, <1>2 DEF IInv, TypeOK, IsLog
<1>4. NextDeal(acc) \in Nat /\ now <= NextDeal(acc)
  BY NextDealSoon
<1> HIDE DEF log
<1>5. ~ (now > log.lastChecked + 2 * AccountLifetime)
  BY <1>1, <1>2, <1>3, <1>4
<1>6. QED BY <1>5 DEF Cleaned, log

(* The manager of the holder goes on without dealing with the record. *)
LEMMA HolderGoesOn ==
    ASSUME DealPeriod <= 2 * AccountLifetime, IInv, Clock, Hands, NEW acc \in Accounts,
           kvs[acc] # NoRecord, NEW n \in Nodes, n = holder[acc], NodeStep(n), ~ NodeLeaves(n),
           ~ DealsWith(n, acc), ~ DealFails(n)
    PROVE  Holds(acc)
<1>1. /\ mgr \in [Nodes -> {mgr[m] : m \in Nodes}] /\ IsManager(mgr[n])
      /\ dealDue \in [Nodes -> Nat] /\ now \in Nat /\ DealPeriod \in Nat
  BY AccountAssumption DEF IInv, TypeOK
<1>2. UNCHANGED <<now, holder, held>>
  BY PartStays
<1>3. NextDeal(acc) \in Nat /\ now <= NextDeal(acc)
  BY NextDealSoon
<1>4. /\ NextDeal(acc) = IF mgr[n].pc = "starting" THEN now + DealPeriod
                         ELSE IF acc \in DOMAIN mgr[n].resources THEN now ELSE dealDue[n]
      /\ NextDeal(acc)' = IF mgr'[n].pc = "starting" THEN now + DealPeriod
                          ELSE IF acc \in DOMAIN mgr'[n].resources THEN now ELSE dealDue'[n]
  BY <1>2 DEF NextDeal, Dealing
<1>5. Idle.pc = "idle" /\ DOMAIN Idle.resources = {}
  BY DEF Idle, Down
<1>6. CASE KeepAliveGet(n) \/ KeepAliveInvalid(n) \/ KeepAliveFails(n)
  <2>1. /\ logs' = logs /\ NextDue(n)
        /\ mgr[n].pc \in {"keepalive", "write", "starting", "idle"}
    BY <1>6 DEF KeepAliveGet, KeepAliveInvalid, KeepAliveFails, KeepAliveDue
  <2>2. DOMAIN mgr[n].resources = {}
    BY <1>1, <2>1 DEF IsManager
  <2>3. mgr'[n].pc \in {"write", "idle"} /\ DOMAIN mgr'[n].resources = {}
    <3>1. CASE KeepAliveGet(n)
      <4>1. PICK a \in Accounts :
                mgr' = [mgr EXCEPT ![n] = [mgr[n] EXCEPT !.pc = "write", !.todo = ToUpdate(n),
                                                         !.acc = a, !.copy = kvs[a]]]
        BY <3>1, GetIs
      <4>2. QED BY <1>1, <2>2, <4>1 DEF IsManager
    <3>2. CASE KeepAliveInvalid(n) \/ KeepAliveFails(n)
      BY <1>1, <1>5, <3>2 DEF KeepAliveInvalid, KeepAliveFails, Rest
    <3>3. QED BY <1>6, <3>1, <3>2
  <2>4. dealDue'[n] = IF mgr[n].pc = "starting" THEN now + DealPeriod ELSE dealDue[n]
    BY <1>1, <2>1 DEF NextDue
  <2>5. NextDeal(acc)' = NextDeal(acc)
    BY <1>4, <2>2, <2>3, <2>4
  <2>6. QED BY <1>2, <1>3, <2>1, <2>5 DEF Holds
<1>7. CASE KeepAliveSet(n)
  <2>1. logs' = logs /\ dealDue' = dealDue /\ mgr[n].pc = "write"
    BY <1>7 DEF KeepAliveSet, tickers
  <2>2. DOMAIN mgr[n].resources = {}
    BY <1>1, <2>1 DEF IsManager
  <2>3. mgr'[n].pc # "starting" /\ DOMAIN mgr'[n].resources = {}
    <3>1. mgr'[n] = Idle \/ (mgr'[n].pc = "keepalive" /\ mgr'[n].resources = mgr[n].resources)
      BY <1>1, <1>7 DEF KeepAliveSet, Rest, IsManager
    <3>2. QED BY <1>5, <2>2, <3>1
  <2>4. NextDeal(acc)' = NextDeal(acc)
    BY <1>4, <2>1, <2>2, <2>3
  <2>5. QED BY <1>2, <1>3, <2>1, <2>4 DEF Holds
<1>8. CASE Deal(n)
  <2>1. logs' = logs /\ acc \in Local(n)
    BY <1>8 DEF Deal, Local
  <2>2. mgr'[n] = [Idle EXCEPT !.pc = "deal", !.resources = [a \in Local(n) |-> kvs[a]]]
    BY <1>1, <1>8, <2>1 DEF Deal
  <2>3. mgr'[n].pc = "deal" /\ acc \in DOMAIN mgr'[n].resources
    BY <2>1, <2>2 DEF Idle, Down
  <2>4. NextDeal(acc)' = now
    BY <1>4, <2>3
  <2>5. QED BY <1>2, <1>3, <2>1, <2>4 DEF Holds
<1>9. CASE DealRecord(n)
  <2>1. PICK a : DealsWith(n, a)
    BY <1>9, DealsWithOne
  <2>2. a # acc /\ dealDue' = dealDue /\ Check(n, a) /\ a \in DOMAIN mgr[n].resources
    BY <2>1 DEF DealsWith, tickers
  <2>3. a \in Accounts /\ mgr[n].pc = "deal"
    BY <1>1, <2>2 DEF IsManager
  <2>4. logs'[n][acc] = Cleaned(logs[n][acc])
    BY <2>2, <2>3, CheckedLogs
  <2>5. Logged(acc) => logs'[n][acc] = logs[n][acc]
    BY <2>4, LoggedStays
  <2>6. CASE DOMAIN mgr[n].resources = {a}
    <3>1. mgr'[n] = Idle /\ acc \notin DOMAIN mgr[n].resources
      BY <1>1, <2>1, <2>2, <2>6 DEF DealsWith, Rest
    <3>2. NextDeal(acc)' = NextDeal(acc)
      BY <1>4, <1>5, <2>2, <2>3, <3>1
    <3>3. QED BY <1>2, <1>3, <2>5, <3>2 DEF Holds
  <2>7. CASE DOMAIN mgr[n].resources # {a}
    <3>1. mgr'[n].pc = "deal" /\ (acc \in DOMAIN mgr'[n].resources <=> acc \in DOMAIN mgr[n].resources)
      BY <1>1, <2>1, <2>2, <2>3, <2>7 DEF DealsWith, IsManager, Restrict
    <3>2. NextDeal(acc)' = NextDeal(acc)
      BY <1>4, <2>2, <2>3, <3>1
    <3>3. QED BY <1>2, <1>3, <2>5, <3>2 DEF Holds
  <2>8. QED BY <2>6, <2>7
<1>10. CASE NodeStarts(n)
  BY <1>10 DEF NodeStarts, Hands, Up
<1>11. QED BY <1>6, <1>7, <1>8, <1>9, <1>10 DEF NodeStep

(* A record moves, or its holder deals with it, or nothing happens to it.   *)
LEMMA HoldsOrNot ==
    ASSUME DealPeriod <= 2 * AccountLifetime, IInv, Clock, Hands, [Next]_vars, Undisturbed',
           NEW acc \in Accounts, kvs[acc] # NoRecord
    PROVE  \/ Holds(acc)
           \/ held'[acc] = now'
           \/ DealsWith(holder[acc], acc)
<1>1. /\ mgr \in [Nodes -> {mgr[m] : m \in Nodes}] /\ holder \in [Accounts -> Nodes]
      /\ held \in [Accounts -> Nat] /\ logs \in [Nodes -> {logs[n] : n \in Nodes}]
      /\ dealDue \in [Nodes -> Nat]
      /\ \A n \in Nodes : IsManager(mgr[n])
  BY DEF IInv, TypeOK
<1>2. holder[acc] \in Nodes /\ NextDeal(acc) \in Nat
  BY <1>1, NextDealSoon
<1>3. ASSUME holder'[acc] = holder[acc], held'[acc] = held[acc], now' = now,
             mgr'[holder[acc]] = mgr[holder[acc]], dealDue'[holder[acc]] = dealDue[holder[acc]],
             logs'[holder[acc]] = logs[holder[acc]]
      PROVE  Holds(acc)
  <2>1. NextDeal(acc)' = NextDeal(acc)
    BY <1>3 DEF NextDeal, Dealing
  <2>2. QED BY <1>2, <1>3, <2>1 DEF Holds
<1>4. ASSUME NEW n \in Nodes, NodeStep(n), ~ NodeLeaves(n)
      PROVE  Holds(acc) \/ DealsWith(holder[acc], acc)
  <2>1. UNCHANGED <<now, holder, held>>
    BY <1>4, PartStays
  <2>2. ~ DealFails(n)
    BY NoMishap DEF DealFails
  <2>3. CASE n = holder[acc]
    BY <1>4, <2>2, <2>3, HolderGoesOn
  <2>4. CASE n # holder[acc]
    <3>1. mgr'[holder[acc]] = mgr[holder[acc]]
      BY <1>2, <1>4, <2>4, OthersStay
    <3>2. dealDue'[holder[acc]] = dealDue[holder[acc]]
      BY <1>1, <1>2, <1>4, <2>4 DEF NodeStep, KeepAliveGet, KeepAliveInvalid, KeepAliveSet,
         KeepAliveFails, Deal, DealRecord, DealFails, NodeStarts, NextDue, tickers
    <3>3. logs'[holder[acc]] = logs[holder[acc]]
      <4>1. CASE DealRecord(n)
        <5>1. PICK a : DealsWith(n, a)
          BY <4>1, DealsWithOne
        <5>2. a \in Accounts /\ Check(n, a)
          BY <1>1, <5>1 DEF DealsWith, IsManager
        <5>3. QED BY <1>2, <2>4, <5>2, CheckedLogs
      <4>2. CASE ~ DealRecord(n)
        <5>1. logs' = logs
          BY <1>4, <2>2, <4>2 DEF NodeStep, KeepAliveGet, KeepAliveInvalid, KeepAliveSet,
             KeepAliveFails, Deal, NodeStarts
        <5>2. QED BY <5>1
      <4>3. QED BY <4>1, <4>2
    <3>4. QED BY <1>3, <2>1, <3>1, <3>2, <3>3
  <2>5. QED BY <2>3, <2>4
<1>5. ASSUME NEW n \in Nodes, NodeLeaves(n) PROVE Holds(acc) \/ held'[acc] = now'
  <2>1. /\ mgr' = [mgr EXCEPT ![n] = Down] /\ logs' = [logs EXCEPT ![n] = [a \in Accounts |-> NoLog]]
        /\ held' = [a \in Accounts |-> IF holder[a] = n THEN now ELSE held[a]]
        /\ now' = now /\ UNCHANGED tickers
    BY <1>5 DEF NodeLeaves
  <2>2. CASE holder[acc] = n
    BY <2>1, <2>2
  <2>3. CASE holder[acc] # n
    <3>1. holder'[acc] = holder[acc]
      BY <1>5, <2>3 DEF NodeLeaves
    <3>2. QED BY <1>1, <1>2, <1>3, <2>1, <2>3, <3>1 DEF tickers
  <2>4. QED BY <2>2, <2>3
<1>6. CASE Tick
  <2>1. now' = now + 1 /\ UNCHANGED <<holder, mgr, tickers, logs, history>> /\ Punctual(holder[acc])
    BY <1>2, <1>6 DEF Tick
  <2>2. mgr[holder[acc]].pc = "idle"
    BY <2>1 DEF Hands, Up, Punctual
  <2>3. ~ Dealing(holder[acc], acc)
    BY <1>1, <1>2, <2>2 DEF Dealing, IsManager
  <2>4. NextDeal(acc)' = NextDeal(acc)
    BY <2>1, <2>2, <2>3 DEF NextDeal, Dealing, tickers
  <2>5. QED BY <1>2, <2>1, <2>4 DEF Holds, history
<1>7. ASSUME NEW a \in Accounts, HolderMoves(a) PROVE Holds(acc) \/ held'[acc] = now'
  <2>1. /\ held' = [held EXCEPT ![a] = now] /\ UNCHANGED <<now, mgr, tickers, logs>>
    BY <1>7 DEF HolderMoves
  <2>2. CASE a = acc
    BY <1>1, <2>1, <2>2
  <2>3. CASE a # acc
    <3>1. holder'[acc] = holder[acc]
      BY <1>1, <1>7, <2>3 DEF HolderMoves
    <3>2. QED BY <1>1, <1>3, <2>1, <2>3, <3>1 DEF tickers
  <2>4. QED BY <2>2, <2>3
<1>8. CASE UNCHANGED vars
  BY <1>3, <1>8 DEF vars, tickers
<1>9. QED BY <1>4, <1>5, <1>6, <1>7, <1>8 DEF Next

-----------------------------------------------------------------------------
(* What becomes of a record *)

Survives(acc, k) ==
    kvs[acc] # NoRecord /\ k \in DOMAIN kvs[acc] /\ kvs'[acc][k] = kvs[acc][k]

Untouched(acc) == kvs'[acc] = kvs[acc] /\ written'[acc] = written[acc]

KeptAlive(acc) ==
    /\ UNCHANGED <<now, holder, held>> /\ written'[acc] = now
    /\ \A k \in DOMAIN kvs'[acc] : kvs'[acc][k] = now \/ Survives(acc, k)

Cut(acc, n) ==
    /\ DealsWith(n, acc) /\ kvs[acc] = mgr[n].resources[acc]
    /\ \A k \in DOMAIN kvs'[acc] : Survives(acc, k)

LEMMA RecordChanges ==
    ASSUME IInv, Hands, [Next]_vars, Undisturbed', NEW acc \in Accounts, kvs'[acc] # NoRecord
    PROVE  \/ Untouched(acc)
           \/ KeptAlive(acc)
           \/ \E n \in Nodes : Cut(acc, n)
<1>1. /\ kvs \in [Accounts -> {kvs[a] : a \in Accounts}] /\ written \in [Accounts -> Nat]
      /\ \A n \in Nodes : IsManager(mgr[n])
  BY DEF IInv, TypeOK
<1>2. CASE kvs' = kvs /\ written' = written
  BY <1>2 DEF Untouched
<1>3. ASSUME NEW n \in Nodes, NodeStep(n)
      PROVE  Untouched(acc) \/ KeptAlive(acc) \/ Cut(acc, n)
  <2>1. CASE KeepAliveSet(n)
    <3>1. /\ mgr[n].acc \in Accounts /\ UNCHANGED <<now, holder, held>>
          /\ written' = [written EXCEPT ![mgr[n].acc] = now]
          /\ Writes(mgr[n].acc, mgr[n].copy, Merge(mgr[n].copy, Alive(n)))
      BY <1>1, <2>1 DEF KeepAliveSet, IsManager
    <3>2. /\ kvs[mgr[n].acc] = mgr[n].copy
          /\ kvs' = [kvs EXCEPT ![mgr[n].acc] = Merge(mgr[n].copy, Alive(n))]
      BY <3>1, CalmWrites
    <3>3. CASE mgr[n].acc # acc
      BY <1>1, <3>1, <3>2, <3>3 DEF Untouched
    <3>4. CASE mgr[n].acc = acc
      <4>1. kvs'[acc] = Merge(kvs[acc], Alive(n)) /\ written'[acc] = now
        BY <1>1, <3>1, <3>2, <3>4
      <4>2. \A k \in DOMAIN Alive(n) : Alive(n)[k] = now
        BY DEF Alive
      <4>3. ASSUME NEW k \in DOMAIN kvs'[acc] PROVE kvs'[acc][k] = now \/ Survives(acc, k)
        BY <4>1, <4>2 DEF Merge, Survives
      <4>4. QED BY <3>1, <4>1, <4>3 DEF KeptAlive
    <3>5. QED BY <3>3, <3>4
  <2>2. CASE DealRecord(n)
    <3>1. PICK a : DealsWith(n, a)
      BY <2>2, DealsWithOne
    <3>2. a \in Accounts /\ a \in DOMAIN mgr[n].resources /\ written' = written
      BY <1>1, <3>1 DEF DealsWith, IsManager, history
    <3>3. CASE kvs' = kvs \/ a # acc
      BY <1>1, <3>1, <3>2, <3>3 DEF Untouched, DealsWith, Writes
    <3>4. CASE kvs' # kvs /\ a = acc
      <4>1. Writes(acc, mgr[n].resources[acc], Dealt(n, acc))
        BY <3>1, <3>4 DEF DealsWith
      <4>2. kvs[acc] = mgr[n].resources[acc] /\ kvs'[acc] = Dealt(n, acc)
        BY <1>1, <4>1, CalmWrites
      <4>3. kvs[acc] # NoRecord
        BY <3>2, <3>4, <4>2 DEF Hands, Dealing
      <4>4. \A k \in DOMAIN kvs'[acc] : Survives(acc, k)
        BY <4>2, <4>3 DEF Dealt, Restrict, Survives
      <4>5. QED BY <3>1, <3>4, <4>2, <4>4 DEF Cut
    <3>5. QED BY <3>3, <3>4
  <2>3. CASE ~ (KeepAliveSet(n) \/ DealRecord(n))
    <3>1. kvs' = kvs /\ written' = written
      BY <1>3, <2>3 DEF NodeStep, KeepAliveGet, KeepAliveInvalid, KeepAliveFails, Deal, DealFails,
         NodeStarts, NodeLeaves, history
    <3>2. QED BY <3>1 DEF Untouched
  <2>4. QED BY <2>1, <2>2, <2>3
<1>4. CASE Tick \/ UNCHANGED vars \/ \E a \in Accounts : HolderMoves(a)
  BY <1>2, <1>4 DEF Tick, HolderMoves, vars, history
<1>5. QED BY <1>3, <1>4 DEF Next

(* The history of a record goes on. *)
LEMMA HeldGoesOn ==
    ASSUME IInv, [Next]_vars, NEW acc \in Accounts
    PROVE  held'[acc] = held[acc] \/ held'[acc] = now'
<1>1. held \in [Accounts -> Nat]
  BY DEF IInv, TypeOK
<1>2. ASSUME NEW n \in Nodes, NodeStep(n), ~ NodeLeaves(n) PROVE held' = held
  BY <1>2, PartStays
<1>3. ASSUME NEW n \in Nodes, NodeLeaves(n) PROVE held'[acc] = held[acc] \/ held'[acc] = now'
  BY <1>3 DEF NodeLeaves
<1>4. ASSUME NEW a \in Accounts, HolderMoves(a) PROVE held'[acc] = held[acc] \/ held'[acc] = now'
  BY <1>1, <1>4 DEF HolderMoves
<1>5. CASE Tick \/ UNCHANGED vars
  BY <1>5 DEF Tick, vars, history
<1>6. QED BY <1>2, <1>3, <1>4, <1>5 DEF Next

LEMMA CopiesKept ==
    ASSUME IInv, Hands, Copies, [Next]_vars
    PROVE  Copies'
<1>1. /\ mgr \in [Nodes -> {mgr[m] : m \in Nodes}] /\ \A n \in Nodes : IsManager(mgr[n])
      /\ now \in Nat /\ held \in [Accounts -> Nat] /\ written \in [Accounts -> Nat]
      /\ holder \in [Accounts -> Nodes]
      /\ \A acc \in Accounts : kvs[acc] # NoRecord => IsRecord(kvs[acc])
  BY DEF IInv, TypeOK
<1>2. SUFFICES ASSUME Undisturbed', NEW n \in Nodes, NEW acc \in Accounts,
                      acc \in DOMAIN mgr'[n].resources, kvs'[acc] # NoRecord
               PROVE  LET record == mgr'[n].resources[acc] IN
                      /\ \A k \in DOMAIN kvs'[acc] :
                          \/ now' <= kvs'[acc][k]
                          \/ k \in DOMAIN record /\ record[k] = kvs'[acc][k]
                      /\ kvs'[acc] = record \/ now' <= Latest(written[acc], acc)'
  BY DEF Copies, Dealing
<1>3. Undisturbed
  BY <1>2, Calm
<1> DEFINE record == mgr[n].resources[acc]
           Good == /\ \A k \in DOMAIN kvs'[acc] :
                       \/ now' <= kvs'[acc][k]
                       \/ k \in DOMAIN mgr'[n].resources[acc] /\ mgr'[n].resources[acc][k] = kvs'[acc][k]
                   /\ kvs'[acc] = mgr'[n].resources[acc] \/ now' <= Latest(written[acc], acc)'
<1>4. CASE Deal(n) /\ mgr'[n].resources[acc] = kvs[acc]
  <2>1. kvs' = kvs
    BY <1>4 DEF Deal
  <2>2. QED BY <1>4, <2>1
<1>5. ASSUME now' = now, acc \in DOMAIN mgr[n].resources, mgr'[n].resources[acc] = record,
             ~ DealsWith(n, acc)
      PROVE  Good
  <2>1. kvs[acc] # NoRecord =>
            /\ \A k \in DOMAIN kvs[acc] :
                \/ now <= kvs[acc][k]
                \/ k \in DOMAIN record /\ record[k] = kvs[acc][k]
            /\ kvs[acc] = record \/ now <= Latest(written[acc], acc)
    BY <1>3, <1>5 DEF Copies, Dealing
  <2>2. ASSUME NEW k \in DOMAIN kvs'[acc], Survives(acc, k)
        PROVE  \/ now' <= kvs'[acc][k]
               \/ k \in DOMAIN record /\ record[k] = kvs'[acc][k]
    BY <1>5, <2>1, <2>2 DEF Survives
  <2>3. /\ held[acc] \in Nat /\ written[acc] \in Nat
        /\ held'[acc] \in {held[acc], now}
    BY <1>1, <1>5, HeldGoesOn
  <2>4. CASE Untouched(acc)
    <3>1. \A k \in DOMAIN kvs'[acc] : Survives(acc, k)
      BY <1>2, <2>4 DEF Untouched, Survives
    <3>2. kvs[acc] = record \/ now <= Latest(written[acc], acc)
      BY <1>2, <2>1, <2>4 DEF Untouched
    <3>3. now <= Latest(written[acc], acc) => now' <= Latest(written[acc], acc)'
      BY <1>1, <1>5, <2>3, <2>4 DEF Latest, Untouched
    <3>4. QED BY <1>5, <2>2, <2>4, <3>1, <3>2, <3>3 DEF Untouched
  <2>5. CASE KeptAlive(acc)
    <3>1. \A k \in DOMAIN kvs'[acc] : now' <= kvs'[acc][k] \/ Survives(acc, k)
      BY <1>1, <1>5, <2>5 DEF KeptAlive
    <3>2. now' <= Latest(written[acc], acc)'
      BY <1>1, <2>3, <2>5 DEF KeptAlive, Latest
    <3>3. QED BY <1>5, <2>2, <3>1, <3>2
  <2>6. ASSUME NEW m \in Nodes, Cut(acc, m) PROVE Good
    <3>1. m # n /\ acc \in DOMAIN mgr[m].resources /\ UNCHANGED <<written, held>>
      BY <1>5, <2>6 DEF Cut, DealsWith, history
    <3>2. held[acc] = now
      BY <1>5, <3>1 DEF Hands, Dealing
    <3>3. now' <= Latest(written[acc], acc)'
      BY <1>1, <1>5, <2>3, <3>1, <3>2 DEF Latest
    <3>4. QED BY <1>5, <2>2, <2>6, <3>3 DEF Cut
  <2>7. QED BY <1>2, <2>4, <2>5, <2>6, RecordChanges
<1>6. ASSUME NodeStep(n) PROVE Good
  <2>1. \/ acc \in DOMAIN mgr[n].resources /\ mgr'[n].resources[acc] = record
        \/ Deal(n) /\ mgr'[n].resources[acc] = kvs[acc]
    BY <1>2, <1>6, InHandBefore
  <2>2. ~ DealsWith(n, acc)
    <3>1. ASSUME DealsWith(n, acc) PROVE acc \notin DOMAIN mgr'[n].resources
      <4>1. mgr'[n] = Idle \/ mgr'[n].resources = Restrict(mgr[n].resources, DOMAIN mgr[n].resources \ {acc})
        BY <1>1, <3>1 DEF DealsWith, Rest, IsManager
      <4>2. DOMAIN Idle.resources = {}
        BY DEF Idle, Down
      <4>3. QED BY <4>1, <4>2 DEF Restrict
    <3>2. QED BY <1>2, <3>1
  <2>3. now' = now
    BY <1>6 DEF NodeStep, KeepAliveGet, KeepAliveInvalid, KeepAliveSet, KeepAliveFails, Deal,
                DealRecord, DealFails, NodeStarts, NodeLeaves
  <2>4. QED BY <1>4, <1>5, <2>1, <2>2, <2>3
<1>7. ASSUME NEW m \in Nodes, m # n, NodeStep(m) PROVE Good
  <2>1. mgr'[n] = mgr[n]
    BY <1>7, OthersStay
  <2>2. now' = now
    BY <1>7 DEF NodeStep, KeepAliveGet, KeepAliveInvalid, KeepAliveSet, KeepAliveFails, Deal,
                DealRecord, DealFails, NodeStarts, NodeLeaves
  <2>3. ~ DealsWith(n, acc)
    <3>1. ASSUME DealsWith(n, acc) PROVE mgr'[n] # mgr[n]
      <4>1. mgr'[n] = Idle \/ mgr'[n].resources = Restrict(mgr[n].resources, DOMAIN mgr[n].resources \ {acc})
        BY <1>1, <3>1 DEF DealsWith, Rest, IsManager
      <4>2. DOMAIN Idle.resources = {} /\ acc \in DOMAIN mgr[n].resources
        BY <3>1 DEF Idle, Down, DealsWith
      <4>3. QED BY <4>1, <4>2 DEF Restrict
    <3>2. QED BY <2>1, <3>1
  <2>4. QED BY <1>2, <1>5, <2>1, <2>2, <2>3
<1>8. CASE Tick
  <2>1. DOMAIN mgr[n].resources = {} /\ mgr' = mgr
    BY <1>1, <1>8 DEF Tick, Punctual, IsManager
  <2>2. QED BY <1>2, <2>1
<1>9. ASSUME NEW a \in Accounts, HolderMoves(a) PROVE Good
  <2>1. mgr' = mgr /\ now' = now /\ kvs' = kvs
    BY <1>9 DEF HolderMoves
  <2>2. ~ DealsWith(n, acc)
    <3>1. PICK m \in Nodes \ {holder[a]} : holder' = [holder EXCEPT ![a] = m]
      BY <1>9 DEF HolderMoves
    <3>2. holder' # holder
      BY <1>1, <3>1
    <3>3. QED BY <3>2 DEF DealsWith
  <2>3. QED BY <1>2, <1>5, <2>1, <2>2
<1>10. CASE UNCHANGED vars
  <2>1. mgr' = mgr /\ UNCHANGED <<now, kvs, written, held>>
    BY <1>10 DEF vars
  <2>2. QED BY <1>2, <1>3, <2>1 DEF Copies, Dealing, Latest
<1>11. QED BY <1>6, <1>7, <1>8, <1>9, <1>10 DEF Next

-----------------------------------------------------------------------------
(* The holder sees what is written, and drops what is not written any more. *)

SilentTypes(acc) ==
    /\ now \in Nat /\ held[acc] \in Nat /\ written[acc] \in Nat /\ holder[acc] \in Nodes
    /\ {DealPeriod, ResourceLifetime, AccountLifetime} \subseteq Nat
    /\ kvs[acc] # NoRecord => \A k \in DOMAIN kvs[acc] : kvs[acc][k] \in Nat
    /\ logs[holder[acc]][acc] # NoLog => IsLog(logs[holder[acc]][acc])

LEMMA SilentTyped == ASSUME IInv, NEW acc \in Accounts PROVE SilentTypes(acc)
BY AccountAssumption DEF IInv, TypeOK, IsRecord, SilentTypes

(* What is as young as now will be seen in time. *)
LEMMA YoungIsWatched ==
    ASSUME IInv, Clock, Hands, NEW acc \in Accounts, NEW stamp \in Nat, now <= Latest(stamp, acc)
    PROVE  NextDeal(acc) <= Latest(stamp, acc) + DealPeriod
BY NextDealSoon, SilentTyped DEF SilentTypes, Latest

LEMMA WatchedStays ==
    ASSUME IInv, NEW acc \in Accounts, kvs[acc] # NoRecord, NEW k \in DOMAIN kvs[acc],
           Watched(acc, k), Holds(acc), kvs'[acc][k] = kvs[acc][k],
           NextDeal(acc) \in Nat, NextDeal(acc)' \in Nat
    PROVE  Watched(acc, k)'
<1>1. SilentTypes(acc)
  BY SilentTyped
<1>2. Latest(kvs[acc][k], acc)' = Latest(kvs[acc][k], acc) /\ Latest(kvs[acc][k], acc) \in Nat
  BY <1>1 DEF Holds, Latest, SilentTypes
<1> DEFINE late == Latest(kvs[acc][k], acc) + DealPeriod
           log == logs[holder[acc]][acc]
<1>3. CASE NextDeal(acc) <= late
  BY <1>1, <1>2, <1>3 DEF Watched, Holds, SilentTypes
<1>4. CASE /\ Logged(acc) /\ Knows(log, k, kvs[acc][k])
           /\ log.entries[k].seen <= late
           /\ NextDeal(acc) <= log.entries[k].seen + ResourceLifetime + DealPeriod
  <2>1. logs'[holder'[acc]][acc] = log /\ log # NoLog
    BY <1>4 DEF Holds, Logged
  <2>2. log.lastChecked \in Nat /\ log.entries[k].seen \in Nat
    BY <1>1, <1>4, <2>1 DEF SilentTypes, IsLog, Knows
  <2>3. Logged(acc)'
    BY <1>1, <1>4, <2>1, <2>2 DEF Holds, Logged, SilentTypes
  <2>4. NextDeal(acc)' <= log.entries[k].seen + ResourceLifetime + DealPeriod
    BY <1>1, <1>4, <2>2 DEF Holds, SilentTypes
  <2> HIDE DEF log
  <2>5. QED BY <1>2, <1>4, <2>1, <2>3, <2>4 DEF Watched
<1>5. QED BY <1>3, <1>4 DEF Watched

LEMMA JudgedStays ==
    ASSUME IInv, NEW acc \in Accounts, kvs[acc] # NoRecord, Judged(acc), Holds(acc),
           written'[acc] = written[acc], \A k \in DOMAIN kvs'[acc] : Survives(acc, k),
           NextDeal(acc) \in Nat, NextDeal(acc)' \in Nat
    PROVE  Judged(acc)'
<1>1. SilentTypes(acc)
  BY SilentTyped
<1>2. Latest(written[acc], acc)' = Latest(written[acc], acc) /\ Latest(written[acc], acc) \in Nat
  BY <1>1 DEF Holds, Latest, SilentTypes
<1> DEFINE late == Latest(written[acc], acc) + DealPeriod
           log == logs[holder[acc]][acc]
<1>3. CASE NextDeal(acc) <= late
  BY <1>1, <1>2, <1>3 DEF Judged, Holds, SilentTypes
<1>4. CASE /\ Logged(acc)
           /\ \A k \in DOMAIN kvs[acc] : Knows(log, k, kvs[acc][k])
           /\ \A k \in DOMAIN log.entries :
                /\ log.entries[k].seen <= late
                /\ NextDeal(acc) <= log.entries[k].seen + 2 * ResourceLifetime + DealPeriod
           /\ log.lastUpdated <= late + 2 * ResourceLifetime + DealPeriod
           /\ NextDeal(acc) <= log.lastUpdated + AccountLifetime + DealPeriod
  <2>1. logs'[holder'[acc]][acc] = log /\ log # NoLog
    BY <1>4 DEF Holds, Logged
  <2>2. /\ log.lastChecked \in Nat /\ log.lastUpdated \in Nat
        /\ \A k \in DOMAIN log.entries : log.entries[k].seen \in Nat
    BY <1>1, <2>1 DEF SilentTypes, IsLog
  <2>3. Logged(acc)'
    BY <1>1, <1>4, <2>1, <2>2 DEF Holds, Logged, SilentTypes
  <2>4. \A k \in DOMAIN kvs'[acc] : Knows(log, k, kvs'[acc][k])
    BY <1>4 DEF Survives
  <2>5. ASSUME NEW k \in DOMAIN log.entries
        PROVE  NextDeal(acc)' <= log.entries[k].seen + 2 * ResourceLifetime + DealPeriod
    BY <1>1, <1>4, <2>2 DEF Holds, SilentTypes
  <2>6. NextDeal(acc)' <= log.lastUpdated + AccountLifetime + DealPeriod
    BY <1>1, <1>4, <2>2 DEF Holds, SilentTypes
  <2> HIDE DEF log
  <2>7. QED BY <1>2, <1>4, <2>1, <2>3, <2>4, <2>5, <2>6 DEF Judged
<1>5. QED BY <1>3, <1>4 DEF Judged

(* What the holder leaves of a record, and what it knows then *)
LEMMA HolderDeals ==
    ASSUME IInv, Hands, IInv', Clock', Hands', Undisturbed', NEW acc \in Accounts, NEW n \in Nodes,
           n = holder[acc], DealsWith(n, acc), kvs'[acc] # NoRecord
    PROVE  LET log == LogOf(n, acc)
               record == mgr[n].resources[acc]
           IN  /\ holder'[acc] = n /\ now' = now /\ written' = written /\ held' = held
               /\ NextDeal(acc) = now
               /\ NextDeal(acc)' \in Nat /\ NextDeal(acc)' <= now + DealPeriod
               /\ logs'[n][acc] = Checked(log, record) /\ Logged(acc)'
               /\ ~ Outdated(n, acc)
               /\ kvs[acc] = record \/ kvs' = kvs
               /\ \A k \in DOMAIN kvs'[acc] \cap DOMAIN record : k \notin Expired(log, record)
<1> DEFINE log == LogOf(n, acc)
           record == mgr[n].resources[acc]
           new == Checked(log, record)
<1>1. /\ acc \in DOMAIN mgr[n].resources /\ Check(n, acc) /\ IsRecord(record) /\ now \in Nat
      /\ kvs \in [Accounts -> {kvs[a] : a \in Accounts}] /\ DealPeriod \in Nat
      /\ UNCHANGED <<now, holder, tickers, history>>
  BY AccountAssumption DEF DealsWith, IInv, TypeOK, IsManager
<1>2. NextDeal(acc) = now
  BY <1>1, NextDealWhenDealing
<1>3. NextDeal(acc)' \in Nat /\ NextDeal(acc)' <= now + DealPeriod
  BY <1>1, NextDealSoonNext DEF DealSoon
<1>4. logs'[n][acc] = new
  BY <1>1, CheckedLogs
<1>5. IsLog(log) /\ Ordered(log)
  BY LogOfGood
<1>6. IsLog(new)
  BY <1>1, <1>5, CheckedGood
<1>7. new # NoLog /\ new.lastChecked = now
  BY <1>6, LogIs DEF Checked
<1>8. Logged(acc)'
  BY <1>1, <1>3, <1>4, <1>7 DEF Logged
<1>9. kvs' = kvs \/ (kvs[acc] = record /\ kvs'[acc] = Dealt(n, acc))
  <2>1. CASE Dealt(n, acc) = record
    BY <2>1 DEF DealsWith
  <2>2. CASE Dealt(n, acc) # record
    <3>1. Writes(acc, record, Dealt(n, acc))
      BY <2>2 DEF DealsWith
    <3>2. QED BY <1>1, <3>1, CalmWrites
  <2>3. QED BY <2>1, <2>2
<1>10. kvs'[acc] = Dealt(n, acc) \/ Dealt(n, acc) = record
  BY <1>1, CalmWrites DEF DealsWith
<1>11. ~ Outdated(n, acc)
  <2>1. record # NoRecord
    BY <1>1 DEF Hands, Dealing
  <2>2. QED BY <1>10, <2>1 DEF Dealt
<1>12. DOMAIN Dealt(n, acc) = DOMAIN record \ Expired(log, record)
  BY <1>11 DEF Dealt, Restrict
<1>13. \A k \in DOMAIN kvs'[acc] \cap DOMAIN record : k \notin Expired(log, record)
  BY <1>10, <1>12
<1> HIDE DEF log, record, new
<1>14. QED BY <1>1, <1>2, <1>3, <1>4, <1>8, <1>9, <1>11, <1>13 DEF history, log, record, new

LEMMA LogOfHolder ==
    ASSUME IInv, NEW acc \in Accounts, Logged(acc)
    PROVE  LogOf(holder[acc], acc) = logs[holder[acc]][acc]
BY DEF Logged, LogOf

LEMMA DealWatches ==
    ASSUME SilentInv, IInv', Clock', Hands', Undisturbed, Undisturbed', NEW acc \in Accounts,
           DealsWith(holder[acc], acc), kvs'[acc] # NoRecord, NEW k \in DOMAIN kvs'[acc],
           Survives(acc, k)
    PROVE  Watched(acc, k)'
<1> DEFINE n == holder[acc]
           log == LogOf(n, acc)
           record == mgr[n].resources[acc]
           new == Checked(log, record)
           stamp == kvs[acc][k]
<1>1. IInv /\ Hands /\ Clock /\ Copies /\ Watched(acc, k)
  BY DEF SilentInv, AllWatched, Survives
<1>2. /\ SilentTypes(acc) /\ stamp \in Nat /\ n \in Nodes
  BY <1>1, SilentTyped DEF SilentTypes, Survives
<1>3. /\ holder'[acc] = n /\ now' = now /\ held' = held
      /\ NextDeal(acc) = now
      /\ NextDeal(acc)' \in Nat /\ NextDeal(acc)' <= now + DealPeriod
      /\ logs'[n][acc] = new /\ Logged(acc)'
      /\ \A j \in DOMAIN kvs'[acc] \cap DOMAIN record : j \notin Expired(log, record)
  BY <1>1, <1>2, HolderDeals
<1>4. Latest(kvs[acc][k], acc)' = Latest(stamp, acc) /\ Latest(stamp, acc) \in Nat
  BY <1>2, <1>3 DEF Survives, Latest, SilentTypes
<1>5. CASE now <= Latest(stamp, acc)
  BY <1>2, <1>3, <1>4, <1>5 DEF Watched, SilentTypes
<1>6. CASE ~ (now <= Latest(stamp, acc))
  <2>1. stamp < now
    BY <1>2, <1>6 DEF Latest, SilentTypes
  <2>2. k \in DOMAIN record /\ record[k] = stamp
    <3>1. Dealing(n, acc)
      BY DEF DealsWith, Dealing
    <3>2. now <= stamp \/ (k \in DOMAIN record /\ record[k] = stamp)
      BY <1>1, <1>2, <3>1 DEF Copies, Survives
    <3>3. QED BY <1>2, <2>1, <3>2 DEF SilentTypes
  <2>3. k \in DOMAIN record \ Expired(log, record)
    BY <1>3, <2>2
  <2>4. IsLog(log) /\ Ordered(log) /\ IsRecord(record)
    BY <1>1, <1>2, LogOfGood DEF IInv, TypeOK, IsManager, DealsWith
  <2>5. /\ Knows(new, k, record[k])
        /\ \/ new.entries[k].seen = now /\ k \in Changed(log, record)
           \/ /\ Knows(log, k, record[k]) /\ new.entries[k] = log.entries[k]
              /\ now <= log.entries[k].seen + ResourceLifetime
    BY <1>2, <2>3, <2>4, CheckedKnows DEF SilentTypes
  <2>6. IsLog(new) /\ Ordered(new)
    BY <1>2, <2>4, CheckedGood DEF SilentTypes
  <2>7. new.entries[k].seen \in Nat /\ new.entries[k].seen <= now
    <3>1. k \in DOMAIN new.entries /\ now \in Nat
      BY <1>2, <2>5 DEF Knows, SilentTypes
    <3> HIDE DEF new
    <3>2. QED BY <2>6, <3>1 DEF IsLog, Ordered
  <2>8. NextDeal(acc)' <= new.entries[k].seen + ResourceLifetime + DealPeriod
    BY <1>2, <1>3, <2>5, <2>7 DEF SilentTypes
  <2>9. new.entries[k].seen <= Latest(stamp, acc) + DealPeriod
    <3>1. CASE NextDeal(acc) <= Latest(stamp, acc) + DealPeriod
      BY <1>2, <1>3, <1>4, <2>7, <3>1 DEF SilentTypes
    <3>2. CASE ~ (NextDeal(acc) <= Latest(stamp, acc) + DealPeriod)
      <4>1. /\ Logged(acc) /\ Knows(logs[n][acc], k, stamp)
            /\ logs[n][acc].entries[k].seen <= Latest(stamp, acc) + DealPeriod
        BY <1>1, <3>2 DEF Watched
      <4>2. log = logs[n][acc]
        BY <1>1, <4>1, LogOfHolder
      <4>3. k \notin Changed(log, record)
        BY <2>2, <4>1, <4>2 DEF Changed, Knows
      <4>4. QED BY <2>5, <4>1, <4>2, <4>3
    <3>3. QED BY <3>1, <3>2
  <2>10. Knows(new, k, kvs'[acc][k])
    BY <2>2, <2>5 DEF Survives
  <2> HIDE DEF new, log, record, n, stamp
  <2>11. QED BY <1>3, <1>4, <2>8, <2>9, <2>10 DEF Watched
<1>7. QED BY <1>5, <1>6

LEMMA DealJudges ==
    ASSUME SilentInv, IInv', Clock', Hands', Undisturbed, Undisturbed', NEW acc \in Accounts,
           DealsWith(holder[acc], acc), kvs'[acc] # NoRecord, kvs[acc] # NoRecord,
           \A k \in DOMAIN kvs'[acc] : Survives(acc, k)
    PROVE  Judged(acc)'
<1> DEFINE n == holder[acc]
           log == LogOf(n, acc)
           record == mgr[n].resources[acc]
           new == Checked(log, record)
           W == Latest(written[acc], acc)
<1>1. IInv /\ Hands /\ Clock /\ Copies /\ Judged(acc)
  BY DEF SilentInv, AllJudged
<1>2. SilentTypes(acc) /\ n \in Nodes /\ W \in Nat
  BY <1>1, SilentTyped DEF SilentTypes, Latest
<1>3. /\ holder'[acc] = n /\ now' = now /\ written' = written /\ held' = held
      /\ NextDeal(acc) = now
      /\ NextDeal(acc)' \in Nat /\ NextDeal(acc)' <= now + DealPeriod
      /\ logs'[n][acc] = new /\ Logged(acc)' /\ ~ Outdated(n, acc)
      /\ \A k \in DOMAIN kvs'[acc] \cap DOMAIN record : k \notin Expired(log, record)
  BY <1>1, <1>2, HolderDeals
<1>4. Latest(written[acc], acc)' = W
  BY <1>3 DEF Latest
<1>5. CASE now <= W
  BY <1>2, <1>3, <1>4, <1>5 DEF Judged, SilentTypes
<1>6. CASE ~ (now <= W)
  <2>1. kvs[acc] = record
    <3>1. Dealing(n, acc)
      BY DEF DealsWith, Dealing
    <3>2. QED BY <1>1, <1>2, <1>6, <3>1 DEF Copies
  <2>2. IsLog(log) /\ Ordered(log) /\ IsRecord(record)
    BY <1>1, <1>2, LogOfGood DEF IInv, TypeOK, IsManager, DealsWith
  <2>3. IsLog(new) /\ Ordered(new)
    BY <1>2, <2>2, CheckedGood DEF SilentTypes
  <2>4. /\ \A k \in DOMAIN record \ Expired(log, record) : Knows(new, k, record[k])
        /\ \A k \in DOMAIN new.entries :
             \/ new.entries[k].seen = now /\ k \in Changed(log, record)
             \/ /\ k \in DOMAIN log.entries /\ new.entries[k] = log.entries[k]
                /\ now <= log.entries[k].seen + 2 * ResourceLifetime
        /\ \/ new.lastUpdated = log.lastUpdated /\ Expired(log, record) = {}
           \/ /\ new.lastUpdated = now
              /\ Changed(log, record) \cup Expired(log, record) \cup Forgotten(log, record) # {}
    BY <1>2, <2>2, CheckedKnows DEF SilentTypes
  <2>5. \/ Expired(log, record) # {} /\ new.lastUpdated = now
        \/ ~ (now > new.lastUpdated + AccountLifetime)
    BY <1>3, <2>4 DEF Outdated
  <2>6. \A k \in DOMAIN kvs'[acc] : Knows(new, k, kvs'[acc][k])
    BY <1>3, <2>1, <2>4 DEF Survives
  <2>7. /\ now \in Nat /\ new.lastUpdated \in Nat /\ new.lastUpdated <= now
        /\ log.lastUpdated \in Nat /\ log.lastUpdated <= now
        /\ {DealPeriod, ResourceLifetime, AccountLifetime} \subseteq Nat
    BY <1>2, <2>2, <2>3 DEF IsLog, Ordered, SilentTypes
  <2>8. /\ \A k \in DOMAIN new.entries : new.entries[k].seen \in Nat /\ new.entries[k].seen <= now
        /\ \A k \in DOMAIN log.entries : log.entries[k].seen \in Nat
    <3>1. \A k \in DOMAIN log.entries : log.entries[k].seen \in Nat
      BY <2>2 DEF IsLog
    <3> HIDE DEF new
    <3>2. ASSUME NEW k \in DOMAIN new.entries
          PROVE  new.entries[k].seen \in Nat /\ new.entries[k].seen <= new.lastUpdated
      BY <2>3 DEF IsLog, Ordered
    <3>3. QED BY <2>7, <3>1, <3>2
  <2>9. NextDeal(acc)' <= new.lastUpdated + AccountLifetime + DealPeriod
    BY <1>3, <2>5, <2>7
  <2>10. CASE now <= W + DealPeriod
    <3>1. ASSUME NEW k \in DOMAIN new.entries
          PROVE  /\ new.entries[k].seen <= W + DealPeriod
                 /\ NextDeal(acc)' <= new.entries[k].seen + 2 * ResourceLifetime + DealPeriod
      <4> HIDE DEF new, W, log, record
      <4>1. new.entries[k].seen \in Nat /\ new.entries[k].seen <= now
        BY <2>8
      <4>2. now <= new.entries[k].seen + 2 * ResourceLifetime
        <5>1. CASE new.entries[k].seen = now
          BY <2>7, <5>1
        <5>2. CASE new.entries[k].seen # now
          BY <2>4, <5>2
        <5>3. QED BY <5>1, <5>2
      <4>3. QED BY <1>2, <1>3, <2>7, <2>10, <4>1, <4>2
    <3>2. new.lastUpdated <= W + DealPeriod + 2 * ResourceLifetime + DealPeriod
      <4> HIDE DEF new, W
      <4>1. QED BY <1>2, <2>7, <2>10
    <3> HIDE DEF new, W, log, record, n
    <3>3. QED BY <1>3, <1>4, <2>6, <2>9, <3>1, <3>2 DEF Judged
  <2>11. CASE ~ (now <= W + DealPeriod)
    <3>1. /\ Logged(acc)
          /\ \A k \in DOMAIN kvs[acc] : Knows(logs[n][acc], k, kvs[acc][k])
          /\ \A k \in DOMAIN logs[n][acc].entries :
               /\ logs[n][acc].entries[k].seen <= W + DealPeriod
               /\ NextDeal(acc) <= logs[n][acc].entries[k].seen + 2 * ResourceLifetime + DealPeriod
          /\ logs[n][acc].lastUpdated <= W + DealPeriod + 2 * ResourceLifetime + DealPeriod
      BY <1>1, <1>3, <2>11 DEF Judged
    <3>2. log = logs[n][acc]
      BY <1>1, <3>1, LogOfHolder
    <3> HIDE DEF log
    <3>3. Changed(log, record) = {}
      BY <2>1, <3>1, <3>2 DEF Changed, Knows
    <3>4. ASSUME NEW k \in DOMAIN new.entries
          PROVE  /\ new.entries[k].seen <= W + DealPeriod
                 /\ NextDeal(acc)' <= new.entries[k].seen + 2 * ResourceLifetime + DealPeriod
      <4>1. /\ k \in DOMAIN log.entries /\ new.entries[k] = log.entries[k]
            /\ now <= log.entries[k].seen + 2 * ResourceLifetime
        BY <2>4, <3>3
      <4>2. new.entries[k].seen <= W + DealPeriod
        BY <3>1, <3>2, <4>1
      <4>3. new.entries[k].seen \in Nat /\ now <= new.entries[k].seen + 2 * ResourceLifetime
        BY <2>8, <4>1
      <4> HIDE DEF new, W
      <4>4. QED BY <1>3, <2>7, <4>2, <4>3
    <3>5. new.lastUpdated <= W + DealPeriod + 2 * ResourceLifetime + DealPeriod
      <4>1. CASE new.lastUpdated = log.lastUpdated
        BY <3>1, <3>2, <4>1
      <4>2. CASE new.lastUpdated # log.lastUpdated
        <5>1. PICK k \in Expired(log, record) \cup Forgotten(log, record) : new.lastUpdated = now
          BY <2>4, <3>3, <4>2
        <5>2. k \in DOMAIN log.entries
          BY <3>3 DEF Expired, Forgotten, Changed
        <5>3. log.entries[k].seen \in Nat /\ log.entries[k].seen <= W + DealPeriod
          BY <2>8, <3>1, <3>2, <5>2
        <5>4. now <= log.entries[k].seen + 2 * ResourceLifetime + DealPeriod
          BY <1>3, <3>1, <3>2, <5>2
        <5>5. W \in Nat
          BY <1>2
        <5> HIDE DEF new, W
        <5>6. QED BY <2>7, <5>1, <5>3, <5>4, <5>5
      <4>3. QED BY <4>1, <4>2
    <3> HIDE DEF new, W, record, n
    <3>6. QED BY <1>3, <1>4, <2>6, <2>9, <3>4, <3>5 DEF Judged
  <2>12. QED BY <2>10, <2>11
<1>7. QED BY <1>5, <1>6

-----------------------------------------------------------------------------
(* The induction *)

LEMMA AllWatchedKept ==
    ASSUME DealPeriod <= 2 * AccountLifetime, SilentInv, [Next]_vars, IInv', Clock', Hands'
    PROVE  AllWatched'
<1>1. IInv /\ Clock /\ Hands /\ AllWatched
  BY DEF SilentInv
<1>2. SUFFICES ASSUME Undisturbed', NEW acc \in Accounts, kvs'[acc] # NoRecord,
                      NEW k \in DOMAIN kvs'[acc]
               PROVE  Watched(acc, k)'
  BY DEF AllWatched
<1>3. Undisturbed
  BY <1>1, <1>2, Calm
<1>4. /\ now' \in Nat /\ held'[acc] \in Nat /\ kvs'[acc][k] \in Nat /\ DealPeriod \in Nat
  BY <1>2, AccountAssumption DEF IInv, TypeOK, IsRecord
<1>5. NextDeal(acc) \in Nat /\ NextDeal(acc)' \in Nat /\ NextDeal(acc)' <= now' + DealPeriod
  BY <1>1, NextDealSoon, NextDealSoonNext DEF DealSoon
<1>6. ASSUME now' <= kvs'[acc][k] \/ now' <= held'[acc] PROVE Watched(acc, k)'
  BY <1>4, <1>5, <1>6 DEF Watched, Latest
<1>7. CASE Survives(acc, k)
  <2>1. kvs[acc] # NoRecord /\ k \in DOMAIN kvs[acc] /\ kvs'[acc][k] = kvs[acc][k]
    BY <1>7 DEF Survives
  <2>2. Watched(acc, k)
    BY <1>1, <1>3, <2>1 DEF AllWatched
  <2>3. CASE Holds(acc)
    BY <1>1, <1>5, <2>1, <2>2, <2>3, WatchedStays
  <2>4. CASE held'[acc] = now'
    BY <1>4, <1>6, <2>4
  <2>5. CASE DealsWith(holder[acc], acc)
    BY <1>2, <1>3, <1>7, <2>5, DealWatches
  <2>6. QED BY <1>1, <1>2, <2>1, <2>3, <2>4, <2>5, HoldsOrNot
<1>8. CASE ~ Survives(acc, k)
  <2>1. CASE Untouched(acc)
    BY <1>2, <1>8, <2>1 DEF Untouched, Survives
  <2>2. CASE KeptAlive(acc)
    BY <1>2, <1>4, <1>6, <1>8, <2>2 DEF KeptAlive
  <2>3. CASE \E n \in Nodes : Cut(acc, n)
    BY <1>2, <1>8, <2>3 DEF Cut
  <2>4. QED BY <1>1, <1>2, <2>1, <2>2, <2>3, RecordChanges
<1>9. QED BY <1>7, <1>8

LEMMA AllJudgedKept ==
    ASSUME DealPeriod <= 2 * AccountLifetime, SilentInv, [Next]_vars, IInv', Clock', Hands'
    PROVE  AllJudged'
<1>1. IInv /\ Clock /\ Hands /\ AllJudged
  BY DEF SilentInv
<1>2. SUFFICES ASSUME Undisturbed', NEW acc \in Accounts, kvs'[acc] # NoRecord
               PROVE  Judged(acc)'
  BY DEF AllJudged
<1>3. Undisturbed
  BY <1>1, <1>2, Calm
<1>4. now' \in Nat /\ held'[acc] \in Nat /\ written'[acc] \in Nat /\ DealPeriod \in Nat
  BY AccountAssumption DEF IInv, TypeOK
<1>5. NextDeal(acc) \in Nat /\ NextDeal(acc)' \in Nat /\ NextDeal(acc)' <= now' + DealPeriod
  BY <1>1, NextDealSoon, NextDealSoonNext DEF DealSoon
<1>6. ASSUME now' <= written'[acc] \/ now' <= held'[acc] PROVE Judged(acc)'
  BY <1>4, <1>5, <1>6 DEF Judged, Latest
<1>7. ASSUME kvs[acc] # NoRecord, written'[acc] = written[acc],
             \A k \in DOMAIN kvs'[acc] : Survives(acc, k)
      PROVE  Judged(acc)'
  <2>1. Judged(acc)
    BY <1>1, <1>3, <1>7 DEF AllJudged
  <2>2. CASE Holds(acc)
    BY <1>1, <1>5, <1>7, <2>1, <2>2, JudgedStays
  <2>3. CASE held'[acc] = now'
    BY <1>4, <1>6, <2>3
  <2>4. CASE DealsWith(holder[acc], acc)
    BY <1>2, <1>3, <1>7, <2>4, DealJudges
  <2>5. QED BY <1>1, <1>2, <1>7, <2>2, <2>3, <2>4, HoldsOrNot
<1>8. CASE Untouched(acc)
  BY <1>2, <1>7, <1>8 DEF Untouched, Survives
<1>9. CASE KeptAlive(acc)
  BY <1>4, <1>6, <1>9 DEF KeptAlive
<1>10. ASSUME NEW n \in Nodes, Cut(acc, n) PROVE Judged(acc)'
  <2>1. kvs[acc] # NoRecord /\ written' = written
    BY <1>1, <1>10 DEF Cut, DealsWith, Hands, Dealing, history
  <2>2. QED BY <1>7, <1>10, <2>1 DEF Cut
<1>11. QED BY <1>1, <1>2, <1>8, <1>9, <1>10, RecordChanges

LEMMA SilentInit == Init => SilentInv
<1> SUFFICES ASSUME Init PROVE SilentInv
  OBVIOUS
<1>1. IInv /\ Clock
  BY InitGood, LiveInit DEF LiveInv
<1>2. \A n \in Nodes : DOMAIN mgr[n].resources = {}
  BY DEF Init, Down
<1>3. Hands
  BY <1>2, AccountAssumption DEF Init, Hands, Up, Dealing, Down
<1>4. Copies /\ AllWatched /\ AllJudged
  BY <1>2 DEF Init, Copies, Dealing, AllWatched, AllJudged
<1>5. QED BY <1>1, <1>3, <1>4 DEF SilentInv

LEMMA SilentKept ==
    ASSUME DealPeriod <= 2 * AccountLifetime, SilentInv, [Next]_vars
    PROVE  SilentInv'
<1>1. IInv /\ Clock /\ Hands /\ Copies
  BY DEF SilentInv
<1>2. IInv' /\ Clock' /\ Hands' /\ Copies'
  BY <1>1, Inductive, ClockKept, HandsKept, CopiesKept
<1>3. QED BY <1>2, AllWatchedKept, AllJudgedKept DEF SilentInv

(* What is not refreshed is dropped from a record in time, by whoever has   *)
(* it: the holder sees the entry within a period of dealing and finds it    *)
(* expired within another, if it deals often enough to keep its log.        *)
THEOREM SilentAreUnlisted ==
    ASSUME DealPeriod <= 2 * AccountLifetime
    PROVE  Spec => []SilentUnlisted
<1>1. SilentInv => SilentUnlisted
  <2> SUFFICES ASSUME SilentInv, Undisturbed, NEW acc \in Accounts, kvs[acc] # NoRecord,
                      NEW k \in DOMAIN kvs[acc]
               PROVE  now <= Latest(kvs[acc][k], acc) + ResourceLifetime + 2 * DealPeriod
    BY DEF SilentUnlisted
  <2>1. IInv /\ Clock /\ Hands /\ Watched(acc, k)
    BY DEF SilentInv, AllWatched
  <2>2. SilentTypes(acc) /\ NextDeal(acc) \in Nat /\ now <= NextDeal(acc)
    BY <2>1, SilentTyped, NextDealSoon
  <2>3. Latest(kvs[acc][k], acc) \in Nat
    BY <2>2 DEF Latest, SilentTypes
  <2>4. CASE NextDeal(acc) <= Latest(kvs[acc][k], acc) + DealPeriod
    BY <2>2, <2>3, <2>4 DEF SilentTypes
  <2>5. CASE ~ (NextDeal(acc) <= Latest(kvs[acc][k], acc) + DealPeriod)
    <3>1. PICK e : /\ Logged(acc) /\ k \in DOMAIN logs[holder[acc]][acc].entries
                   /\ e = logs[holder[acc]][acc].entries[k].seen
                   /\ e <= Latest(kvs[acc][k], acc) + DealPeriod
                   /\ NextDeal(acc) <= e + ResourceLifetime + DealPeriod
      BY <2>1, <2>5 DEF Watched, Knows
    <3>2. e \in Nat
      BY <2>2, <3>1 DEF SilentTypes, Logged, IsLog
    <3>3. QED BY <2>2, <2>3, <3>1, <3>2 DEF SilentTypes
  <2>6. QED BY <2>4, <2>5
<1>2. SilentInv /\ [Next]_vars => SilentInv'
  BY SilentKept
<1>3. QED BY <1>1, <1>2, SilentInit, PTL DEF Spec

(* The record that nobody writes is removed in time: the holder drops the   *)
(* last entry a lifetime after it saw it, its log forgets it a lifetime     *)
(* later, and then nothing changes the log before the record's time is up.  *)
THEOREM SilentAreRemoved ==
    ASSUME DealPeriod <= 2 * AccountLifetime
    PROVE  Spec => []SilentRemoved
<1>1. SilentInv => SilentRemoved
  <2> SUFFICES ASSUME SilentInv, Undisturbed, NEW acc \in Accounts, kvs[acc] # NoRecord
               PROVE  now <= Latest(written[acc], acc) + 2 * ResourceLifetime + AccountLifetime
                             + 3 * DealPeriod
    BY DEF SilentRemoved
  <2>1. IInv /\ Clock /\ Hands /\ Judged(acc)
    BY DEF SilentInv, AllJudged
  <2>2. SilentTypes(acc) /\ NextDeal(acc) \in Nat /\ now <= NextDeal(acc)
    BY <2>1, SilentTyped, NextDealSoon
  <2>3. Latest(written[acc], acc) \in Nat
    BY <2>2 DEF Latest, SilentTypes
  <2>4. CASE NextDeal(acc) <= Latest(written[acc], acc) + DealPeriod
    BY <2>2, <2>3, <2>4 DEF SilentTypes
  <2>5. CASE ~ (NextDeal(acc) <= Latest(written[acc], acc) + DealPeriod)
    <3>1. PICK u : /\ Logged(acc) /\ u = logs[holder[acc]][acc].lastUpdated
                   /\ u <= Latest(written[acc], acc) + DealPeriod + 2 * ResourceLifetime + DealPeriod
                   /\ NextDeal(acc) <= u + AccountLifetime + DealPeriod
      BY <2>1, <2>5 DEF Judged
    <3>2. u \in Nat
      BY <2>2, <3>1 DEF SilentTypes, Logged, IsLog
    <3>3. QED BY <2>2, <2>3, <3>1, <3>2 DEF SilentTypes
  <2>6. QED BY <2>4, <2>5
<1>2. SilentInv /\ [Next]_vars => SilentInv'
  BY SilentKept
<1>3. QED BY <1>1, <1>2, SilentInit, PTL DEF Spec
=============================================================================
