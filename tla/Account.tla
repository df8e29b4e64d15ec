------------------------------ MODULE Account ------------------------------
(***************************************************************************)
(* The account records (node/controller/account.go, node/kvs/account.go)   *)
(* and the keep-alive of the nodes (node/manager.go).  Every node writes   *)
(* itself, and the pods it has, into the records of its own account and of *)
(* the pods' owners; the node that holds a record in its part of the KVS   *)
(* drops what is not refreshed any more, and at last the record itself.    *)
(*                                                                         *)
(* A manager is one goroutine, so a node deals with its local resources or *)
(* keeps alive, never both.  Between the Get and the Set of one node the   *)
(* others go on.  A map of pods and a map of nodes are one map of keys.    *)
(***************************************************************************)
EXTENDS Naturals, FiniteSets, Functions

CONSTANTS
    Nodes, Pods, Accounts,
    NoAccount,          \* the owner of an entry whose pod has not been read
    NoRecord, NoLog,
    AccountOf,          \* the account of a node
    PodsAt,             \* the pods a node has while it is up, as GetContainerInfos tells
    Owner,              \* the owner of a pod, as reconcileState knows it
    First,              \* the node that is up when the others come
    KeepAlivePeriod,    \* 30 s
    DealPeriod,         \* 3 s
    ResourceLifetime,   \* ACCOUNT_STATE_RESOURCE_LIFETIME, 180 s
    AccountLifetime,    \* ACCOUNT_LIFETIME, 600 s
    MaxTime,
    MaxEvents           \* how often a node leaves, a record moves, a call fails or
                        \* a newer record is overwritten

Keys == Nodes \cup Pods

ASSUME AccountAssumption ==
    /\ Nodes \cap Pods = {}
    /\ NoAccount \notin Accounts
    /\ \A K \in SUBSET Keys :
        /\ NoRecord \notin [K -> Nat]
        /\ NoLog \notin [lastUpdated : Nat, lastChecked : Nat,
                          entries : [K -> [seen : Nat, stamp : Nat]]]
    /\ AccountOf \in [Nodes -> Accounts]
    /\ First \in Nodes
    /\ PodsAt \in [Nodes -> SUBSET Pods]
    /\ Owner \in [Pods -> Accounts \cup {NoAccount}]
    /\ {KeepAlivePeriod, DealPeriod, ResourceLifetime, AccountLifetime} \subseteq Nat
    /\ ResourceLifetime <= AccountLifetime

(* A record names what was alive, and when it said so. *)
IsRecord(r) == DOMAIN r \subseteq Keys /\ r \in [DOMAIN r -> Nat]

VARIABLES
    now,
    kvs,        \* the records
    holder,     \* the node that has a record in its part of the KVS
    mgr,        \* the goroutine of Manager.Start
    keepDue, dealDue,   \* when the tickers of a manager fire next
    logs,       \* accountControllerImpl.logs of each node
    used,       \* how often an event that is bounded has happened
    written,    \* history: when a keep-alive last wrote a record
    held        \* history: since when its holder has a record

vars == <<now, kvs, holder, mgr, keepDue, dealDue, logs, used, written, held>>
tickers == <<keepDue, dealDue>>
history == <<written, held>>

Counters == {"changes", "mishaps"}

(* A manager that is busy knows the accounts it has still to write, the one *)
(* it has read and what it read there, or the local records as GetResources *)
(* returned them.                                                           *)
Down == [pc |-> "down", todo |-> {}, acc |-> NoAccount,
         copy |-> NoRecord, resources |-> <<>>]
Idle == [Down EXCEPT !.pc = "idle"]

Up(n) == mgr[n].pc # "down"

Spend(event) ==
    /\ used["changes"] + used["mishaps"] < MaxEvents
    /\ used' = [used EXCEPT ![event] = @ + 1]

(* The copy that is written back was read before somebody else's write.     *)
Writes(acc, copy, record) ==
    /\ kvs' = [kvs EXCEPT ![acc] = record]
    /\ IF kvs[acc] = copy THEN UNCHANGED used ELSE Spend("mishaps")

Init ==
    /\ now = 0
    /\ kvs = [acc \in Accounts |-> NoRecord]
    /\ holder = [acc \in Accounts |-> First]
    /\ mgr = [n \in Nodes |-> IF n = First THEN [Down EXCEPT !.pc = "starting"] ELSE Down]
    /\ keepDue = [n \in Nodes |-> 0]
    /\ dealDue = [n \in Nodes |-> 0]
    /\ logs = [n \in Nodes |-> [acc \in Accounts |-> NoLog]]
    /\ used = [event \in Counters |-> 0]
    /\ written = [acc \in Accounts |-> 0]
    /\ held = [acc \in Accounts |-> 0]

-----------------------------------------------------------------------------
(* keepAlive *)

Rest(n) == mgr' = [mgr EXCEPT ![n] = Idle]

(* The first keepAlive runs before the tickers do.                          *)
KeepAliveDue(n) ==
    \/ mgr[n].pc = "starting"
    \/ mgr[n].pc = "idle" /\ keepDue[n] <= now

(* The keys of accPodStates, of which those before have been written        *)
ToUpdate(n) ==
    IF mgr[n].pc = "keepalive" THEN mgr[n].todo
    ELSE {AccountOf[n]} \cup {Owner[p] : p \in PodsAt[n]}

NextDue(n) ==
    /\ keepDue' = IF KeepAliveDue(n) THEN [keepDue EXCEPT ![n] = now + KeepAlivePeriod] ELSE keepDue
    /\ dealDue' = IF mgr[n].pc = "starting" THEN [dealDue EXCEPT ![n] = now + DealPeriod] ELSE dealDue

(* getOrCreateAccount for one of the accounts, in any order *)
KeepAliveGet(n) ==
    /\ mgr[n].pc = "keepalive" \/ KeepAliveDue(n)
    /\ \E acc \in ToUpdate(n) \cap Accounts :
        mgr' = [mgr EXCEPT ![n].pc = "write", ![n].todo = ToUpdate(n),
                           ![n].acc = acc, ![n].copy = kvs[acc]]
    /\ NextDue(n)
    /\ UNCHANGED <<now, kvs, holder, logs, used, history>>

(* The record of an owner without a name is invalid; the error ends the     *)
(* loop over the accounts.                                                  *)
KeepAliveInvalid(n) ==
    /\ mgr[n].pc = "keepalive" \/ KeepAliveDue(n)
    /\ NoAccount \in ToUpdate(n)
    /\ Rest(n)
    /\ NextDue(n)
    /\ UNCHANGED <<now, kvs, holder, logs, used, history>>

(* What a node says about itself and its pods in the record of acc *)
Alive(n) ==
    LET acc == mgr[n].acc
        mine == {p \in PodsAt[n] : Owner[p] = acc} \cup {m \in {n} : AccountOf[m] = acc}
    IN  [k \in mine |-> now]

Merge(record, news) ==
    LET old == IF record = NoRecord THEN {} ELSE DOMAIN record IN
    [k \in old \cup DOMAIN news |-> IF k \in DOMAIN news THEN news[k] ELSE record[k]]

KeepAliveSet(n) ==
    LET acc == mgr[n].acc IN
    /\ mgr[n].pc = "write"
    /\ Writes(acc, mgr[n].copy, Merge(mgr[n].copy, Alive(n)))
    /\ written' = [written EXCEPT ![acc] = now]
    /\ IF mgr[n].todo = {acc}
       THEN Rest(n)
       ELSE mgr' = [mgr EXCEPT ![n].pc = "keepalive", ![n].todo = @ \ {acc},
                               ![n].acc = NoAccount, ![n].copy = NoRecord]
    /\ UNCHANGED <<now, holder, tickers, logs, held>>

(* A KVS call fails: what this keepAlive had still to do is left to the     *)
(* next one.                                                                *)
KeepAliveFails(n) ==
    /\ mgr[n].pc \in {"keepalive", "write"} \/ KeepAliveDue(n)
    /\ Spend("mishaps")
    /\ Rest(n)
    /\ NextDue(n)
    /\ UNCHANGED <<now, kvs, holder, logs, history>>

-----------------------------------------------------------------------------
(* DealLocalResource *)

Local(n) == {acc \in Accounts : holder[acc] = n /\ kvs[acc] # NoRecord}

Deal(n) ==
    /\ mgr[n].pc = "idle" /\ dealDue[n] <= now
    /\ mgr' = [mgr EXCEPT ![n] =
            IF Local(n) = {} THEN Idle
            ELSE [Idle EXCEPT !.pc = "deal",
                              !.resources = [acc \in Local(n) |-> kvs[acc]]]]
    /\ dealDue' = [dealDue EXCEPT ![n] = now + DealPeriod]
    /\ UNCHANGED <<now, kvs, holder, keepDue, logs, used, history>>

LogOf(n, acc) ==
    IF logs[n][acc] = NoLog
    THEN [lastUpdated |-> now, lastChecked |-> now, entries |-> <<>>]
    ELSE logs[n][acc]

ChangedNew(log, record) == {k \in DOMAIN record : k \notin DOMAIN log.entries}

Changed(log, record) ==
    {k \in DOMAIN record : k \notin DOMAIN log.entries \/ log.entries[k].stamp # record[k]}

ExpiredLate(log, record) ==
    {k \in DOMAIN record \ Changed(log, record) : now > log.entries[k].seen + 2 * ResourceLifetime}

Expired(log, record) ==
    {k \in DOMAIN record \ Changed(log, record) : now > log.entries[k].seen + ResourceLifetime}

Forgotten(log, record) ==
    {k \in DOMAIN log.entries \ Changed(log, record) :
        now > log.entries[k].seen + 2 * ResourceLifetime}

CheckedAsUpdate(log, record) ==
    LET changed == Changed(log, record) IN
    [lastUpdated |-> now, lastChecked |-> now,
     entries |-> [k \in (DOMAIN log.entries \cup changed) \ Forgotten(log, record) |->
                    IF k \in changed THEN [seen |-> now, stamp |-> record[k]]
                    ELSE log.entries[k]]]

CheckedKeepsTime(log, record) ==
    LET changed == Changed(log, record) IN
    [lastUpdated |-> log.lastUpdated, lastChecked |-> now,
     entries |-> [k \in (DOMAIN log.entries \cup changed) \ Forgotten(log, record) |->
                    IF k \in changed THEN [seen |-> now, stamp |-> record[k]]
                    ELSE log.entries[k]]]

Checked(log, record) ==
    LET changed == Changed(log, record)
        forgotten == Forgotten(log, record)
    IN  [lastUpdated |-> IF changed \cup Expired(log, record) \cup forgotten = {}
                         THEN log.lastUpdated ELSE now,
         lastChecked |-> now,
         entries |-> [k \in (DOMAIN log.entries \cup changed) \ forgotten |->
                        IF k \in changed THEN [seen |-> now, stamp |-> record[k]]
                        ELSE log.entries[k]]]

(* The log of another account is dropped when it has not been of use.       *)
Cleaned(log) ==
    IF log # NoLog /\ now > log.lastChecked + 2 * AccountLifetime THEN NoLog ELSE log

Check(n, acc) ==
    logs' = [logs EXCEPT ![n] = [other \in Accounts |->
                IF other = acc THEN Checked(LogOf(n, acc), mgr[n].resources[acc])
                ELSE Cleaned(logs[n][other])]]

Outdated(n, acc) ==
    LET record == mgr[n].resources[acc]
        log == LogOf(n, acc)
    IN  Expired(log, record) = {} /\ now > Checked(log, record).lastUpdated + AccountLifetime

(* What DealLocalResource leaves of the record it was given *)
Dealt(n, acc) ==
    LET record == mgr[n].resources[acc]
        alive == DOMAIN record \ Expired(LogOf(n, acc), record)
    IN  IF Outdated(n, acc) THEN NoRecord ELSE Restrict(record, alive)

DealRecord(n) ==
    \E acc \in DOMAIN mgr[n].resources :
        LET record == mgr[n].resources[acc] IN
        /\ mgr[n].pc = "deal"
        /\ Check(n, acc)
        /\ IF Dealt(n, acc) = record
           THEN UNCHANGED <<kvs, used>>
           ELSE Writes(acc, record, Dealt(n, acc))
        /\ IF DOMAIN mgr[n].resources = {acc}
           THEN Rest(n)
           ELSE mgr' = [mgr EXCEPT ![n].resources = Restrict(@, DOMAIN @ \ {acc})]
        /\ UNCHANGED <<now, holder, tickers, history>>

(* The Set of a record fails after its log was changed, and ends the tick.  *)
DealFails(n) ==
    \E acc \in DOMAIN mgr[n].resources :
        /\ mgr[n].pc = "deal"
        /\ Dealt(n, acc) # mgr[n].resources[acc]
        /\ Check(n, acc)
        /\ Spend("mishaps")
        /\ Rest(n)
        /\ UNCHANGED <<now, kvs, holder, tickers, history>>

-----------------------------------------------------------------------------
(* The nodes, their pods and the KVS *)

NodeStarts(n) ==
    /\ mgr[n].pc = "down"
    /\ mgr' = [mgr EXCEPT ![n].pc = "starting"]
    /\ UNCHANGED <<now, kvs, holder, tickers, logs, used, history>>

(* The page of a node closes; another node gets its part of the KVS.        *)
NodeLeaves(n) ==
    /\ Up(n)
    /\ \E m \in Nodes \ {n} :
        /\ Up(m)
        /\ holder' = [acc \in Accounts |-> IF holder[acc] = n THEN m ELSE holder[acc]]
    /\ Spend("changes")
    /\ mgr' = [mgr EXCEPT ![n] = Down]
    /\ logs' = [logs EXCEPT ![n] = [acc \in Accounts |-> NoLog]]
    /\ held' = [acc \in Accounts |-> IF holder[acc] = n THEN now ELSE held[acc]]
    /\ UNCHANGED <<now, kvs, tickers, written>>

HolderMoves(acc) ==
    /\ \E n \in Nodes \ {holder[acc]} : Up(n) /\ holder' = [holder EXCEPT ![acc] = n]
    /\ held' = [held EXCEPT ![acc] = now]
    /\ Spend("changes")
    /\ UNCHANGED <<now, kvs, mgr, tickers, logs, written>>

(* A tick of a manager is short compared to the periods of its tickers.     *)
Punctual(n) ==
    \/ mgr[n].pc = "down"
    \/ mgr[n].pc = "idle" /\ now < keepDue[n] /\ now < dealDue[n]

Tick ==
    /\ now < MaxTime
    /\ \A n \in Nodes : Punctual(n)
    /\ now' = now + 1
    /\ UNCHANGED <<kvs, holder, mgr, tickers, logs, used, history>>

NodeStep(n) ==
    \/ KeepAliveGet(n) \/ KeepAliveInvalid(n) \/ KeepAliveSet(n)
    \/ KeepAliveFails(n)
    \/ Deal(n) \/ DealRecord(n) \/ DealFails(n)
    \/ NodeStarts(n) \/ NodeLeaves(n)

Next == Tick \/ (\E n \in Nodes : NodeStep(n)) \/ (\E acc \in Accounts : HolderMoves(acc))

Spec == Init /\ [][Next]_vars

-----------------------------------------------------------------------------
(* Invariants *)

IsLog(log) ==
    /\ log \in [lastUpdated : Nat, lastChecked : Nat, entries : {log.entries}]
    /\ DOMAIN log.entries \subseteq Keys
    /\ log.entries \in [DOMAIN log.entries -> [seen : Nat, stamp : Nat]]

IsManager(m) ==
    /\ m \in [pc : {"down", "starting", "idle", "keepalive", "write", "deal"},
              todo : SUBSET (Accounts \cup {NoAccount}), acc : Accounts \cup {NoAccount},
              copy : {m.copy}, resources : {m.resources}]
    /\ m.copy # NoRecord => IsRecord(m.copy)
    /\ DOMAIN m.resources \subseteq Accounts
    /\ \A acc \in DOMAIN m.resources : IsRecord(m.resources[acc])
    /\ m.pc = "write" => m.acc \in m.todo \cap Accounts
    /\ m.pc = "deal" <=> DOMAIN m.resources # {}

(* Every value has its type; a manager holds what its place in the code     *)
(* needs, and nothing when it waits for its tickers.                        *)
TypeOK ==
    /\ now \in Nat
    /\ kvs \in [Accounts -> {kvs[acc] : acc \in Accounts}]
    /\ \A acc \in Accounts : kvs[acc] # NoRecord => IsRecord(kvs[acc])
    /\ holder \in [Accounts -> Nodes]
    /\ mgr \in [Nodes -> {mgr[n] : n \in Nodes}]
    /\ \A n \in Nodes : IsManager(mgr[n])
    /\ keepDue \in [Nodes -> Nat] /\ dealDue \in [Nodes -> Nat]
    /\ logs \in [Nodes -> {logs[n] : n \in Nodes}]
    /\ \A n \in Nodes : /\ logs[n] \in [Accounts -> {logs[n][acc] : acc \in Accounts}]
                        /\ \A acc \in Accounts : logs[n][acc] # NoLog => IsLog(logs[n][acc])
    /\ used \in [Counters -> Nat]
    /\ written \in [Accounts -> Nat] /\ held \in [Accounts -> Nat]

Ordered(log) ==
    /\ log.lastUpdated <= now
    /\ \A k \in DOMAIN log.entries : log.entries[k].seen <= log.lastUpdated

(* A log was changed last no earlier than any of its entries was refreshed, *)
(* on every path through DealLocalResource.                                 *)
LogsOrdered ==
    \A n \in Nodes, acc \in Accounts : logs[n][acc] # NoLog => Ordered(logs[n][acc])

(* A record is given up for its age only when it says nothing any more:     *)
(* whatever copy of a record a node has in hand, and however old its log of *)
(* it is, it drops the record's keys before it drops the record.            *)
OnlyEmptyRemoved ==
    \A n \in Nodes : \A acc \in DOMAIN mgr[n].resources :
        Outdated(n, acc) => DOMAIN mgr[n].resources[acc] = {}

Undisturbed == used["mishaps"] = 0

Unread(n) == \E p \in PodsAt[n] : Owner[p] = NoAccount

Listed(n) == kvs[AccountOf[n]] # NoRecord /\ n \in DOMAIN kvs[AccountOf[n]]

(* A node that keeps alive is listed in the record of its account, as long  *)
(* as no copy of the record was written over a newer one and no call failed, *)
(* and it knows the owners of all pods it has.                              *)
LiveListed ==
    Undisturbed => \A n \in Nodes : mgr[n].pc = "idle" /\ ~ Unread(n) => Listed(n)

Latest(t, acc) == IF t < held[acc] THEN held[acc] ELSE t

(* What is not refreshed is dropped in time: the holder sees it within a    *)
(* period of dealing, and finds it expired within another.                  *)
SilentUnlisted ==
    Undisturbed => \A acc \in Accounts : kvs[acc] # NoRecord =>
        \A k \in DOMAIN kvs[acc] :
            now <= Latest(kvs[acc][k], acc) + ResourceLifetime + 2 * DealPeriod

(* The record that nobody writes is removed in time, though the log of it   *)
(* changes once more when it forgets the last key.                          *)
SilentRemoved ==
    Undisturbed => \A acc \in Accounts : kvs[acc] # NoRecord =>
        now <= Latest(written[acc], acc) + 2 * ResourceLifetime + AccountLifetime + 3 * DealPeriod
=============================================================================
