---- MODULE LocalStores ----
(***************************************************************************)
(* The stores of the laptop profiles: two tables of one SQLite file, which *)
(* the adapters over them create and seed when they are constructed        *)
(* (adapters/local/knowledge.py, adapters/local/scanner.py). An adapter is *)
(* constructed when its port is first touched: Container.cached_property   *)
(* takes no lock, so workers of one process can construct it at once, and  *)
(* so can processes on one file (the API, each command, each tool call).   *)
(***************************************************************************)
EXTENDS Naturals

CONSTANTS
    Process,
    Worker,     \* whatever handles one request or command at a time
    Home        \* the process that a worker is of
ASSUME HomeAssumption == Home \in [Worker -> Process]

VARIABLES
    created,    \* the tables that are there
    copies,     \* how many copies of the built-in corpus each holds, committed
    bound,      \* the ports of a process whose adapter is constructed
    stage,      \* where each worker is
    port,       \* the port it needs
    drafted,    \* the copies its open transaction leaves
    seen        \* the copies it has read, with its last request

vars == <<created, copies, bound, stage, port, drafted, seen>>

Table == {"passages", "resources"}

\* The nested scan service of a process has a container of its own.
Port == {"knowledge_base", "scanner", "nested scanner"}
TableOf(p) == IF p = "knowledge_base" THEN "passages" ELSE "resources"

\* deleted: in a transaction that has cleared the table and not yet filled it.
Stage == {"idle", "connected", "created", "empty", "deleted", "open", "read", "failed"}
Constructing == {"connected", "created", "empty", "deleted"}

\* A transaction that has written holds the write lock of the file.
Writers == {w \in Worker : stage[w] = "deleted"}

Init ==
    /\ created = {}
    /\ copies = [t \in Table |-> 0]
    /\ bound = [p \in Process |-> {}]
    /\ stage = [w \in Worker |-> "idle"]
    /\ port = [w \in Worker |-> "scanner"]
    /\ drafted = [w \in Worker |-> 0]
    /\ seen = [w \in Worker |-> {}]

\* A bug to catch: the port counts as bound while its adapter is constructed.
TouchBinding(w, p) ==
    /\ stage[w] \in {"idle", "read", "failed"}
    /\ port' = [port EXCEPT ![w] = p]
    /\ stage' = [stage EXCEPT ![w] = IF p \in bound[Home[w]] THEN "open" ELSE "connected"]
    /\ bound' = [bound EXCEPT ![Home[w]] = @ \cup {p}]
    /\ seen' = [seen EXCEPT ![w] = {}]
    /\ UNCHANGED <<created, copies, drafted>>

\* A worker touches a port: the adapter is there, or it constructs one.
Touch(w, p) ==
    /\ stage[w] \in {"idle", "read", "failed"}
    /\ port' = [port EXCEPT ![w] = p]
    /\ stage' = [stage EXCEPT ![w] = IF p \in bound[Home[w]] THEN "open" ELSE "connected"]
    /\ seen' = [seen EXCEPT ![w] = {}]
    /\ UNCHANGED <<created, copies, bound, drafted>>

\* CREATE TABLE IF NOT EXISTS: it writes only when there is something to create.
CreateTable(w) ==
    /\ stage[w] = "connected"
    /\ TableOf(port[w]) \notin created => Writers = {}
    /\ created' = created \cup {TableOf(port[w])}
    /\ stage' = [stage EXCEPT ![w] = "created"]
    /\ UNCHANGED <<copies, bound, port, drafted, seen>>

\* _is_empty, _has_scope: a read of its own. An adapter that need not seed is
\* constructed, and takes the place of one that another worker bound meanwhile.
FindSeeded(w) ==
    /\ stage[w] = "created"
    /\ copies[TableOf(port[w])] > 0
    /\ bound' = [bound EXCEPT ![Home[w]] = @ \cup {port[w]}]
    /\ stage' = [stage EXCEPT ![w] = "open"]
    /\ UNCHANGED <<created, copies, port, drafted, seen>>

FindEmpty(w) ==
    /\ stage[w] = "created"
    /\ copies[TableOf(port[w])] = 0
    /\ stage' = [stage EXCEPT ![w] = "empty"]
    /\ UNCHANGED <<created, copies, bound, port, drafted, seen>>

\* A bug to catch: what was found empty is not cleared before it is filled.
DeleteNothing(w) ==
    /\ stage[w] = "empty"
    /\ Writers = {}
    /\ drafted' = [drafted EXCEPT ![w] = copies[TableOf(port[w])]]
    /\ stage' = [stage EXCEPT ![w] = "deleted"]
    /\ UNCHANGED <<created, copies, bound, port, seen>>

\* A bug to catch: a connection that commits every statement by itself.
DeleteCommitted(w) ==
    /\ stage[w] = "empty"
    /\ Writers = {}
    /\ copies' = [copies EXCEPT ![TableOf(port[w])] = 0]
    /\ drafted' = [drafted EXCEPT ![w] = 0]
    /\ stage' = [stage EXCEPT ![w] = "deleted"]
    /\ UNCHANGED <<created, bound, port, seen>>

\* seed, first statement: it opens the transaction once nobody else writes. What
\* was found empty may have been filled by then.
Delete(w) ==
    /\ stage[w] = "empty"
    /\ Writers = {}
    /\ drafted' = [drafted EXCEPT ![w] = 0]
    /\ stage' = [stage EXCEPT ![w] = "deleted"]
    /\ UNCHANGED <<created, copies, bound, port, seen>>

\* seed, the rest: the rows are inserted and committed; the constructor returns.
Insert(w) ==
    /\ stage[w] = "deleted"
    /\ copies' = [copies EXCEPT ![TableOf(port[w])] = drafted[w] + 1]
    /\ bound' = [bound EXCEPT ![Home[w]] = @ \cup {port[w]}]
    /\ stage' = [stage EXCEPT ![w] = "open"]
    /\ UNCHANGED <<created, port, drafted, seen>>

\* A bug to catch: a statement that cannot have the lock is tried for ever.
RaiseUnlessWaiting(w) ==
    /\ stage[w] = "deleted"
    /\ stage' = [stage EXCEPT ![w] = "failed"]
    /\ UNCHANGED <<created, copies, bound, port, drafted, seen>>

\* A statement raises (the lock is not had in time, the disk is full): the
\* connection goes with the adapter, and what it had not committed with it.
Raise(w) ==
    /\ stage[w] \in Constructing
    /\ stage' = [stage EXCEPT ![w] = "failed"]
    /\ UNCHANGED <<created, copies, bound, port, drafted, seen>>

\* retrieve, scan.
Read(w) ==
    /\ stage[w] = "open"
    /\ seen' = [seen EXCEPT ![w] = {copies[TableOf(port[w])]}]
    /\ stage' = [stage EXCEPT ![w] = "read"]
    /\ UNCHANGED <<created, copies, bound, port, drafted>>

\* The process ends, or is killed; the next one on the file binds anew.
Stop(p) ==
    /\ bound' = [bound EXCEPT ![p] = {}]
    /\ stage' = [w \in Worker |-> IF Home[w] = p THEN "idle" ELSE stage[w]]
    /\ seen' = [w \in Worker |-> IF Home[w] = p THEN {} ELSE seen[w]]
    /\ UNCHANGED <<created, copies, port, drafted>>

Construct(w) ==
    CreateTable(w) \/ FindSeeded(w) \/ FindEmpty(w) \/ Delete(w) \/ Insert(w) \/ Raise(w)

Next ==
    \/ \E w \in Worker, p \in Port : Touch(w, p)
    \/ \E w \in Worker : Construct(w) \/ Read(w)
    \/ \E p \in Process : Stop(p)

Spec == Init /\ [][Next]_vars

\* A worker runs on until it has read or failed; nobody has to touch a port, and
\* no process has to end.
FairSpec == Spec /\ \A w \in Worker : WF_vars(Construct(w) \/ Read(w))

----------------------------------------------------------------------------
\* The variables have their types, and a bound adapter has its table.
TypeOK ==
    /\ created \subseteq Table
    /\ copies \in [Table -> Nat]
    /\ bound \in [Process -> SUBSET Port]
    /\ stage \in [Worker -> Stage]
    /\ port \in [Worker -> Port]
    /\ drafted \in [Worker -> Nat]
    /\ seen \in [Worker -> SUBSET Nat]
    /\ \A p \in Process : \A q \in bound[p] : TableOf(q) \in created

\* Whoever reads a store finds the built-in corpus in it once: neither nothing,
\* because another one is seeding it or stopped half way, nor every citation (or
\* resource) twice, because two of them seeded it.
CorpusIsExact == \A w \in Worker : seen[w] \subseteq {1}

\* What has been seeded stays seeded, for every reader of the file, whatever the
\* others construct, raise or leave undone (seed replaces it in one transaction).
SeededOnceForAll == [][\A t \in Table : copies[t] > 0 => copies'[t] = copies[t]]_vars

\* Every request that needs a store gets to read it, or is told that it failed:
\* waiting for the lock of the file ends.
EveryTouchEnds ==
    \A w \in Worker : stage[w] \in Constructing \cup {"open"}
        ~> stage[w] \in {"read", "failed", "idle"}
====
