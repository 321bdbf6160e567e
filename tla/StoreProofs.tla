---- MODULE StoreProofs ----
(***************************************************************************)
(* Proofs about the local stores, for any number of processes and workers  *)
(* on one file.                                                            *)
(***************************************************************************)
EXTENDS LocalStores, TLAPS

\* Past CREATE TABLE a constructor has its table.
TablesExist ==
    \A w \in Worker :
        stage[w] \in {"created", "empty", "deleted", "open"} => TableOf(port[w]) \in created

\* A store holds the corpus once or not at all. Whoever has cleared it is going
\* to leave one copy, and whoever has come past the construction of its adapter
\* finds it seeded: so does every process that has bound the port.
SeededWhereBound ==
    /\ \A t \in Table : copies[t] \in 0..1
    /\ \A w \in Worker : stage[w] = "deleted" => drafted[w] = 0
    /\ \A w \in Worker : stage[w] = "open" => copies[TableOf(port[w])] = 1
    /\ \A p \in Process : \A q \in bound[p] : copies[TableOf(q)] = 1

StoresInv == TypeOK /\ TablesExist

CorpusInv == StoresInv /\ SeededWhereBound /\ CorpusIsExact

\* Each port of a store is over one of the two tables.
LEMMA TablesOfPorts == \A p \in Port : TableOf(p) \in Table
BY DEF Port, Table, TableOf

\* Every step of the stores, by itself.
LEMMA StoresInvKept == StoresInv /\ [Next]_vars => StoresInv'
<1> SUFFICES ASSUME StoresInv, [Next]_vars PROVE TypeOK' /\ TablesExist'
    BY DEF StoresInv
<1> USE HomeAssumption, TablesOfPorts DEF StoresInv, TypeOK, TablesExist, Stage, Constructing
<1>1. CASE UNCHANGED vars
    BY <1>1 DEF vars
<1>2. ASSUME NEW w \in Worker, NEW p \in Port, Touch(w, p) PROVE TypeOK' /\ TablesExist'
    BY <1>2 DEF Touch
<1>3. ASSUME NEW w \in Worker, CreateTable(w) PROVE TypeOK' /\ TablesExist'
    BY <1>3 DEF CreateTable
<1>4. ASSUME NEW w \in Worker, FindSeeded(w) PROVE TypeOK' /\ TablesExist'
    BY <1>4 DEF FindSeeded
<1>5. ASSUME NEW w \in Worker, FindEmpty(w) PROVE TypeOK' /\ TablesExist'
    BY <1>5 DEF FindEmpty
<1>6. ASSUME NEW w \in Worker, Delete(w) PROVE TypeOK' /\ TablesExist'
    BY <1>6 DEF Delete
<1>7. ASSUME NEW w \in Worker, Insert(w) PROVE TypeOK' /\ TablesExist'
    BY <1>7 DEF Insert
<1>8. ASSUME NEW w \in Worker, Raise(w) PROVE TypeOK' /\ TablesExist'
    BY <1>8 DEF Raise
<1>9. ASSUME NEW w \in Worker, Read(w) PROVE TypeOK' /\ TablesExist'
    BY <1>9 DEF Read
<1>10. ASSUME NEW p \in Process, Stop(p) PROVE TypeOK' /\ TablesExist'
    BY <1>10 DEF Stop
<1> QED
    BY <1>1, <1>2, <1>3, <1>4, <1>5, <1>6, <1>7, <1>8, <1>9, <1>10 DEF Next, Construct

\* A file that is not there yet, with nobody at work on it.
LEMMA StoresInvInit == Init => StoresInv
BY HomeAssumption DEF Init, StoresInv, TypeOK, TablesExist, Table, Port, Stage

\* The local stores keep their types, and bind no adapter without its table,
\* whatever several processes construct on one file at once.
THEOREM StoresTypeCorrect == Spec => []TypeOK
<1>1. StoresInv => TypeOK
    BY DEF StoresInv
<1> QED BY <1>1, StoresInvInit, StoresInvKept, PTL DEF Spec

\* Every statement of a constructor keeps the corpus exact and seeded where it is bound.
LEMMA CorpusInvKept == CorpusInv /\ [Next]_vars => CorpusInv'
<1> SUFFICES ASSUME CorpusInv, [Next]_vars PROVE SeededWhereBound' /\ CorpusIsExact'
    BY StoresInvKept DEF CorpusInv
<1> USE HomeAssumption, TablesOfPorts
    DEF CorpusInv, StoresInv, TypeOK, SeededWhereBound, CorpusIsExact, Stage, Constructing
<1>1. CASE UNCHANGED vars
    BY <1>1 DEF vars
<1>2. ASSUME NEW w \in Worker, NEW p \in Port, Touch(w, p)
      PROVE  SeededWhereBound' /\ CorpusIsExact'
    BY <1>2 DEF Touch
<1>3. ASSUME NEW w \in Worker, CreateTable(w) PROVE SeededWhereBound' /\ CorpusIsExact'
    BY <1>3 DEF CreateTable
<1>4. ASSUME NEW w \in Worker, FindSeeded(w) PROVE SeededWhereBound' /\ CorpusIsExact'
    BY <1>4 DEF FindSeeded
<1>5. ASSUME NEW w \in Worker, FindEmpty(w) PROVE SeededWhereBound' /\ CorpusIsExact'
    BY <1>5 DEF FindEmpty
<1>6. ASSUME NEW w \in Worker, Delete(w) PROVE SeededWhereBound' /\ CorpusIsExact'
    BY <1>6 DEF Delete
<1>7. ASSUME NEW w \in Worker, Insert(w) PROVE SeededWhereBound' /\ CorpusIsExact'
    <2>1. copies'[TableOf(port[w])] = 1
        BY <1>7 DEF Insert
    <2>2. \A t \in Table : copies'[t] = copies[t] \/ copies'[t] = 1
        BY <1>7, <2>1 DEF Insert
    <2> QED BY <1>7, <2>1, <2>2 DEF Insert
<1>8. ASSUME NEW w \in Worker, Raise(w) PROVE SeededWhereBound' /\ CorpusIsExact'
    BY <1>8 DEF Raise
<1>9. ASSUME NEW w \in Worker, Read(w) PROVE SeededWhereBound' /\ CorpusIsExact'
    BY <1>9 DEF Read
<1>10. ASSUME NEW p \in Process, Stop(p) PROVE SeededWhereBound' /\ CorpusIsExact'
    BY <1>10 DEF Stop
<1> QED
    BY <1>1, <1>2, <1>3, <1>4, <1>5, <1>6, <1>7, <1>8, <1>9, <1>10 DEF Next, Construct

\* No table holds anything before the first constructor.
LEMMA CorpusInvInit == Init => CorpusInv
BY StoresInvInit DEF Init, CorpusInv, SeededWhereBound, CorpusIsExact, Table

\* However many processes and threads construct the adapters of one file at the
\* same time, and wherever they stop or fail, whoever reads it reads the
\* built-in corpus once.
THEOREM CorpusAlwaysExact == Spec => []CorpusIsExact
<1>1. CorpusInv => CorpusIsExact
    BY DEF CorpusInv
<1> QED BY <1>1, CorpusInvInit, CorpusInvKept, PTL DEF Spec

\* No step of any of them takes back, even for a moment, what one has seeded.
THEOREM SeedIsForAll == Spec => SeededOnceForAll
<1>1. ASSUME CorpusInv, [Next]_vars
      PROVE  \A t \in Table : copies[t] > 0 => copies'[t] = copies[t]
    <2> SUFFICES ASSUME NEW t \in Table, copies[t] > 0, copies'[t] # copies[t] PROVE FALSE
        OBVIOUS
    <2>1. PICK w \in Worker : Insert(w)
        BY <1>1 DEF Next, Construct, vars, Touch, CreateTable, FindSeeded, FindEmpty, Delete,
            Raise, Read, Stop
    <2>2. copies[t] = 1 /\ drafted[w] = 0
        BY <1>1, <2>1 DEF CorpusInv, SeededWhereBound, Insert
    <2> QED BY <1>1, <2>1, <2>2, TablesOfPorts
        DEF Insert, CorpusInv, StoresInv, TypeOK
<1>2. CorpusInv /\ [Next]_vars
        => [\A t \in Table : copies[t] > 0 => copies'[t] = copies[t]]_vars
    BY <1>1
<1> QED BY <1>2, CorpusInvInit, CorpusInvKept, PTL DEF Spec, SeededOnceForAll
====
