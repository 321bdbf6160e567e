---- MODULE ScanProofs ----
(***************************************************************************)
(* Proofs about the residency scan: what TLC checks in MCResidencyScan on  *)
(* one scan of two files, for any number of scans, files and edits.        *)
(***************************************************************************)
EXTENDS ScanProperties, TLAPS, WellFoundedInduction

\* What passes as an estate passes resource by resource.
LEMMA EstatePassesEach ==
    ASSUME NEW estate, NEW p, Passes(Detect(estate, p), p), NEW resource \in estate
    PROVE  Passes(DetectOne(resource, p), p)
<1>1. DetectOne(resource, p) \subseteq Detect(estate, p)
    BY DEF Detect
<1> QED BY <1>1 DEF Passes, GatingViolations

\* The shape of the variables the reader works on.
ReadTypes ==
    /\ directory \in [File -> TfFile(Contents)]
    /\ pc = [s \in Scan |-> pc[s]]
    /\ listing \in [Scan -> [File -> TfFile(Contents)]]
    /\ touched = [s \in Scan |-> touched[s]]
    /\ unread = [s \in Scan |-> unread[s]]
    /\ resources = [s \in Scan |-> resources[s]]
    /\ verdict = [s \in Scan |-> verdict[s]]

\* While a scan reads, a file that nobody touched is as it was listed, and what
\* it holds has been taken over unless it is still to be opened.
ReadsWhatWasListed ==
    \A s \in Scan : pc[s] = "read" =>
        \A f \in File \ touched[s] :
            /\ directory[f] = listing[s][f]
            /\ f \notin unread[s] => listing[s][f].resources \subseteq resources[s]

\* When it comes to grading, everything it answers for has been found.
GradesWhatItAnswersFor ==
    \A s \in Scan : pc[s] = "grade" => Answerable(s) \subseteq resources[s]

\* A resource that is read comes from a directory.
ReadsADirectory ==
    \A s \in Scan : pc[s] = "read" => SourceOf(call[s]) = "directory"

\* A verdict is reached by grading, and no scan passes that left something out.
VerdictIsEarned ==
    \A s \in Scan :
        /\ pc[s] \in {"idle", "resolve", "read", "grade"} => verdict[s] = "none"
        /\ verdict[s] = "passed" =>
               \A resource \in Answerable(s) :
                   Passes(DetectOne(resource, deployment.policy), deployment.policy)

ReadInv ==
    /\ ReadTypes
    /\ ReadsADirectory
    /\ ReadsWhatWasListed
    /\ GradesWhatItAnswersFor
    /\ VerdictIsEarned

\* A file that is not a text holds no resource.
LEMMA OnlyTextsHoldResources ==
    ASSUME NEW file \in TfFile(Contents), file.status # "text"
    PROVE  file.resources = {}
BY DEF TfFile

\* The invariant holds before any scan has begun.
LEMMA ReadInvInit == Init => ReadInv
BY ScanAssumption DEF Init, ReadInv, ReadTypes, ReadsADirectory, ReadsWhatWasListed,
    GradesWhatItAnswersFor, VerdictIsEarned, TfFile

\* What a scan answers for is settled by its call, its listing and what was touched.
LEMMA AnswerableIsKept ==
    ASSUME NEW s, call' = call, listing'[s] = listing[s], touched'[s] = touched[s]
    PROVE  Answerable(s)' = Answerable(s)
BY Zenon DEF Answerable

\* A step of a scan that neither reads nor grades, and does not lead there.
LEMMA ElsewhereNothingIsRead ==
    ASSUME ReadInv, NEW s \in Scan, NEW from,
           NEW to \in (Working \cup Ended) \ {"read", "grade"},
           to = "resolve" => from = "idle",
           Goto(s, from, to), UNCHANGED <<reading, verdict>>
    PROVE  ReadInv'
<1>1. ReadTypes'
    BY DEF ReadInv, ReadTypes, Goto, reading, Working, Ended
<1>2. \A t \in Scan : Answerable(t)' = Answerable(t)
    BY AnswerableIsKept DEF ReadInv, ReadTypes, Goto, reading, Working, Ended
<1>3. ReadsADirectory'
    BY DEF ReadInv, ReadTypes, ReadsADirectory, Goto, reading, Working, Ended
<1>4. ReadsWhatWasListed'
    BY DEF ReadInv, ReadTypes, ReadsWhatWasListed, Goto, reading, Working, Ended
<1>5. GradesWhatItAnswersFor'
    BY <1>2 DEF ReadInv, ReadTypes, GradesWhatItAnswersFor, Goto, reading, Working, Ended
<1>6. VerdictIsEarned'
    BY <1>2 DEF ReadInv, ReadTypes, VerdictIsEarned, Goto, reading, Working, Ended
<1> QED BY <1>1, <1>3, <1>4, <1>5, <1>6 DEF ReadInv

\* What is sent or lives in the scope is all there is to answer for; nothing is
\* answered for in a plan.
LEMMA FoundAtOnce ==
    ASSUME ReadInv, NEW s \in Scan, TakeEstate(s) \/ ReadPlan(s)
    PROVE  ReadInv'
<1>1. ReadTypes'
    BY DEF ReadInv, ReadTypes, TakeEstate, ReadPlan, Goto, Found, grading
<1>2. \A t \in Scan : Answerable(t)' = Answerable(t)
    BY AnswerableIsKept DEF ReadInv, ReadTypes, TakeEstate, ReadPlan, Goto, Found, grading
<1>3. ReadsADirectory'
    BY DEF ReadInv, ReadTypes, ReadsADirectory, TakeEstate, ReadPlan, Goto, Found, grading
<1>4. ReadsWhatWasListed'
    BY DEF ReadInv, ReadTypes, ReadsWhatWasListed, TakeEstate, ReadPlan, Goto, Found, grading
<1>5. GradesWhatItAnswersFor'
    BY <1>2 DEF ReadInv, ReadTypes, GradesWhatItAnswersFor, TakeEstate, ReadPlan, Goto, Found,
        grading, Answerable
<1>6. VerdictIsEarned'
    BY <1>2 DEF ReadInv, ReadTypes, VerdictIsEarned, TakeEstate, ReadPlan, Goto, Found, grading
<1> QED BY <1>1, <1>3, <1>4, <1>5, <1>6 DEF ReadInv

\* A file the listing leaves out holds nothing.
LEMMA ListingBegins ==
    ASSUME ReadInv, NEW s \in Scan, ListDirectory(s)
    PROVE  ReadInv'
<1>1. ReadTypes'
    BY DEF ReadInv, ReadTypes, ListDirectory, Goto, grading, Listed
<1>2. \A t \in Scan \ {s} : Answerable(t)' = Answerable(t)
    BY AnswerableIsKept DEF ReadInv, ReadTypes, ListDirectory, Goto, grading, Listed
<1>3. ReadsADirectory'
    BY DEF ReadInv, ReadTypes, ReadsADirectory, ListDirectory, Goto, grading, Listed
<1>4. ReadsWhatWasListed'
    BY OnlyTextsHoldResources DEF ReadInv, ReadTypes, ReadsWhatWasListed, ListDirectory, Goto,
        grading, Listed
<1>5. GradesWhatItAnswersFor'
    BY <1>2 DEF ReadInv, ReadTypes, GradesWhatItAnswersFor, ListDirectory, Goto, grading,
        Listed
<1>6. VerdictIsEarned'
    BY <1>2 DEF ReadInv, ReadTypes, VerdictIsEarned, ListDirectory, Goto, grading, Listed
<1> QED BY <1>1, <1>3, <1>4, <1>5, <1>6 DEF ReadInv

\* An untouched file is opened as it was listed.
LEMMA ReadingTakesOver ==
    ASSUME ReadInv, NEW s \in Scan, ReadFile(s)
    PROVE  ReadInv'
<1>1. ReadTypes'
    BY DEF ReadInv, ReadTypes, ReadFile, Opens, Goto, grading
<1>2. \A t \in Scan : Answerable(t)' = Answerable(t)
    BY AnswerableIsKept DEF ReadInv, ReadTypes, ReadFile, Opens, Goto, grading
<1>3. ReadsADirectory'
    BY DEF ReadInv, ReadTypes, ReadsADirectory, ReadFile, Opens, Goto, grading
<1>4. ReadsWhatWasListed'
    <2> PICK f \in File :
            /\ Goto(s, "read", "read")
            /\ unread' = [unread EXCEPT ![s] = @ \ {f}]
            /\ resources' = [resources EXCEPT ![s] = @ \cup directory[f].resources]
            /\ UNCHANGED <<listing, touched>>
        BY DEF ReadFile
    <2> SUFFICES ASSUME NEW t \in Scan, pc[t]' = "read", NEW g \in File \ touched[t]'
                 PROVE  /\ directory[g]' = listing[t][g]'
                        /\ g \notin unread[t]' =>
                               listing[t][g].resources' \subseteq resources[t]'
        BY DEF ReadsWhatWasListed
    <2>1. /\ pc[t] = "read" /\ g \in File \ touched[t]
          /\ directory' = directory /\ listing' = listing
        BY DEF ReadInv, ReadTypes, Goto
    <2>2. /\ directory[g] = listing[t][g]
          /\ g \notin unread[t] => listing[t][g].resources \subseteq resources[t]
        BY <2>1 DEF ReadInv, ReadsWhatWasListed
    <2>3. CASE t = s
        <3>1. unread'[s] = unread[s] \ {f} /\ resources'[s] = resources[s] \cup directory[f].resources
            BY DEF ReadInv, ReadTypes
        <3> QED BY <2>1, <2>2, <2>3, <3>1
    <2>4. CASE t # s
        <3>1. unread'[t] = unread[t] /\ resources'[t] = resources[t]
            BY <2>4 DEF ReadInv, ReadTypes
        <3> QED BY <2>1, <2>2, <3>1
    <2> QED BY <2>3, <2>4
<1>5. GradesWhatItAnswersFor'
    BY <1>2 DEF ReadInv, ReadTypes, GradesWhatItAnswersFor, ReadFile, Opens, Goto, grading
<1>6. VerdictIsEarned'
    BY <1>2 DEF ReadInv, ReadTypes, VerdictIsEarned, ReadFile, Opens, Goto, grading
<1> QED BY <1>1, <1>3, <1>4, <1>5, <1>6 DEF ReadInv

\* When no listed file is left, all that is answered for has been found.
LEMMA ReadingIsComplete ==
    ASSUME ReadInv, NEW s \in Scan, AllRead(s)
    PROVE  ReadInv'
<1>1. ReadTypes'
    BY DEF ReadInv, ReadTypes, AllRead, Fail, Goto, reading, grading
<1>2. \A t \in Scan : Answerable(t)' = Answerable(t)
    BY AnswerableIsKept DEF ReadInv, ReadTypes, AllRead, Fail, Goto, reading, grading
<1>3. ReadsADirectory'
    BY DEF ReadInv, ReadTypes, ReadsADirectory, AllRead, Fail, Goto, reading, grading
<1>4. ReadsWhatWasListed'
    BY DEF ReadInv, ReadTypes, ReadsWhatWasListed, AllRead, Fail, Goto, reading, grading
<1>5. GradesWhatItAnswersFor'
    <2>1. SourceOf(call[s]) = "directory"
        BY DEF ReadInv, ReadsADirectory, AllRead, Fail, Goto
    <2>2. Answerable(s) = UNION {listing[s][f].resources : f \in File \ touched[s]}
        BY <2>1 DEF Answerable
    <2>3. \A f \in File \ touched[s] : listing[s][f].resources \subseteq resources[s]
        BY DEF ReadInv, ReadsWhatWasListed, AllRead, Fail, Goto
    <2>4. Answerable(s) \subseteq resources[s]
        BY <2>2, <2>3
    <2> QED
        BY <1>2, <2>4 DEF ReadInv, ReadTypes, GradesWhatItAnswersFor, AllRead, Fail, Goto,
            reading
<1>6. VerdictIsEarned'
    BY <1>2 DEF ReadInv, ReadTypes, VerdictIsEarned, AllRead, Fail, Goto, reading, grading
<1> QED BY <1>1, <1>3, <1>4, <1>5, <1>6 DEF ReadInv

\* A verdict is earned by the resources it is about.
LEMMA GradingEarns ==
    ASSUME ReadInv, NEW s \in Scan, Grade(s)
    PROVE  ReadInv'
<1>1. ReadTypes'
    BY DEF ReadInv, ReadTypes, Grade, Goto, reading
<1>2. \A t \in Scan : Answerable(t)' = Answerable(t)
    BY AnswerableIsKept DEF ReadInv, ReadTypes, Grade, Goto, reading
<1>3. ReadsADirectory'
    BY DEF ReadInv, ReadTypes, ReadsADirectory, Grade, Goto, reading
<1>4. ReadsWhatWasListed'
    BY DEF ReadInv, ReadTypes, ReadsWhatWasListed, Grade, Goto, reading
<1>5. GradesWhatItAnswersFor'
    BY <1>2 DEF ReadInv, ReadTypes, GradesWhatItAnswersFor, Grade, Goto, reading
<1>6. VerdictIsEarned'
    BY <1>2, EstatePassesEach DEF ReadInv, ReadTypes, VerdictIsEarned, Grade, Goto, reading,
        GradesWhatItAnswersFor
<1> QED BY <1>1, <1>3, <1>4, <1>5, <1>6 DEF ReadInv

\* An edit touches the file for every scan that is reading.
LEMMA EditsAreNoticed ==
    ASSUME ReadInv, NEW f \in File, NEW file \in TfFile(Contents), Edit(f, file)
    PROVE  ReadInv'
<1>1. ReadTypes'
    BY DEF ReadInv, ReadTypes, Edit, grading
<1>2. \A t \in Scan : pc[t] # "read" => Answerable(t)' = Answerable(t)
    BY AnswerableIsKept DEF ReadInv, ReadTypes, Edit, grading
<1>3. ReadsADirectory'
    BY DEF ReadInv, ReadTypes, ReadsADirectory, Edit, grading
<1>4. ReadsWhatWasListed'
    BY DEF ReadInv, ReadTypes, ReadsWhatWasListed, Edit, grading
<1>5. GradesWhatItAnswersFor'
    BY <1>2 DEF ReadInv, ReadTypes, GradesWhatItAnswersFor, Edit, grading
<1>6. VerdictIsEarned'
    BY <1>2 DEF ReadInv, ReadTypes, VerdictIsEarned, Edit, grading
<1> QED BY <1>1, <1>3, <1>4, <1>5, <1>6 DEF ReadInv

\* Neither a crash nor a late review reaches a scan that goes on.
LEMMA OthersLeaveReading ==
    ASSUME ReadInv,
           \/ \E review \in inflight : LateArrival(review)
           \/ \E dying \in SUBSET Scan : Crash(dying)
           \/ UNCHANGED vars
    PROVE  ReadInv'
<1>1. ReadTypes'
    BY DEF ReadInv, ReadTypes, LateArrival, Crash, reading, grading, vars
<1>2. \A t \in Scan : Answerable(t)' = Answerable(t)
    BY AnswerableIsKept DEF ReadInv, ReadTypes, LateArrival, Crash, reading, grading, vars
<1>3. ReadsADirectory'
    BY DEF ReadInv, ReadTypes, ReadsADirectory, LateArrival, Crash, reading, grading, vars
<1>4. ReadsWhatWasListed'
    BY DEF ReadInv, ReadTypes, ReadsWhatWasListed, LateArrival, Crash, reading, grading, vars
<1>5. GradesWhatItAnswersFor'
    BY <1>2 DEF ReadInv, ReadTypes, GradesWhatItAnswersFor, LateArrival, Crash, reading,
        grading, vars
<1>6. VerdictIsEarned'
    BY <1>2 DEF ReadInv, ReadTypes, VerdictIsEarned, LateArrival, Crash, reading, grading, vars
<1> QED BY <1>1, <1>3, <1>4, <1>5, <1>6 DEF ReadInv

\* Every step keeps the invariant.
LEMMA ReadInvStep == ReadInv /\ [Next]_vars => ReadInv'
<1> SUFFICES ASSUME ReadInv, [Next]_vars PROVE ReadInv'
    OBVIOUS
<1>1. CASE \E s \in Scan : Step(s)
    <2> PICK s \in Scan : Step(s)
        BY <1>1
    <2> USE ElsewhereNothingIsRead DEF reading, grading, Working, Ended
    <2>1. CASE Refuse(s)            BY <2>1 DEF Refuse, Fail
    <2>2. CASE SettingsRefused(s)   BY <2>2 DEF SettingsRefused, Fail
    <2>3. CASE Accept(s)            BY <2>3 DEF Accept
    <2>4. CASE ScannerMissing(s)    BY <2>4 DEF ScannerMissing, Fail
    <2>5. CASE TargetFails(s)       BY <2>5 DEF TargetFails, Fail
    <2>6. CASE PlanFails(s)         BY <2>6 DEF PlanFails, Fail
    <2>7. CASE DirectoryEmpty(s)    BY <2>7 DEF DirectoryEmpty, Fail
    <2>8. CASE FileFails(s)         BY <2>8 DEF FileFails, Fail
    <2>9. CASE AuditScan(s)         BY <2>9 DEF AuditScan
    <2>10. CASE RouteScan(s)        BY <2>10 DEF RouteScan
    <2>11. CASE Respond(s)          BY <2>11 DEF Respond
    <2>12. CASE TakeEstate(s) \/ ReadPlan(s)
        BY <2>12, FoundAtOnce
    <2>13. CASE ListDirectory(s)    BY <2>13, ListingBegins
    <2>14. CASE ReadFile(s)         BY <2>14, ReadingTakesOver
    <2>15. CASE AllRead(s)          BY <2>15, ReadingIsComplete
    <2>16. CASE Grade(s)            BY <2>16, GradingEarns
    <2> QED
        BY <2>1, <2>2, <2>3, <2>4, <2>5, <2>6, <2>7, <2>8, <2>9, <2>10, <2>11, <2>12,
           <2>13, <2>14, <2>15, <2>16 DEF Step, Resolve, Read
<1>2. CASE \E f \in File, file \in TfFile(Contents) : Edit(f, file)
    BY <1>2, EditsAreNoticed
<1>3. CASE \/ \E review \in inflight : LateArrival(review)
           \/ \E dying \in SUBSET Scan : Crash(dying)
           \/ Finished \/ UNCHANGED vars
    BY <1>3, OthersLeaveReading DEF Finished
<1> QED
    BY <1>1, <1>2, <1>3 DEF Next

\* However many scans read however many files while they are edited: a scan that
\* passes has graded every resource it answers for.
THEOREM PassIsAlwaysEarned == Spec => []PassIsEarned
<1>1. ReadInv => PassIsEarned
    BY DEF ReadInv, VerdictIsEarned, PassIsEarned, Passing
<1> QED
    BY <1>1, ReadInvInit, ReadInvStep, PTL DEF Spec
----------------------------------------------------------------------------
(* The walk of a plan (_walk_module). What it finds is shown by induction   *)
(* on the module numbers.                                                   *)

\* A set of natural numbers that is not empty has a least one: what inductions
\* over the modules of a plan are made of, as the least counterexample.
LEMMA LeastNatural ==
    ASSUME NEW T, T \subseteq Nat, T # {}
    PROVE  \E least \in T : \A n \in T : least <= n
<1> DEFINE R == OpToRel(<, Nat)
<1>1. IsWellFoundedOn(R, Nat)
    BY NatLessThanWellFounded
<1>2. \A x, y \in Nat : x < y => <<x, y>> \in R
    BY DEF OpToRel
<1> HIDE DEF R
<1>3. PICK least \in T : \A n \in T : <<n, least>> \notin R
    BY <1>1, WFMin
<1>4. \A n \in T : ~(n < least)
    BY <1>2, <1>3
<1> QED BY <1>4

\* What a module lists itself, and a function that gives every module from the
\* n-th on what the walk finds from there.
Usable(module) == {e.resource : e \in {e \in module.entries : e.usable}}

WalksFrom(walk, n, modules) ==
    walk = [m \in n..Len(modules) |->
               Usable(modules[m]) \cup UNION {walk[c] : c \in modules[m].children}]

\* The modules of a plan, and what each of them has.
LEMMA ModuleTypes ==
    ASSUME NEW modules, IsModules(modules)
    PROVE  /\ Len(modules) \in Nat /\ DOMAIN modules = 1..Len(modules)
           /\ \A m \in 1..Len(modules) : /\ modules[m].entries \subseteq PlannedEntry
                                        /\ modules[m].children \subseteq (m + 1)..Len(modules)
<1> DEFINE Module == [entries : SUBSET PlannedEntry, children : SUBSET Nat]
<1>1. \A module \in Module : module.entries \subseteq PlannedEntry
    OBVIOUS
<1>2. modules \in Seq(Module)
    BY DEF IsModules
<1> HIDE DEF Module
<1>3. Len(modules) \in Nat /\ DOMAIN modules = 1..Len(modules)
    BY <1>2
<1>4. \A m \in 1..Len(modules) : modules[m] \in Module
    BY <1>2
<1>5. \A m \in 1..Len(modules) : modules[m].children \subseteq (m + 1)..Len(modules)
    BY <1>3 DEF IsModules
<1> QED BY <1>1, <1>3, <1>4, <1>5

\* A walk of the modules after the n-th can be taken on to the n-th.
LEMMA WalkGoesUp ==
    ASSUME NEW modules, IsModules(modules), NEW n \in DOMAIN modules,
           NEW below, WalksFrom(below, n + 1, modules)
    PROVE  \E walk : WalksFrom(walk, n, modules)
<1> DEFINE Seen(m, w) == Usable(modules[m]) \cup UNION {w[c] : c \in modules[m].children}
           walk == [m \in n..Len(modules) |-> Seen(m, below)]
<1>1. n \in 1..Len(modules) /\ Len(modules) \in Nat
    BY ModuleTypes
<1>2. \A m \in n..Len(modules) : \A c \in modules[m].children : c \in (n + 1)..Len(modules)
    BY <1>1, ModuleTypes
<1>3. \A c \in (n + 1)..Len(modules) : below[c] = Seen(c, below) /\ walk[c] = Seen(c, below)
    <2>1. below = [m \in (n + 1)..Len(modules) |-> Seen(m, below)]
        BY Zenon DEF WalksFrom
    <2> HIDE DEF Seen
    <2> QED BY <1>1, <2>1
<1>4. \A m \in n..Len(modules) : Seen(m, walk) = Seen(m, below)
    <2> SUFFICES ASSUME NEW m \in n..Len(modules)
                 PROVE  \A c \in modules[m].children : walk[c] = below[c]
        OBVIOUS
    <2> HIDE DEF Seen, walk
    <2> QED BY <1>2, <1>3
<1>5. walk = [m \in n..Len(modules) |-> Seen(m, walk)]
    BY <1>4
<1> QED BY <1>5, Zenon DEF WalksFrom

\* So the recursion of _walk_module is well founded: there is a walk.
LEMMA WalkExists ==
    ASSUME NEW modules, IsModules(modules)
    PROVE  \E walk : WalksFrom(walk, 1, modules)
<1> DEFINE N == Len(modules)
           missing == {k \in 0..N : ~\E walk : WalksFrom(walk, N + 1 - k, modules)}
<1>1. N \in Nat /\ DOMAIN modules = 1..N
    BY ModuleTypes
<1>2. 0 \notin missing
    <2>1. WalksFrom([m \in {} |-> {}], N + 1, modules)
        BY <1>1 DEF WalksFrom
    <2> QED BY <1>1, <2>1
<1>3. ASSUME missing # {} PROVE FALSE
    <2>1. PICK k \in missing : \A j \in missing : k <= j
        <3>1. missing \subseteq Nat
            BY <1>1
        <3> HIDE DEF missing
        <3> QED BY <1>3, <3>1, LeastNatural
    <2>2. k \in 1..N /\ k - 1 \in 0..N /\ k - 1 \notin missing /\ N + 1 - k \in 1..N
        BY <1>1, <1>2, <2>1
    <2>3. PICK below : WalksFrom(below, N + 1 - (k - 1), modules)
        BY <2>2
    <2>4. N + 1 - (k - 1) = (N + 1 - k) + 1
        BY <1>1, <2>2
    <2>5. \E walk : WalksFrom(walk, N + 1 - k, modules)
        BY <1>1, <2>2, <2>3, <2>4, WalkGoesUp
    <2> QED BY <2>1, <2>5
<1>4. N \in 0..N /\ N + 1 - N = 1
    BY <1>1
<1> QED BY <1>3, <1>4

\* The resources of a plan are what its walk finds at the root.
LEMMA PlanIsWalked ==
    ASSUME NEW doc, IsModules(doc.modules), DOMAIN doc.modules # {}
    PROVE  \E walk : WalksFrom(walk, 1, doc.modules) /\ PlanResources(doc) = walk[1]
<1> DEFINE Walk[m \in DOMAIN doc.modules] ==
               {e.resource : e \in {e \in doc.modules[m].entries : e.usable}}
                   \cup UNION {Walk[c] : c \in doc.modules[m].children}
<1>1. DOMAIN doc.modules = 1..Len(doc.modules)
    BY ModuleTypes
<1>2. WalksFrom(Walk, 1, doc.modules)
    <2>1. PICK walk : WalksFrom(walk, 1, doc.modules)
        BY WalkExists
    <2>2. walk = [m \in DOMAIN doc.modules |->
                     {e.resource : e \in {e \in doc.modules[m].entries : e.usable}}
                         \cup UNION {walk[c] : c \in doc.modules[m].children}]
        BY <1>1, <2>1, Zenon DEF WalksFrom, Usable
    <2>3. Walk = [m \in DOMAIN doc.modules |->
                     {e.resource : e \in {e \in doc.modules[m].entries : e.usable}}
                         \cup UNION {Walk[c] : c \in doc.modules[m].children}]
        BY <2>2, Zenon
    <2> HIDE DEF Walk
    <2> QED BY <1>1, <2>3, Zenon DEF WalksFrom, Usable
<1>3. PlanResources(doc) = Walk[1]
    BY Zenon DEF PlanResources
<1> QED BY <1>2, <1>3

\* A walk finds nothing but resources,
LEMMA WalkFindsResources ==
    ASSUME NEW modules, IsModules(modules), NEW walk, WalksFrom(walk, 1, modules)
    PROVE  \A m \in DOMAIN modules : walk[m] \subseteq Resource
<1> DEFINE N == Len(modules)
           wrong == {k \in 0..N : N - k \in 1..N /\ ~(walk[N - k] \subseteq Resource)}
<1>1. N \in Nat /\ DOMAIN modules = 1..N
    BY ModuleTypes
<1>2. ASSUME wrong # {} PROVE FALSE
    <2>1. PICK k \in wrong : \A j \in wrong : k <= j
        <3>1. wrong \subseteq Nat
            BY <1>1
        <3> HIDE DEF wrong
        <3> QED BY <1>2, <3>1, LeastNatural
    <2> DEFINE m == N - k
    <2>2. m \in 1..N
        OBVIOUS
    <2>3. \A c \in modules[m].children : c \in (m + 1)..N
        BY <2>2, ModuleTypes
    <2>4. \A c \in modules[m].children : walk[c] \subseteq Resource
        <3> SUFFICES ASSUME NEW c \in modules[m].children PROVE walk[c] \subseteq Resource
            OBVIOUS
        <3>1. c \in (m + 1)..N
            BY <2>3
        <3>2. N - c \in 0..N /\ N - c < k /\ N - (N - c) = c
            BY <1>1, <2>1, <3>1
        <3> QED BY <2>1, <3>1, <3>2
    <2>5. Usable(modules[m]) \subseteq Resource
        <3>1. modules[m].entries \subseteq PlannedEntry
            BY <2>2, ModuleTypes
        <3> QED BY <3>1 DEF Usable, PlannedEntry
    <2>6. walk[m] = Usable(modules[m]) \cup UNION {walk[c] : c \in modules[m].children}
        BY <2>2 DEF WalksFrom
    <2>7. walk[m] \subseteq Resource
        BY <2>4, <2>5, <2>6
    <2> QED BY <2>1, <2>7
<1>3. \A m \in 1..N : N - m \in 0..N /\ N - (N - m) = m
    BY <1>1
<1> QED BY <1>1, <1>2, <1>3

\* and at the root all that any module lists.
LEMMA WalkIsWhole ==
    ASSUME NEW modules, IsModules(modules), NEW walk, WalksFrom(walk, 1, modules)
    PROVE  \A m \in DOMAIN modules : Usable(modules[m]) \subseteq walk[1]
<1> DEFINE left == {m \in DOMAIN modules : ~(walk[m] \subseteq walk[1])}
<1>1. DOMAIN modules = 1..Len(modules) /\ Len(modules) \in Nat
    BY ModuleTypes
<1>2. \A m \in DOMAIN modules :
          walk[m] = Usable(modules[m]) \cup UNION {walk[c] : c \in modules[m].children}
    BY <1>1 DEF WalksFrom
<1>3. ASSUME left # {} PROVE FALSE
    <2>1. PICK m \in left : \A n \in left : m <= n
        <3>1. left \subseteq Nat
            BY <1>1
        <3> HIDE DEF left
        <3> QED BY <1>3, <3>1, LeastNatural
    <2>2. PICK p \in DOMAIN modules : m \in modules[p].children
        BY <2>1 DEF IsModules
    <2>3. p < m
        BY <2>2 DEF IsModules
    <2>4. walk[p] \subseteq walk[1]
        BY <1>1, <2>1, <2>3
    <2>5. walk[m] \subseteq walk[p]
        BY <1>2, <2>2
    <2> QED BY <2>1, <2>4, <2>5
<1> QED BY <1>2, <1>3

----------------------------------------------------------------------------
(* The types of the variables.                                             *)

MoveTypes ==
    /\ deployment \in [profile : Profile, policy : Policies, routing : BOOLEAN]
    /\ call \in [Scan -> Calls]
    /\ directory \in [File -> TfFile(Contents)]
    /\ pc \in [Scan -> Working \cup Ended \cup {"idle"}]

FoundTypes ==
    /\ listing \in [Scan -> [File -> TfFile(Contents)]]
    /\ touched \in [Scan -> SUBSET File]
    /\ unread \in [Scan -> SUBSET File]
    /\ resources = [s \in Scan |-> resources[s]]
    /\ \A s \in Scan : \A resource \in resources[s] : resource \in Resource

GradeTypes ==
    /\ kinds \in [Scan -> SUBSET ViolationKind]
    /\ verdict \in [Scan -> {"none", "passed", "failed"}]
    /\ outcomes \in [Scan -> SUBSET Routing]
    /\ answer \in [Scan -> Routing \cup {"none"}]

SinkTypes ==
    /\ trail \in Seq(Record)
    /\ console \in Seq(Review)
    /\ inflight \subseteq Review

\* The type invariant, now and after a step, by its parts.
LEMMA TypesByPart ==
    /\ TypeOK <=> MoveTypes /\ FoundTypes /\ GradeTypes /\ SinkTypes
    /\ TypeOK' <=> MoveTypes' /\ FoundTypes' /\ GradeTypes' /\ SinkTypes'
BY Zenon DEF TypeOK, MoveTypes, FoundTypes, GradeTypes, SinkTypes

\* One scan moves, and the rest of what a process is given stays.
LEMMA OneScanMoves ==
    ASSUME MoveTypes, NEW s \in Scan, NEW from, NEW to \in Working \cup Ended,
           Goto(s, from, to)
    PROVE  /\ MoveTypes' /\ pc[s] = from
           /\ \A t \in Scan : pc'[t] = IF t = s THEN to ELSE pc[t]
           /\ UNCHANGED <<deployment, call, directory>>
<1> HIDE DEF Working, Ended
<1> QED BY DEF MoveTypes, Goto

\* Files that are not read by the step keep their types while resources are found.
LEMMA TypesUnread ==
    ASSUME MoveTypes, FoundTypes, NEW s \in Scan, NEW found, UNCHANGED <<listing, touched, unread>>,
           found \subseteq Resource, resources' = [resources EXCEPT ![s] = found]
    PROVE  FoundTypes'
BY DEF FoundTypes

\* What a file holds are resources.
LEMMA FilesHoldResources ==
    ASSUME NEW file \in TfFile(Contents)
    PROVE  file.resources \subseteq Resource
BY ScanAssumption DEF TfFile

\* What a caller sends are resources, and so is what a plan holds.
LEMMA CallsHoldResources ==
    ASSUME NEW c \in Calls
    PROVE  /\ c.estate \subseteq Resource
           /\ ~PlanRaises(c.doc) => PlanResources(c.doc) \subseteq Resource
<1>1. IsCall(c)
    BY ScanAssumption
<1>2. c.estate \subseteq Resource /\ IsPlanDoc(c.doc)
    BY <1>1 DEF IsCall
<1>3. ASSUME ~PlanRaises(c.doc), DOMAIN c.doc.modules # {}
      PROVE  PlanResources(c.doc) \subseteq Resource
    <2>1. IsModules(c.doc.modules)
        BY <1>2, <1>3 DEF PlanRaises, IsPlanDoc
    <2>2. PICK walk : WalksFrom(walk, 1, c.doc.modules) /\ PlanResources(c.doc) = walk[1]
        BY <1>3, <2>1, PlanIsWalked
    <2>3. 1 \in DOMAIN c.doc.modules
        BY <1>3, <2>1, ModuleTypes
    <2> QED BY <2>1, <2>2, <2>3, WalkFindsResources
<1>4. ASSUME DOMAIN c.doc.modules = {} PROVE PlanResources(c.doc) = {}
    BY <1>4, Zenon DEF PlanResources
<1> QED BY <1>2, <1>3, <1>4

\* What the readers and the grading write down has its type.
LEMMA SinkEntries ==
    ASSUME TypeOK, NEW s \in Scan
    PROVE  ScanRecord(s) \in Record /\ ScanReview(s) \in Review
<1>1. Actor(s) \in {CliActor, "caller"}
    BY DEF Actor
<1>2. ScanDecision(s) \in Decision
    BY DEF ScanDecision, Decision
<1>3. ScanSeverity(s) \in Severity
    <2>1. \/ \E kind \in kinds[s] : KindSeverity(kind) \in HighSeverity
          \/ \A kind \in kinds[s] : KindSeverity(kind) \notin HighSeverity
        OBVIOUS
    <2> HIDE DEF KindSeverity
    <2> QED BY <2>1 DEF ScanSeverity, Severity
<1>4. ScanRecord(s) \in Record
    BY <1>1, <1>2 DEF ScanRecord, Record
<1>5. ScanReview(s) \in Review
    <2> DEFINE severity == ScanSeverity(s)
    <2>1. severity \in Severity
        BY <1>3
    <2> HIDE DEF severity
    <2> QED BY <1>1, <2>1 DEF ScanReview, Review, severity
<1> QED BY <1>4, <1>5

\* The detector finds violations of the kinds it knows (domain/residency/detector.py).
LEMMA DetectFindsKinds ==
    ASSUME NEW estate, NEW p
    PROVE  Detect(estate, p) \subseteq ViolationKind
BY DEF Detect, DetectOne, RegionViolations, ControlViolations

\* The types hold at the start,
LEMMA TypeInit == Init => TypeOK
<1> SUFFICES ASSUME Init PROVE TypeOK
    OBVIOUS
<1>1. [status |-> "absent", resources |-> {}] \in TfFile(Contents)
    BY DEF TfFile
<1>2. MoveTypes
    BY ScanAssumption DEF Init, MoveTypes
<1>3. FoundTypes
    BY <1>1 DEF Init, FoundTypes
<1>4. GradeTypes
    BY DEF Init, GradeTypes
<1>5. SinkTypes
    BY DEF Init, SinkTypes
<1> QED BY <1>2, <1>3, <1>4, <1>5, TypesByPart

\* and every step of a scan, an author, the console or a process keeps them.
LEMMA TypeStep == TypeOK /\ [Next]_vars => TypeOK'
<1> SUFFICES ASSUME TypeOK, [Next]_vars PROVE TypeOK'
    OBVIOUS
<1>0. MoveTypes /\ FoundTypes /\ GradeTypes /\ SinkTypes
    BY TypesByPart
<1>1. ASSUME UNCHANGED reading PROVE FoundTypes'
    BY <1>0, <1>1 DEF FoundTypes, reading
<1>2. ASSUME UNCHANGED grading PROVE GradeTypes'
    BY <1>0, <1>2 DEF GradeTypes, grading
<1>3. ASSUME UNCHANGED sinks PROVE SinkTypes'
    BY <1>0, <1>3 DEF SinkTypes, sinks
<1>4. ASSUME NEW s \in Scan, NEW from, NEW to \in Working \cup Ended, Goto(s, from, to)
      PROVE  MoveTypes'
    BY <1>0, <1>4, OneScanMoves
<1>5. CASE \E s \in Scan : Step(s)
    <2> PICK s \in Scan : Step(s)
        BY <1>5
    <2>0. ASSUME NEW from, NEW to \in Working \cup Ended, Fail(s, from, to) PROVE TypeOK'
        BY <1>1, <1>2, <1>3, <1>4, <2>0, TypesByPart DEF Fail
    <2>1. CASE \/ Refuse(s) \/ SettingsRefused(s) \/ ScannerMissing(s) \/ TargetFails(s)
               \/ PlanFails(s) \/ DirectoryEmpty(s) \/ FileFails(s) \/ AllRead(s)
        BY <2>0, <2>1 DEF Refuse, SettingsRefused, ScannerMissing, TargetFails, PlanFails,
            DirectoryEmpty, FileFails, AllRead, Working, Ended
    <2>2. CASE Accept(s)
        BY <1>1, <1>2, <1>3, <1>4, <2>2, TypesByPart DEF Accept, Working
    <2>3. CASE TakeEstate(s) \/ ReadPlan(s)
        <3>1. PICK found : found \subseteq Resource /\ Goto(s, "resolve", "grade") /\ Found(s, found)
            BY <1>0, <2>3, CallsHoldResources DEF TakeEstate, ReadPlan, MoveTypes
        <3>2. FoundTypes' /\ UNCHANGED <<grading, sinks>>
            BY <1>0, <3>1, TypesUnread DEF Found
        <3> QED BY <1>2, <1>3, <1>4, <3>1, <3>2, TypesByPart DEF Working
    <2>4. CASE ListDirectory(s)
        <3>1. FoundTypes' /\ UNCHANGED <<grading, sinks>>
            BY <1>0, <2>4 DEF ListDirectory, FoundTypes, MoveTypes, Listed
        <3> QED BY <1>2, <1>3, <1>4, <2>4, <3>1, TypesByPart DEF Working, ListDirectory
    <2>5. CASE ReadFile(s)
        <3>1. PICK f \in File :
                  /\ Goto(s, "read", "read")
                  /\ unread' = [unread EXCEPT ![s] = @ \ {f}]
                  /\ resources' = [resources EXCEPT ![s] = @ \cup directory[f].resources]
                  /\ UNCHANGED <<listing, touched, grading, sinks>>
            BY <2>5 DEF ReadFile
        <3>2. directory[f].resources \subseteq Resource
            BY <1>0, FilesHoldResources DEF MoveTypes
        <3>3. FoundTypes'
            <4> DEFINE held == directory[f].resources
            <4>1. resources' = [resources EXCEPT ![s] = @ \cup held] /\ held \subseteq Resource
                BY <3>1, <3>2
            <4> HIDE DEF held
            <4> QED BY <1>0, <3>1, <4>1 DEF FoundTypes
        <3> QED BY <1>2, <1>3, <1>4, <3>1, <3>3, TypesByPart DEF Working
    <2>6. CASE Grade(s)
        <3>1. GradeTypes'
            BY <1>0, <2>6, DetectFindsKinds DEF Grade, GradeTypes
        <3> QED BY <1>1, <1>3, <1>4, <2>6, <3>1, TypesByPart DEF Working, Grade
    <2>7. CASE AuditScan(s)
        <3>1. SinkTypes'
            BY <1>0, <2>7, SinkEntries DEF AuditScan, SinkTypes
        <3> QED BY <1>1, <1>2, <1>4, <2>7, <3>1, TypesByPart DEF Working, AuditScan
    <2>8. CASE RouteScan(s)
        <3>1. UNCHANGED outcomes \/ \E o \in {"off", "routed", "failed"} : Saw(s, o)
            BY <2>8 DEF RouteScan, RouteOff, RouteStored, RouteFailed
        <3>2. GradeTypes'
            BY <1>0, <2>8, <3>1 DEF RouteScan, GradeTypes, Saw, Routing
        <3>3. /\ UNCHANGED trail
              /\ UNCHANGED console \/ console' = Append(console, ScanReview(s))
              /\ UNCHANGED inflight \/ inflight' = inflight \cup {ScanReview(s)}
            BY <2>8 DEF RouteScan, RouteOff, RouteStored, RouteFailed, sinks
        <3>4. SinkTypes'
            BY <1>0, <3>3, SinkEntries DEF SinkTypes
        <3> QED BY <1>1, <1>4, <2>8, <3>2, <3>4, TypesByPart DEF Working, RouteScan
    <2>9. CASE Respond(s)
        <3>1. Outcome(outcomes[s]) \in Routing
            BY DEF Outcome, Routing
        <3>2. GradeTypes'
            BY <1>0, <2>9, <3>1 DEF Respond, GradeTypes
        <3> QED BY <1>1, <1>3, <1>4, <2>9, <3>2, TypesByPart DEF Ended, Respond
    <2> QED BY <2>1, <2>2, <2>3, <2>4, <2>5, <2>6, <2>7, <2>8, <2>9 DEF Step, Resolve, Read
<1>6. CASE \E f \in File, file \in TfFile(Contents) : Edit(f, file)
    <2>1. MoveTypes' /\ FoundTypes' /\ UNCHANGED <<grading, sinks>>
        BY <1>0, <1>6 DEF Edit, MoveTypes, FoundTypes
    <2> QED BY <1>2, <1>3, <2>1, TypesByPart
<1>7. CASE \E review \in inflight : LateArrival(review)
    <2>1. MoveTypes' /\ SinkTypes' /\ UNCHANGED <<reading, grading>>
        BY <1>0, <1>7 DEF LateArrival, MoveTypes, SinkTypes
    <2> QED BY <1>1, <1>2, <2>1, TypesByPart
<1>8. CASE \E dying \in SUBSET Scan : Crash(dying)
    <2>1. MoveTypes' /\ UNCHANGED <<reading, grading, sinks>>
        BY <1>0, <1>8 DEF Crash, MoveTypes, Ended
    <2> QED BY <1>1, <1>2, <1>3, <2>1, TypesByPart
<1>9. CASE UNCHANGED vars
    BY <1>0, <1>1, <1>2, <1>3, <1>9, TypesByPart DEF vars, MoveTypes
<1> QED BY <1>5, <1>6, <1>7, <1>8, <1>9 DEF Next, Finished

\* Every variable of the scan keeps the type its part of the code gives it,
\* through any number of scans, edits, crashes and late reviews.
THEOREM ScanTypes == Spec => []TypeOK
BY TypeInit, TypeStep, PTL DEF Spec
----------------------------------------------------------------------------
(* The plan a scan grades.                                                 *)

PlanIsTaken ==
    \A s \in Scan :
        (SourceOf(call[s]) \in {"plan", "plan_json"} /\ pc[s] \in Working \ {"resolve"}) =>
            /\ call[s].doc.kind = "plan"
            /\ resources[s] = PlanResources(call[s].doc)

\* A plan is taken at once and then only read, and a scan that opens files has none.
LEMMA PlanIsTakenStep ==
    TypeOK /\ ReadInv /\ PlanIsTaken /\ [Next]_vars => PlanIsTaken'
<1> SUFFICES ASSUME TypeOK, ReadInv, PlanIsTaken, [Next]_vars,
                    NEW t \in Scan, SourceOf(call'[t]) \in {"plan", "plan_json"},
                    pc'[t] \in Working \ {"resolve"}
             PROVE  call'[t].doc.kind = "plan" /\ resources'[t] = PlanResources(call'[t].doc)
    BY DEF PlanIsTaken
<1>0. MoveTypes /\ FoundTypes
    BY TypesByPart
<1>1. ASSUME call'[t] = call[t], pc[t] \in Working \ {"resolve"}, resources'[t] = resources[t]
      PROVE  call'[t].doc.kind = "plan" /\ resources'[t] = PlanResources(call'[t].doc)
    BY <1>1 DEF PlanIsTaken
<1>2. CASE \E s \in Scan : Step(s)
    <2> PICK s \in Scan : Step(s)
        BY <1>2
    <2>1. CASE t # s
        <3>1. /\ \E from, to : Goto(s, from, to)
              /\ resources' = [resources EXCEPT ![s] = resources'[s]]
            BY <1>0, <2>1 DEF Step, Resolve, Read, Refuse, SettingsRefused, Accept, TakeEstate,
                ScannerMissing, TargetFails, ReadPlan, PlanFails, ListDirectory,
                DirectoryEmpty, ReadFile, FileFails, AllRead, Grade, AuditScan, RouteScan,
                Respond, Fail, Found, reading, FoundTypes
        <3>2. pc'[t] = pc[t] /\ call'[t] = call[t] /\ resources'[t] = resources[t]
            BY <1>0, <2>1, <3>1 DEF Goto, MoveTypes, FoundTypes
        <3> QED BY <1>1, <3>2
    <2>2. CASE t = s
        <3>1. SourceOf(call[s]) \in {"plan", "plan_json"}
            BY <1>0, <2>2 DEF Step, Resolve, Read, Refuse, SettingsRefused, Accept, TakeEstate,
                ScannerMissing, TargetFails, ReadPlan, PlanFails, ListDirectory,
                DirectoryEmpty, ReadFile, FileFails, AllRead, Grade, AuditScan, RouteScan,
                Respond, Fail, Found, Goto
        <3>2. pc[s] # "read"
            BY <3>1 DEF ReadInv, ReadsADirectory
        <3>3. CASE ReadPlan(s)
            BY <1>0, <2>2, <3>3 DEF ReadPlan, Goto, Found, PlanRaises, FoundTypes
        <3>4. CASE Grade(s) \/ AuditScan(s) \/ RouteScan(s)
            BY <1>0, <1>1, <2>2, <3>4 DEF Grade, AuditScan, RouteScan, Goto, reading, Working
        <3>5. CASE TakeEstate(s) \/ ListDirectory(s)
            BY <3>1, <3>5 DEF TakeEstate, ListDirectory
        <3>6. CASE ReadFile(s) \/ AllRead(s) \/ FileFails(s)
            BY <3>2, <3>6 DEF ReadFile, AllRead, FileFails, Fail, Goto
        <3>7. CASE \/ Refuse(s) \/ SettingsRefused(s) \/ Accept(s) \/ ScannerMissing(s)
                   \/ TargetFails(s) \/ PlanFails(s) \/ DirectoryEmpty(s) \/ Respond(s)
            BY <1>0, <2>2, <3>7 DEF Refuse, SettingsRefused, Accept, ScannerMissing, TargetFails,
                PlanFails, DirectoryEmpty, Respond, Fail, Goto, MoveTypes, Working
        <3> QED BY <3>3, <3>4, <3>5, <3>6, <3>7 DEF Step, Resolve, Read
    <2> QED BY <2>1, <2>2
<1>3. CASE \E f \in File, file \in TfFile(Contents) : Edit(f, file)
    BY <1>1, <1>3 DEF Edit
<1>4. CASE \E review \in inflight : LateArrival(review)
    BY <1>1, <1>4 DEF LateArrival, reading
<1>5. CASE \E dying \in SUBSET Scan : Crash(dying)
    BY <1>1, <1>5 DEF Crash, reading, Working
<1>6. CASE UNCHANGED vars
    BY <1>1, <1>6 DEF vars, reading
<1> QED BY <1>2, <1>3, <1>4, <1>5, <1>6 DEF Next, Finished

\* A plan of any depth is graded whole: no resource of any module, however deep
\* it is called, is left out by the walk that starts at the root.
THEOREM PlanIsAlwaysWalkedWhole == Spec => []PlanIsWalkedWhole
<1>1. Init => PlanIsTaken
    BY DEF Init, PlanIsTaken, Working
<1>2. TypeOK /\ PlanIsTaken => PlanIsWalkedWhole
    <2> SUFFICES ASSUME TypeOK, PlanIsTaken, NEW s \in Scan,
                        SourceOf(call[s]) \in {"plan", "plan_json"},
                        pc[s] \in Working \ {"resolve"},
                        NEW m \in DOMAIN call[s].doc.modules,
                        NEW entry \in call[s].doc.modules[m].entries, entry.usable
                 PROVE  entry.resource \in resources[s]
        BY DEF PlanIsWalkedWhole
    <2> DEFINE doc == call[s].doc
    <2>1. doc.kind = "plan" /\ resources[s] = PlanResources(doc)
        BY DEF PlanIsTaken
    <2>2. IsModules(doc.modules)
        BY <2>1, ScanAssumption DEF TypeOK, IsCall, IsPlanDoc
    <2>3. PICK walk : WalksFrom(walk, 1, doc.modules) /\ PlanResources(doc) = walk[1]
        BY <2>2, PlanIsWalked
    <2>4. entry.resource \in Usable(doc.modules[m])
        BY DEF Usable
    <2> QED BY <2>1, <2>2, <2>3, <2>4, WalkIsWhole
<1> QED BY <1>1, <1>2, TypeInit, TypeStep, ReadInvInit, ReadInvStep, PlanIsTakenStep, PTL DEF Spec

----------------------------------------------------------------------------
(* The story a scan leaves in the sinks, and tells its caller.             *)

\* The steps of a scan without a verdict, of one that handed nothing over, and
\* of one that may have left a record, or a review.
Ungraded == {"idle", "resolve", "read", "grade", "refused", "failed", "crashed"}
Unrouted == Ungraded \cup {"audit", "route"}
Audited == {"route", "respond", "done", "lost"}
Routed == {"respond", "done", "lost"}

StoredOf(s) == {k \in DOMAIN console : console[k].scan = s}
InflightOf(s) == {review \in inflight : review.scan = s}

\* A scan has a verdict once it is graded; one that was lost may have either.
VerdictIsReached(s) ==
    /\ pc[s] \in Ungraded => verdict[s] = "none"
    /\ pc[s] \notin Ungraded \cup {"lost"} => verdict[s] \in {"passed", "failed"}

\* The router sees one outcome of a scan that asks for a review and none of
\* another, what it saw stored is stored, and the caller is told at the end.
OutcomeIsSeen(s) ==
    /\ pc[s] \in Unrouted => outcomes[s] = {}
    /\ pc[s] \in {"respond", "done"} =>
           IF NeedsReview(kinds[s])
           THEN \E outcome \in {"off", "routed", "failed"} : outcomes[s] = {outcome}
           ELSE outcomes[s] = {}
    /\ "routed" \in outcomes[s] => deployment.profile = "local" \/ StoredOf(s) # {}
    /\ answer[s] = IF pc[s] = "done" THEN Outcome(outcomes[s]) ELSE "none"

\* A record is the one its scan wrote after it was graded.
RecordIsTrue(s) ==
    /\ RecordsOf(s) # {} => pc[s] \in Audited /\ verdict[s] # "none"
    /\ \A k \in RecordsOf(s) : trail[k] = ScanRecord(s)

\* A review is the one its scan asked for, whether it is stored or was given up
\* on and is still on its way, which it is once at most.
ReviewIsTrue(s) ==
    /\ StoredOf(s) \cup InflightOf(s) # {} =>
           /\ pc[s] \in Routed /\ verdict[s] # "none" /\ NeedsReview(kinds[s])
           /\ deployment.profile = "gcp" /\ outcomes[s] \in {{"routed"}, {"failed"}}
    /\ \A k \in StoredOf(s) : console[k] = ScanReview(s)
    /\ \A review \in InflightOf(s) : review = ScanReview(s)
    /\ InflightOf(s) # {} => outcomes[s] = {"failed"} /\ StoredOf(s) = {}

Story(s) == VerdictIsReached(s) /\ OutcomeIsSeen(s) /\ RecordIsTrue(s) /\ ReviewIsTrue(s)

StoryInv == \A s \in Scan : Story(s)

\* Nothing is told of a scan before it begins.
LEMMA StoryInit == Init => StoryInv
BY DEF Init, StoryInv, Story, VerdictIsReached, OutcomeIsSeen, RecordIsTrue, ReviewIsTrue,
    RecordsOf, StoredOf, InflightOf, Ungraded, Unrouted, Audited, Routed

\* What is in the sinks of one scan.
Sunk(s) ==
    <<RecordsOf(s), [k \in RecordsOf(s) |-> trail[k]], StoredOf(s),
      [k \in StoredOf(s) |-> console[k]], InflightOf(s)>>

\* A step that leaves the sinks alone leaves every scan its entries.
LEMMA SinksAtRest == UNCHANGED sinks => \A s \in Scan : UNCHANGED Sunk(s)
BY DEF sinks, Sunk, RecordsOf, StoredOf, InflightOf

\* The entries of a scan stay as they are when its part of the sinks does.
LEMMA SunkEntries ==
    ASSUME NEW s \in Scan, UNCHANGED Sunk(s)
    PROVE  /\ UNCHANGED <<RecordsOf(s), StoredOf(s), InflightOf(s)>>
           /\ \A k \in RecordsOf(s) : trail'[k] = trail[k]
           /\ \A k \in StoredOf(s) : console'[k] = console[k]
<1> DEFINE R == RecordsOf(s)
           S == StoredOf(s)
<1>1. /\ UNCHANGED <<RecordsOf(s), StoredOf(s), InflightOf(s)>>
      /\ [k \in R |-> trail'[k]] = [k \in R |-> trail[k]]
      /\ [k \in S |-> console'[k]] = [k \in S |-> console[k]]
    BY DEF Sunk
<1> HIDE DEF R, S
<1>2. (\A k \in R : trail'[k] = trail[k]) /\ (\A k \in S : console'[k] = console[k])
    BY <1>1
<1> QED BY <1>1, <1>2 DEF R, S

\* What a scan writes depends on its call and its grading alone.
LEMMA SameEntries ==
    ASSUME NEW s \in Scan, call' = call, kinds'[s] = kinds[s], verdict'[s] = verdict[s]
    PROVE  ScanRecord(s)' = ScanRecord(s) /\ ScanReview(s)' = ScanReview(s)
<1>1. ScanSeverity(s)' = ScanSeverity(s)
    BY DEF ScanSeverity
<1>2. Actor(s)' = Actor(s) /\ ScanDecision(s)' = ScanDecision(s)
    BY DEF Actor, ScanDecision, Passing
<1> QED BY <1>1, <1>2 DEF ScanRecord, ScanReview

\* A scan whose grading, outcomes and sinks stay keeps its story when it stays
\* where it is, goes on without a verdict, or is lost.
LEMMA StoryGoesOn ==
    ASSUME NEW s \in Scan, Story(s), UNCHANGED <<deployment, call>>,
           kinds'[s] = kinds[s], verdict'[s] = verdict[s], outcomes'[s] = outcomes[s],
           answer'[s] = answer[s], UNCHANGED Sunk(s),
           \/ pc'[s] = pc[s]
           \/ pc[s] \in Ungraded /\ pc'[s] \in Ungraded
           \/ pc[s] \in Working /\ pc'[s] = "lost"
           \/ pc[s] = "audit" /\ pc'[s] = "route"
    PROVE  Story(s)'
<1> USE DEF Story
<1>0. /\ UNCHANGED <<RecordsOf(s), StoredOf(s), InflightOf(s)>>
      /\ \A k \in RecordsOf(s) : trail'[k] = trail[k]
      /\ \A k \in StoredOf(s) : console'[k] = console[k]
      /\ ScanRecord(s)' = ScanRecord(s) /\ ScanReview(s)' = ScanReview(s)
    BY SunkEntries, SameEntries
<1>1. VerdictIsReached(s)'
    BY DEF VerdictIsReached, Ungraded, Working
<1>2. OutcomeIsSeen(s)'
    BY <1>0 DEF OutcomeIsSeen, Unrouted, Ungraded, Working
<1>3. RecordIsTrue(s)'
    BY <1>0 DEF RecordIsTrue, Audited, Ungraded, Working
<1>4. ReviewIsTrue(s)'
    BY <1>0 DEF ReviewIsTrue, Routed, Ungraded, Working
<1> QED BY <1>1, <1>2, <1>3, <1>4

\* Nothing is in the sinks of a scan that has not come there.
LEMMA NothingSunk ==
    ASSUME NEW s \in Scan, Story(s)
    PROVE  /\ pc[s] \in Ungraded \cup {"audit"} => RecordsOf(s) = {}
           /\ pc[s] \in Unrouted => StoredOf(s) = {} /\ InflightOf(s) = {} /\ outcomes[s] = {}
           /\ pc[s] # "done" => answer[s] = "none"
BY DEF Story, OutcomeIsSeen, RecordIsTrue, ReviewIsTrue, Ungraded, Unrouted, Audited, Routed

\* What an entry at the end of a sequence adds.
LEMMA Appended ==
    ASSUME NEW S, NEW seq \in Seq(S), NEW entry \in S, NEW longer, longer = Append(seq, entry)
    PROVE  /\ DOMAIN longer = DOMAIN seq \cup {Len(seq) + 1} /\ Len(seq) + 1 \notin DOMAIN seq
           /\ longer[Len(seq) + 1] = entry
           /\ \A k \in DOMAIN seq : longer[k] = seq[k]
OBVIOUS

\* A record joins the trail of its scan and of no other.
LEMMA RecordSunk ==
    ASSUME TypeOK, NEW s \in Scan, trail' = Append(trail, ScanRecord(s)),
           UNCHANGED <<console, inflight>>
    PROVE  /\ \A t \in Scan \ {s} : UNCHANGED Sunk(t)
           /\ UNCHANGED <<StoredOf(s), InflightOf(s)>>
           /\ RecordsOf(s)' = RecordsOf(s) \cup {Len(trail) + 1}
           /\ trail'[Len(trail) + 1] = ScanRecord(s)
           /\ \A k \in RecordsOf(s) : trail'[k] = trail[k]
<1>1. trail \in Seq(Record) /\ ScanRecord(s) \in Record
    BY SinkEntries DEF TypeOK
<1>2. /\ DOMAIN trail' = DOMAIN trail \cup {Len(trail) + 1} /\ Len(trail) + 1 \notin DOMAIN trail
      /\ trail'[Len(trail) + 1] = ScanRecord(s)
      /\ \A k \in DOMAIN trail : trail'[k] = trail[k]
    BY <1>1, Appended
<1>3. ScanRecord(s).scan = s
    BY DEF ScanRecord
<1>4. /\ \A t \in Scan \ {s} : RecordsOf(t)' = RecordsOf(t)
      /\ RecordsOf(s)' = RecordsOf(s) \cup {Len(trail) + 1}
    BY <1>2, <1>3 DEF RecordsOf
<1>5. \A t \in Scan : \A k \in RecordsOf(t) : trail'[k] = trail[k]
    BY <1>2 DEF RecordsOf
<1>6. \A t \in Scan : UNCHANGED <<StoredOf(t), InflightOf(t)>>
    BY DEF StoredOf, InflightOf
<1> QED BY <1>2, <1>4, <1>5, <1>6 DEF Sunk

\* A stored review joins the reviews of its scan and of no other.
LEMMA ReviewSunk ==
    ASSUME TypeOK, NEW s \in Scan, console' = Append(console, ScanReview(s)), UNCHANGED trail
    PROVE  /\ \A t \in Scan \ {s} : (UNCHANGED InflightOf(t)) => UNCHANGED Sunk(t)
           /\ UNCHANGED RecordsOf(s) /\ \A k \in RecordsOf(s) : trail'[k] = trail[k]
           /\ StoredOf(s)' = StoredOf(s) \cup {Len(console) + 1}
           /\ console'[Len(console) + 1] = ScanReview(s)
           /\ \A k \in StoredOf(s) : console'[k] = console[k]
<1>1. console \in Seq(Review) /\ ScanReview(s) \in Review
    BY SinkEntries DEF TypeOK
<1>2. /\ DOMAIN console' = DOMAIN console \cup {Len(console) + 1}
      /\ Len(console) + 1 \notin DOMAIN console
      /\ console'[Len(console) + 1] = ScanReview(s)
      /\ \A k \in DOMAIN console : console'[k] = console[k]
    BY <1>1, Appended
<1>3. ScanReview(s).scan = s
    BY DEF ScanReview
<1>4. /\ \A t \in Scan \ {s} : StoredOf(t)' = StoredOf(t)
      /\ StoredOf(s)' = StoredOf(s) \cup {Len(console) + 1}
    BY <1>2, <1>3 DEF StoredOf
<1>5. \A t \in Scan : \A k \in StoredOf(t) : console'[k] = console[k]
    BY <1>2 DEF StoredOf
<1>6. \A t \in Scan : UNCHANGED RecordsOf(t)
    BY DEF RecordsOf
<1> QED BY <1>2, <1>4, <1>5, <1>6 DEF Sunk

\* A scan that is graded has left nothing yet.
LEMMA StoryGraded ==
    ASSUME TypeOK, NEW s \in Scan, Story(s), Grade(s)
    PROVE  Story(s)'
<1>0. MoveTypes /\ GradeTypes
    BY TypesByPart
<1>1. /\ pc[s] = "grade" /\ pc'[s] = "audit" /\ verdict'[s] \in {"passed", "failed"}
      /\ outcomes'[s] = outcomes[s] /\ answer'[s] = answer[s]
      /\ UNCHANGED Sunk(s)
    BY <1>0, SinksAtRest DEF Grade, Goto, MoveTypes, GradeTypes
<1>2. /\ RecordsOf(s)' = {} /\ StoredOf(s)' = {} /\ InflightOf(s)' = {}
      /\ outcomes[s] = {} /\ answer[s] = "none"
    BY <1>1, NothingSunk, SunkEntries DEF Ungraded, Unrouted
<1> QED
    BY <1>1, <1>2 DEF Story, VerdictIsReached, OutcomeIsSeen, RecordIsTrue, ReviewIsTrue, Ungraded

\* A scan writes the record of the verdict it has.
LEMMA StoryRecorded ==
    ASSUME TypeOK, NEW s \in Scan, Story(s), AuditScan(s), trail' = Append(trail, ScanRecord(s))
    PROVE  Story(s)'
<1>0. MoveTypes /\ GradeTypes
    BY TypesByPart
<1>1. /\ pc[s] = "audit" /\ pc'[s] = "route"
      /\ UNCHANGED <<call, deployment, kinds, verdict, outcomes, answer, console, inflight>>
    BY <1>0 DEF AuditScan, Goto, MoveTypes, grading
<1>2. /\ StoredOf(s)' = {} /\ InflightOf(s)' = {}
      /\ RecordsOf(s)' = {Len(trail) + 1} /\ trail'[Len(trail) + 1] = ScanRecord(s)
      /\ outcomes[s] = {} /\ answer[s] = "none"
    BY <1>1, NothingSunk, RecordSunk DEF Ungraded, Unrouted
<1>3. ScanRecord(s)' = ScanRecord(s)
    BY <1>1, SameEntries
<1>4. VerdictIsReached(s)' /\ OutcomeIsSeen(s)'
    BY <1>1, <1>2 DEF Story, VerdictIsReached, OutcomeIsSeen, Ungraded, Unrouted
<1>5. verdict[s] # "none"
    BY <1>1 DEF Story, VerdictIsReached, Ungraded
<1>6. RecordIsTrue(s)'
    BY <1>1, <1>2, <1>3, <1>5 DEF RecordIsTrue, Audited
<1>7. ReviewIsTrue(s)'
    BY <1>1, <1>2 DEF ReviewIsTrue
<1> QED BY <1>4, <1>6, <1>7 DEF Story

\* A scan hands its review over, or gives up on it, and knows which.
LEMMA StoryRouted ==
    ASSUME TypeOK, NEW s \in Scan, Story(s), RouteScan(s)
    PROVE  Story(s)' /\ \A t \in Scan \ {s} : UNCHANGED Sunk(t)
<1>0. MoveTypes /\ GradeTypes
    BY TypesByPart
<1>1. /\ pc[s] = "route" /\ pc'[s] = "respond"
      /\ UNCHANGED <<call, deployment, kinds, verdict, answer, trail>>
    BY <1>0 DEF RouteScan, RouteOff, RouteStored, RouteFailed, Goto, MoveTypes, sinks
<1>2. StoredOf(s) = {} /\ InflightOf(s) = {} /\ outcomes[s] = {} /\ answer[s] = "none"
    BY <1>1, NothingSunk DEF Unrouted, Ungraded
<1>3. ScanRecord(s)' = ScanRecord(s) /\ ScanReview(s)' = ScanReview(s)
    BY <1>1, SameEntries
<1>4. VerdictIsReached(s)' /\ verdict[s] # "none"
    BY <1>1 DEF Story, VerdictIsReached, Ungraded
<1>5. RecordsOf(s)' = RecordsOf(s) /\ \A k \in RecordsOf(s) : trail'[k] = trail[k]
    BY <1>1 DEF RecordsOf
<1>6. RecordIsTrue(s)'
    BY <1>1, <1>3, <1>5 DEF Story, RecordIsTrue, Audited
<1>7. deployment.profile \in {"local", "gcp", "onprem"}
    BY <1>0, ScanAssumption DEF MoveTypes
<1>8. CASE UNCHANGED sinks
    <2>1. \/ ~NeedsReview(kinds[s]) /\ outcomes'[s] = {}
          \/ NeedsReview(kinds[s])
             /\ \/ outcomes'[s] \in {{"off"}, {"failed"}}
                \/ outcomes'[s] = {"routed"} /\ deployment.profile = "local"
                \/ outcomes'[s] = {"routed"} /\ deployment.profile # "local"
                   /\ console' = Append(console, ScanReview(s))
        BY <1>0, <1>2, <1>7 DEF RouteScan, RouteOff, RouteStored, RouteFailed, Saw, GradeTypes
    <2>2. console' # Append(console, ScanReview(s))
        <3>1. Len(Append(console, ScanReview(s))) = Len(console) + 1 /\ Len(console) \in Nat
            BY SinkEntries DEF TypeOK
        <3> QED BY <1>8, <3>1 DEF sinks
    <2>3. \A t \in Scan : UNCHANGED Sunk(t)
        BY <1>8, SinksAtRest
    <2>4. StoredOf(s)' = {} /\ InflightOf(s)' = {}
        BY <1>2, <2>3, SunkEntries
    <2>5. OutcomeIsSeen(s)'
        BY <1>1, <1>2, <2>1, <2>2 DEF OutcomeIsSeen, Unrouted, Ungraded
    <2>6. ReviewIsTrue(s)'
        BY <2>4 DEF ReviewIsTrue
    <2> QED BY <1>4, <1>6, <2>3, <2>5, <2>6 DEF Story
<1>9. CASE /\ NeedsReview(kinds[s]) /\ deployment.profile = "gcp" /\ UNCHANGED inflight
           /\ outcomes'[s] = {"routed"} /\ console' = Append(console, ScanReview(s))
    <2>1. UNCHANGED InflightOf(s) /\ \A t \in Scan : UNCHANGED InflightOf(t)
        BY <1>9 DEF InflightOf
    <2>2. /\ \A t \in Scan \ {s} : UNCHANGED Sunk(t)
          /\ StoredOf(s)' = {Len(console) + 1} /\ console'[Len(console) + 1] = ScanReview(s)
        BY <1>1, <1>2, <1>9, <2>1, ReviewSunk
    <2>3. OutcomeIsSeen(s)'
        BY <1>1, <1>2, <1>9, <2>2 DEF OutcomeIsSeen, Unrouted, Ungraded
    <2>4. ReviewIsTrue(s)'
        BY <1>1, <1>2, <1>3, <1>4, <1>9, <2>1, <2>2 DEF ReviewIsTrue, Routed
    <2> QED BY <1>4, <1>6, <2>2, <2>3, <2>4 DEF Story
<1>10. CASE /\ NeedsReview(kinds[s]) /\ deployment.profile = "gcp" /\ UNCHANGED console
            /\ outcomes'[s] = {"failed"} /\ inflight' = inflight \cup {ScanReview(s)}
    <2>1. ScanReview(s).scan = s
        BY DEF ScanReview
    <2>2. /\ \A t \in Scan : UNCHANGED <<RecordsOf(t), StoredOf(t)>>
          /\ \A t \in Scan \ {s} : UNCHANGED InflightOf(t)
          /\ InflightOf(s)' = {ScanReview(s)}
        BY <1>1, <1>2, <1>10, <2>1 DEF RecordsOf, StoredOf, InflightOf
    <2>3. \A t \in Scan \ {s} : UNCHANGED Sunk(t)
        BY <1>1, <1>10, <2>2 DEF Sunk
    <2>4. OutcomeIsSeen(s)'
        BY <1>1, <1>2, <1>10 DEF OutcomeIsSeen, Unrouted, Ungraded
    <2>5. ReviewIsTrue(s)'
        BY <1>1, <1>2, <1>3, <1>4, <1>10, <2>2 DEF ReviewIsTrue, Routed
    <2> QED BY <1>4, <1>6, <2>3, <2>4, <2>5 DEF Story
<1> QED
    BY <1>0, <1>2, <1>7, <1>8, <1>9, <1>10
       DEF RouteScan, RouteOff, RouteStored, RouteFailed, Saw, GradeTypes, sinks

\* A caller is told what the router saw.
LEMMA StoryTold ==
    ASSUME TypeOK, NEW s \in Scan, Story(s), Respond(s)
    PROVE  Story(s)'
<1>0. MoveTypes /\ GradeTypes
    BY TypesByPart
<1>1. /\ pc[s] = "respond" /\ pc'[s] = "done" /\ answer'[s] = Outcome(outcomes[s])
      /\ UNCHANGED <<call, deployment, kinds, verdict, outcomes>> /\ UNCHANGED Sunk(s)
    BY <1>0, SinksAtRest DEF Respond, Goto, MoveTypes, GradeTypes
<1>2. /\ UNCHANGED <<RecordsOf(s), StoredOf(s), InflightOf(s)>>
      /\ \A k \in RecordsOf(s) : trail'[k] = trail[k]
      /\ \A k \in StoredOf(s) : console'[k] = console[k]
      /\ ScanRecord(s)' = ScanRecord(s) /\ ScanReview(s)' = ScanReview(s)
    BY <1>1, SunkEntries, SameEntries
<1>3. VerdictIsReached(s)'
    BY <1>1 DEF Story, VerdictIsReached, Ungraded
<1>4. OutcomeIsSeen(s)'
    BY <1>1, <1>2 DEF Story, OutcomeIsSeen, Unrouted, Ungraded
<1>5. RecordIsTrue(s)'
    BY <1>1, <1>2 DEF Story, RecordIsTrue, Audited
<1>6. ReviewIsTrue(s)'
    BY <1>1, <1>2 DEF Story, ReviewIsTrue, Routed
<1> QED BY <1>3, <1>4, <1>5, <1>6 DEF Story

\* A late review takes the place in the console that it was given up on.
LEMMA StoryArrives ==
    ASSUME TypeOK, StoryInv, NEW review \in inflight, LateArrival(review)
    PROVE  /\ StoryInv'
           /\ review.scan \in Scan /\ review = ScanReview(review.scan)
           /\ StoredOf(review.scan) = {} /\ outcomes[review.scan] = {"failed"}
<1> DEFINE s == review.scan
<1>0. review \in Review /\ s \in Scan
    BY DEF TypeOK, Review
<1>1. review \in InflightOf(s)
    BY DEF InflightOf
<1> HIDE DEF s
<1>2. Story(s)
    BY <1>0 DEF StoryInv
<1>3. /\ review = ScanReview(s) /\ outcomes[s] = {"failed"} /\ StoredOf(s) = {}
      /\ pc[s] \in Routed /\ verdict[s] # "none" /\ NeedsReview(kinds[s])
      /\ deployment.profile = "gcp" /\ InflightOf(s) = {ScanReview(s)}
    BY <1>1, <1>2 DEF Story, ReviewIsTrue
<1>4. /\ UNCHANGED <<deployment, call, pc, kinds, verdict, outcomes, answer, trail>>
      /\ inflight' = inflight \ {review} /\ console' = Append(console, review)
    BY DEF LateArrival, grading
<1>5. ScanReview(s).scan = s
    BY DEF ScanReview
<1>6. /\ InflightOf(s)' = {} /\ \A t \in Scan \ {s} : UNCHANGED InflightOf(t)
    BY <1>3, <1>4, <1>5 DEF InflightOf
<1>7. /\ \A t \in Scan \ {s} : UNCHANGED Sunk(t)
      /\ StoredOf(s)' = {Len(console) + 1} /\ console'[Len(console) + 1] = ScanReview(s)
      /\ UNCHANGED RecordsOf(s) /\ \A k \in RecordsOf(s) : trail'[k] = trail[k]
    BY <1>0, <1>3, <1>4, <1>6, ReviewSunk
<1>8. \A t \in Scan \ {s} : Story(t)'
    BY <1>4, <1>7, StoryGoesOn DEF StoryInv
<1>9. ScanRecord(s)' = ScanRecord(s) /\ ScanReview(s)' = ScanReview(s)
    BY <1>0, <1>4, SameEntries
<1>10. Story(s)'
    <2>1. VerdictIsReached(s)'
        BY <1>2, <1>4 DEF Story, VerdictIsReached
    <2>2. OutcomeIsSeen(s)'
        BY <1>2, <1>3, <1>4 DEF Story, OutcomeIsSeen
    <2>3. RecordIsTrue(s)'
        BY <1>2, <1>4, <1>7, <1>9 DEF Story, RecordIsTrue
    <2>4. ReviewIsTrue(s)'
        BY <1>3, <1>4, <1>6, <1>7, <1>9 DEF ReviewIsTrue
    <2> QED BY <2>1, <2>2, <2>3, <2>4 DEF Story
<1> QED BY <1>0, <1>3, <1>8, <1>10 DEF StoryInv, s

\* Every step keeps every story.
LEMMA StoryStep == TypeOK /\ StoryInv /\ [Next]_vars => StoryInv'
<1> SUFFICES ASSUME TypeOK, StoryInv, [Next]_vars PROVE StoryInv'
    OBVIOUS
<1>0. MoveTypes /\ GradeTypes
    BY TypesByPart
<1>1. CASE \E s \in Scan : Step(s)
    <2> PICK s \in Scan : Step(s)
        BY <1>1
    <2>0. Story(s) /\ \A t \in Scan : Story(t)
        BY DEF StoryInv
    <2>1. ASSUME NEW from, NEW to, Goto(s, from, to), UNCHANGED <<grading, sinks>>,
                 (from \in Ungraded /\ to \in Ungraded) \/ (from = "audit" /\ to = "route")
          PROVE  StoryInv'
        <3>1. /\ pc[s] = from /\ pc'[s] = to /\ \A t \in Scan \ {s} : pc'[t] = pc[t]
              /\ UNCHANGED <<deployment, call>>
            BY <1>0, <2>1 DEF Goto, MoveTypes
        <3>2. \A t \in Scan : UNCHANGED Sunk(t)
            BY <2>1, SinksAtRest
        <3>3. \A t \in Scan : Story(t)'
            BY <2>0, <2>1, <3>1, <3>2, StoryGoesOn DEF grading
        <3> QED BY <3>3 DEF StoryInv
    <2>2. ASSUME NEW from, NEW to, Goto(s, from, to), \A t \in Scan \ {s} : UNCHANGED Sunk(t),
                 \A t \in Scan \ {s} : /\ kinds'[t] = kinds[t] /\ verdict'[t] = verdict[t]
                                       /\ outcomes'[t] = outcomes[t] /\ answer'[t] = answer[t]
          PROVE  \A t \in Scan \ {s} : Story(t)'
        <3>1. (\A t \in Scan \ {s} : pc'[t] = pc[t]) /\ UNCHANGED <<deployment, call>>
            BY <1>0, <2>2 DEF Goto, MoveTypes
        <3> QED BY <2>0, <2>2, <3>1, StoryGoesOn
    <2>3. CASE \/ Refuse(s) \/ SettingsRefused(s) \/ Accept(s) \/ Resolve(s) \/ Read(s)
        BY <2>1, <2>3 DEF Refuse, SettingsRefused, Accept, Resolve, Read, TakeEstate,
            ScannerMissing, TargetFails, ReadPlan, PlanFails, ListDirectory, DirectoryEmpty,
            ReadFile, FileFails, AllRead, Fail, Found, Ungraded
    <2>4. CASE Grade(s)
        <3>1. \A t \in Scan \ {s} : Story(t)'
            BY <1>0, <2>2, <2>4, SinksAtRest DEF Grade, GradeTypes
        <3> QED BY <2>0, <2>4, <3>1, StoryGraded DEF StoryInv
    <2>5. CASE AuditScan(s) /\ UNCHANGED trail
        BY <2>1, <2>5 DEF AuditScan, sinks
    <2>6. CASE AuditScan(s) /\ trail' = Append(trail, ScanRecord(s))
        <3>1. \A t \in Scan \ {s} : Story(t)'
            BY <2>2, <2>6, RecordSunk DEF AuditScan, grading
        <3> QED BY <2>0, <2>6, <3>1, StoryRecorded DEF StoryInv
    <2>7. CASE RouteScan(s)
        <3>1. Story(s)' /\ \A t \in Scan \ {s} : UNCHANGED Sunk(t)
            BY <2>0, <2>7, StoryRouted
        <3>2. \A t \in Scan \ {s} : outcomes'[t] = outcomes[t]
            BY <1>0, <2>7 DEF RouteScan, RouteOff, RouteStored, RouteFailed, Saw, GradeTypes
        <3>3. \A t \in Scan \ {s} : Story(t)'
            BY <2>2, <2>7, <3>1, <3>2 DEF RouteScan
        <3> QED BY <3>1, <3>3 DEF StoryInv
    <2>8. CASE Respond(s)
        <3>1. \A t \in Scan \ {s} : Story(t)'
            BY <1>0, <2>2, <2>8, SinksAtRest DEF Respond, GradeTypes
        <3> QED BY <2>0, <2>8, <3>1, StoryTold DEF StoryInv
    <2> QED BY <2>3, <2>4, <2>5, <2>6, <2>7, <2>8 DEF Step, AuditScan
<1>2. ASSUME UNCHANGED <<deployment, call>>, UNCHANGED grading, UNCHANGED sinks,
             \A t \in Scan : pc'[t] = pc[t] \/ (pc[t] \in Working /\ pc'[t] = "lost")
      PROVE  StoryInv'
    BY <1>2, SinksAtRest, StoryGoesOn DEF StoryInv, grading
<1>3. CASE \E f \in File, file \in TfFile(Contents) : Edit(f, file)
    <2>1. UNCHANGED <<deployment, call, pc>> /\ UNCHANGED grading /\ UNCHANGED sinks
        BY <1>3 DEF Edit
    <2>2. \A t \in Scan : pc'[t] = pc[t]
        BY <2>1
    <2> QED BY <1>2, <2>1, <2>2
<1>4. CASE \E review \in inflight : LateArrival(review)
    BY <1>4, StoryArrives
<1>5. CASE \E dying \in SUBSET Scan : Crash(dying)
    <2> PICK dying \in SUBSET Scan : Crash(dying)
        BY <1>5
    <2>1. UNCHANGED <<deployment, call>> /\ UNCHANGED grading /\ UNCHANGED sinks
        BY DEF Crash
    <2>2. \A t \in Scan : pc'[t] = pc[t] \/ (pc[t] \in Working /\ pc'[t] = "lost")
        BY DEF Crash
    <2> QED BY <1>2, <2>1, <2>2
<1>6. CASE UNCHANGED vars
    <2>1. UNCHANGED <<deployment, call, pc>> /\ UNCHANGED grading /\ UNCHANGED sinks
        BY <1>6 DEF vars
    <2>2. \A t \in Scan : pc'[t] = pc[t]
        BY <2>1
    <2> QED BY <1>2, <2>1, <2>2
<1> QED BY <1>1, <1>3, <1>4, <1>5, <1>6 DEF Next, Finished

\* Whatever becomes of a scan, its exit code, its record and its review tell one
\* story, and what its caller is told of the review is true.
THEOREM OutcomesAlwaysAgree == Spec => []OutcomesAgree
<1>1. TypeOK /\ StoryInv => OutcomesAgree
    <2> SUFFICES ASSUME TypeOK, StoryInv, NEW s \in Scan
                 PROVE  /\ \A k \in RecordsOf(s) :
                               /\ trail[k].actor = Actor(s)
                               /\ pc[s] = "done" => DecisionIsTrue(trail[k].decision, s)
                               /\ trail[k].decision = "ESCALATED" => NeedsReview(kinds[s])
                        /\ \A review \in ReviewsOf(s) :
                               /\ NeedsReview(kinds[s])
                               /\ review.maker = Actor(s)
                               /\ review.severity = "high" /\ review.approvals = 2
                        /\ pc[s] = "done" => (answer[s] = "not_required") = ~NeedsReview(kinds[s])
        BY DEF OutcomesAgree
    <2>0. Story(s)
        BY DEF StoryInv
    <2>1. \A k \in RecordsOf(s) :
              /\ trail[k].actor = Actor(s)
              /\ pc[s] = "done" => DecisionIsTrue(trail[k].decision, s)
              /\ trail[k].decision = "ESCALATED" => NeedsReview(kinds[s])
        <3>1. \A k \in RecordsOf(s) : trail[k].actor = Actor(s) /\ trail[k].decision = ScanDecision(s)
            BY <2>0 DEF Story, RecordIsTrue, ScanRecord
        <3>2. (ScanDecision(s) = "ALLOWED") = Passing(s)
            BY DEF ScanDecision, Passing
        <3>3. ScanDecision(s) = "ESCALATED" => NeedsReview(kinds[s])
            BY DEF ScanDecision
        <3>4. pc[s] = "done" => (ExitCode(s) = 0) = Passing(s)
            BY DEF ExitCode, Passing
        <3>5. pc[s] = "done" => DecisionIsTrue(ScanDecision(s), s)
            BY <3>2, <3>4 DEF DecisionIsTrue
        <3> QED BY <3>1, <3>3, <3>5
    <2>2. \A review \in ReviewsOf(s) :
              /\ NeedsReview(kinds[s])
              /\ review.maker = Actor(s)
              /\ review.severity = "high" /\ review.approvals = 2
        <3>1. \A review \in ReviewsOf(s) : review = ScanReview(s) /\ NeedsReview(kinds[s])
            BY <2>0 DEF Story, ReviewIsTrue, ReviewsOf, StoredOf, InflightOf
        <3>2. NeedsReview(kinds[s]) => ScanSeverity(s) = "high"
            BY DEF NeedsReview, ScanSeverity
        <3> QED BY <3>1, <3>2 DEF ScanReview
    <2>3. pc[s] = "done" => (answer[s] = "not_required") = ~NeedsReview(kinds[s])
        BY <2>0 DEF Story, OutcomeIsSeen, Outcome
    <2> QED BY <2>1, <2>2, <2>3
<1> QED BY <1>1, TypeInit, TypeStep, StoryInit, StoryStep, PTL DEF Spec

----------------------------------------------------------------------------
(* The scan implements IntakeGate: every step is a step of the gate or     *)
(* leaves what the gate shows unchanged.                                   *)

\* What the gate shows of one scan, and of all of them.
VerdictShown(s) == IF verdict[s] = "failed" THEN "blocked" ELSE verdict[s]

AnswerShown(s) ==
    CASE pc[s] \in {"refused", "failed", "crashed"} -> "error"
      [] pc[s] = "lost" -> "lost"
      [] OTHER -> IF answer[s] = "not_required" THEN "off" ELSE answer[s]

GateVerdict == [s \in Scan |-> VerdictShown(s)]

GateRecorded ==
    {<<trail[k].scan, IF trail[k].decision = "ALLOWED" THEN "ALLOWED" ELSE "ESCALATED">> :
        k \in DOMAIN trail}

GateQueued ==
    {console[k].scan : k \in DOMAIN console}
        \cup {s \in Scan : deployment.profile = "local" /\ "routed" \in outcomes[s]}

GateAnswer == [s \in Scan |-> AnswerShown(s)]

GateView == <<GateVerdict, GateRecorded, GateQueued, GateAnswer>>

\* The gate's actions, read on the view: a verdict,
LEMMA DecideOnView ==
    ASSUME NEW s \in Scan, GateVerdict[s] = "none", GateAnswer[s] = "none",
           NEW v \in {"passed", "blocked"}, GateVerdict' = [GateVerdict EXCEPT ![s] = v],
           UNCHANGED <<GateRecorded, GateQueued, GateAnswer>>
    PROVE  Gate!Next
BY DEF Gate!Next, Gate!Decide, Gate!Undecided, GateVerdict, GateRecorded, GateQueued, GateAnswer,
    VerdictShown, AnswerShown

\* a scan that ends without one,
LEMMA FailOnView ==
    ASSUME NEW s \in Scan, GateVerdict[s] = "none", GateAnswer[s] = "none",
           GateAnswer' = [GateAnswer EXCEPT ![s] = "error"],
           UNCHANGED <<GateVerdict, GateRecorded, GateQueued>>
    PROVE  Gate!Next
BY DEF Gate!Next, Gate!Fail, Gate!Undecided, GateVerdict, GateRecorded, GateQueued, GateAnswer,
    VerdictShown, AnswerShown

\* a record,
LEMMA RecordOnView ==
    ASSUME NEW s \in Scan, GateVerdict[s] # "none", GateAnswer[s] = "none",
           s \notin GateQueued, \A entry \in GateRecorded : entry[1] # s,
           GateRecorded' = GateRecorded
               \cup {<<s, IF GateVerdict[s] = "passed" THEN "ALLOWED" ELSE "ESCALATED">>},
           UNCHANGED <<GateVerdict, GateQueued, GateAnswer>>
    PROVE  Gate!Next
BY DEF Gate!Next, Gate!Record, Gate!Pending, GateVerdict, GateRecorded, GateQueued, GateAnswer,
    VerdictShown, AnswerShown

\* a review that is queued, in time or late,
LEMMA QueueOnView ==
    ASSUME NEW s \in Scan, GateVerdict[s] # "none",
           GateAnswer[s] \in {"none", "failed", "lost"}, s \notin GateQueued,
           GateQueued' = GateQueued \cup {s},
           UNCHANGED <<GateVerdict, GateRecorded, GateAnswer>>
    PROVE  Gate!Next
BY DEF Gate!Next, Gate!Queue, GateVerdict, GateRecorded, GateQueued, GateAnswer,
    VerdictShown, AnswerShown

\* an answer,
LEMMA AnswerOnView ==
    ASSUME NEW s \in Scan, GateVerdict[s] # "none", GateAnswer[s] = "none",
           NEW routing \in {"routed", "failed", "off"},
           routing = "routed" => s \in GateQueued,
           routing = "off" => s \notin GateQueued,
           GateAnswer' = [GateAnswer EXCEPT ![s] = routing],
           UNCHANGED <<GateVerdict, GateRecorded, GateQueued>>
    PROVE  Gate!Next
BY DEF Gate!Next, Gate!Answer, Gate!Pending, GateVerdict, GateRecorded, GateQueued, GateAnswer,
    VerdictShown, AnswerShown

\* and scans that are lost.
LEMMA LoseOnView ==
    ASSUME NEW lost \in SUBSET Scan, lost # {}, \A s \in lost : GateAnswer[s] = "none",
           GateAnswer' = [s \in Scan |-> IF s \in lost THEN "lost" ELSE GateAnswer[s]],
           UNCHANGED <<GateVerdict, GateRecorded, GateQueued>>
    PROVE  Gate!Next
BY DEF Gate!Next, Gate!Lose, GateVerdict, GateRecorded, GateQueued, GateAnswer,
    VerdictShown, AnswerShown

\* What shows stays as it is when the part of the scan it is read from does.
LEMMA ViewAtRest ==
    /\ UNCHANGED verdict => UNCHANGED GateVerdict
    /\ UNCHANGED trail => UNCHANGED GateRecorded
    /\ UNCHANGED <<deployment, console, outcomes>> => UNCHANGED GateQueued
BY DEF GateVerdict, VerdictShown, GateRecorded, GateQueued

\* No caller is told anything by a step between the steps of its scan.
LEMMA AnswersAtRest ==
    ASSUME UNCHANGED answer,
           \A t \in Scan : \/ pc'[t] = pc[t]
                           \/ {pc'[t], pc[t]} \cap {"refused", "failed", "crashed", "lost"} = {}
    PROVE  UNCHANGED GateAnswer
<1>1. \A t \in Scan : AnswerShown(t)' = AnswerShown(t)
    BY DEF AnswerShown
<1> QED BY <1>1, Zenon DEF GateAnswer

\* One scan's answer changes.
LEMMA AnswerChanges ==
    ASSUME NEW s \in Scan, NEW told, AnswerShown(s)' = told,
           \A t \in Scan \ {s} : pc'[t] = pc[t] /\ answer'[t] = answer[t]
    PROVE  GateAnswer' = [GateAnswer EXCEPT ![s] = told]
<1>1. \A t \in Scan \ {s} : AnswerShown(t)' = AnswerShown(t)
    BY DEF AnswerShown
<1> QED BY <1>1 DEF GateAnswer

\* The view of one scan.
LEMMA ViewOf ==
    ASSUME TypeOK, NEW s \in Scan, Story(s)
    PROVE  /\ GateVerdict[s] = VerdictShown(s) /\ GateAnswer[s] = AnswerShown(s)
           /\ pc[s] \in Ungraded => GateVerdict[s] = "none"
           /\ verdict[s] # "none" => GateVerdict[s] # "none"
           /\ pc[s] \in Working \cup {"idle"} => GateAnswer[s] = "none"
           /\ (\E entry \in GateRecorded : entry[1] = s) => RecordsOf(s) # {}
           /\ s \in GateQueued <=>
                  StoredOf(s) # {} \/ (deployment.profile = "local" /\ "routed" \in outcomes[s])
<1>1. GateVerdict[s] = VerdictShown(s) /\ GateAnswer[s] = AnswerShown(s)
    BY DEF GateVerdict, GateAnswer
<1>2. (\E entry \in GateRecorded : entry[1] = s) => RecordsOf(s) # {}
    BY DEF GateRecorded, RecordsOf
<1>3. s \in GateQueued <=>
          StoredOf(s) # {} \/ (deployment.profile = "local" /\ "routed" \in outcomes[s])
    BY DEF GateQueued, StoredOf
<1>4. pc[s] \in Working \cup {"idle"} => AnswerShown(s) = "none"
    BY NothingSunk DEF AnswerShown, Working
<1>5. /\ pc[s] \in Ungraded => VerdictShown(s) = "none"
      /\ verdict[s] # "none" => VerdictShown(s) # "none"
    BY DEF Story, VerdictIsReached, VerdictShown
<1> QED BY <1>1, <1>2, <1>3, <1>4, <1>5

\* A stored review shows in the queue as its scan.
LEMMA QueueGrows ==
    ASSUME TypeOK, NEW s \in Scan, console' = Append(console, ScanReview(s)),
           deployment.profile # "local", UNCHANGED deployment
    PROVE  GateQueued' = GateQueued \cup {s}
<1>1. console \in Seq(Review) /\ ScanReview(s) \in Review /\ ScanReview(s).scan = s
    BY SinkEntries DEF TypeOK, ScanReview
<1>2. /\ DOMAIN console' = DOMAIN console \cup {Len(console) + 1}
      /\ console'[Len(console) + 1] = ScanReview(s)
      /\ \A k \in DOMAIN console : console'[k] = console[k]
    BY <1>1, Appended
<1>3. {console'[k].scan : k \in DOMAIN console'} = {console[k].scan : k \in DOMAIN console} \cup {s}
    BY <1>1, <1>2
<1> QED BY <1>3 DEF GateQueued

\* Every step of a scan is a step of the gate, or shows nothing.
LEMMA GateUnderStep ==
    ASSUME TypeOK, StoryInv, NEW s \in Scan, Step(s)
    PROVE  Gate!Next \/ UNCHANGED GateView
<1>0. MoveTypes /\ GradeTypes /\ Story(s)
    BY TypesByPart DEF StoryInv
<1>1. ASSUME NEW from \in Ungraded \cap (Working \cup {"idle"}),
             NEW to \in {"refused", "failed", "crashed"}, Fail(s, from, to)
      PROVE  Gate!Next
    <2>1. /\ pc[s] = from /\ pc'[s] = to /\ \A t \in Scan \ {s} : pc'[t] = pc[t]
          /\ UNCHANGED <<deployment, trail, console, verdict, outcomes, answer>>
        BY <1>0, <1>1 DEF Fail, Goto, MoveTypes, grading, sinks
    <2>2. GateVerdict[s] = "none" /\ GateAnswer[s] = "none"
        BY <1>0, <2>1, ViewOf
    <2>3. AnswerShown(s)' = "error"
        BY <2>1 DEF AnswerShown
    <2>4. GateAnswer' = [GateAnswer EXCEPT ![s] = "error"]
        BY <2>1, <2>3, AnswerChanges
    <2>5. UNCHANGED <<GateVerdict, GateRecorded, GateQueued>>
        BY <2>1, ViewAtRest
    <2> QED BY <2>2, <2>4, <2>5, FailOnView
<1>2. ASSUME NEW from \in Working \cup {"idle"}, NEW to \in Working, Goto(s, from, to),
             UNCHANGED answer
      PROVE  /\ pc[s] = from /\ pc'[s] = to /\ UNCHANGED deployment
             /\ \A t \in Scan \ {s} : pc'[t] = pc[t]
             /\ UNCHANGED GateAnswer /\ GateAnswer[s] = "none"
    <2>1. /\ pc[s] = from /\ pc'[s] = to /\ UNCHANGED deployment
          /\ \A t \in Scan \ {s} : pc'[t] = pc[t]
        BY <1>0, <1>2 DEF Goto, MoveTypes
    <2>2. {pc'[s], pc[s]} \cap {"refused", "failed", "crashed", "lost"} = {}
        BY <1>2, <2>1 DEF Working
    <2>3. UNCHANGED GateAnswer
        BY <1>2, <2>1, <2>2, AnswersAtRest
    <2>4. GateAnswer[s] = "none"
        BY <1>0, <2>1, ViewOf
    <2> QED BY <2>1, <2>3, <2>4
<1>3. CASE \/ Refuse(s) \/ SettingsRefused(s) \/ ScannerMissing(s) \/ TargetFails(s)
           \/ PlanFails(s) \/ DirectoryEmpty(s) \/ FileFails(s)
    BY <1>1, <1>3 DEF Refuse, SettingsRefused, ScannerMissing, TargetFails, PlanFails,
        DirectoryEmpty, FileFails, Ungraded, Working
<1>4. CASE \/ Accept(s) \/ TakeEstate(s) \/ ReadPlan(s) \/ ListDirectory(s) \/ ReadFile(s)
           \/ AllRead(s)
    <2>1. /\ \E from \in Working \cup {"idle"}, to \in Working : Goto(s, from, to)
          /\ UNCHANGED <<answer, verdict, outcomes, trail, console>>
        BY <1>4 DEF Accept, TakeEstate, ReadPlan, ListDirectory, ReadFile, AllRead, Fail, Found,
            Working, grading, sinks
    <2>2. UNCHANGED GateAnswer /\ UNCHANGED deployment
        BY <1>2, <2>1
    <2> QED BY <2>1, <2>2, ViewAtRest DEF GateView
<1>5. CASE Grade(s)
    <2>1. /\ Goto(s, "grade", "audit") /\ UNCHANGED <<outcomes, answer, trail, console>>
          /\ verdict'[s] \in {"passed", "failed"}
          /\ \A t \in Scan \ {s} : verdict'[t] = verdict[t]
        BY <1>0, <1>5 DEF Grade, GradeTypes, sinks
    <2>2. UNCHANGED GateAnswer /\ GateAnswer[s] = "none" /\ pc[s] = "grade" /\ UNCHANGED deployment
        BY <1>2, <2>1 DEF Working
    <2>3. GateVerdict[s] = "none"
        BY <1>0, <2>2, ViewOf DEF Ungraded
    <2> DEFINE v == IF verdict'[s] = "failed" THEN "blocked" ELSE "passed"
    <2>4. VerdictShown(s)' = v /\ \A t \in Scan \ {s} : VerdictShown(t)' = VerdictShown(t)
        BY <2>1 DEF VerdictShown
    <2>5. v \in {"passed", "blocked"}
        OBVIOUS
    <2> HIDE DEF v
    <2>6. GateVerdict' = [GateVerdict EXCEPT ![s] = v]
        BY <2>4 DEF GateVerdict
    <2>7. UNCHANGED <<GateRecorded, GateQueued>>
        BY <2>1, <2>2, ViewAtRest
    <2> QED BY <2>2, <2>3, <2>5, <2>6, <2>7, DecideOnView
<1>6. CASE AuditScan(s)
    <2>1. /\ Goto(s, "audit", "route") /\ UNCHANGED <<verdict, outcomes, answer, console>>
          /\ UNCHANGED trail \/ trail' = Append(trail, ScanRecord(s))
        BY <1>6 DEF AuditScan, grading
    <2>2. /\ UNCHANGED GateAnswer /\ GateAnswer[s] = "none"
          /\ pc[s] = "audit" /\ UNCHANGED deployment
        BY <1>2, <2>1 DEF Working
    <2>3. UNCHANGED <<GateVerdict, GateQueued>>
        BY <2>1, <2>2, ViewAtRest
    <2>4. CASE UNCHANGED trail
        BY <2>2, <2>3, <2>4, ViewAtRest DEF GateView
    <2>5. CASE trail' = Append(trail, ScanRecord(s))
        <3>1. verdict[s] \in {"passed", "failed"} /\ GateVerdict[s] = VerdictShown(s)
            BY <1>0, <2>2, ViewOf DEF Story, VerdictIsReached, Ungraded
        <3>2. RecordsOf(s) = {} /\ StoredOf(s) = {} /\ outcomes[s] = {}
            BY <1>0, <2>2, NothingSunk DEF Unrouted
        <3>3. s \notin GateQueued /\ \A entry \in GateRecorded : entry[1] # s
            BY <1>0, <3>2, ViewOf
        <3> DEFINE shown == IF GateVerdict[s] = "passed" THEN "ALLOWED" ELSE "ESCALATED"
        <3>4. /\ ScanRecord(s).scan = s
              /\ (IF ScanRecord(s).decision = "ALLOWED" THEN "ALLOWED" ELSE "ESCALATED") = shown
            BY <3>1 DEF ScanRecord, ScanDecision, Passing, VerdictShown
        <3> HIDE DEF shown
        <3>5. trail \in Seq(Record) /\ ScanRecord(s) \in Record
            BY SinkEntries DEF TypeOK
        <3>6. /\ DOMAIN trail' = DOMAIN trail \cup {Len(trail) + 1}
              /\ trail'[Len(trail) + 1] = ScanRecord(s)
              /\ \A k \in DOMAIN trail : trail'[k] = trail[k]
            BY <2>5, <3>5, Appended
        <3>7. GateRecorded' = GateRecorded \cup {<<s, shown>>}
            BY <3>4, <3>6 DEF GateRecorded
        <3>8. GateVerdict[s] # "none"
            BY <3>1 DEF VerdictShown
        <3> QED BY <2>2, <2>3, <3>3, <3>7, <3>8, RecordOnView DEF shown
    <2> QED BY <2>1, <2>4, <2>5
<1>7. CASE RouteScan(s)
    <2>1. /\ Goto(s, "route", "respond") /\ UNCHANGED <<verdict, answer, trail>>
          /\ \/ RouteStored(s)
             \/ UNCHANGED console /\ UNCHANGED outcomes
             \/ UNCHANGED console /\ (Saw(s, "off") \/ Saw(s, "failed"))
        BY <1>7 DEF RouteScan, RouteOff, RouteStored, RouteFailed, sinks
    <2>2. /\ UNCHANGED GateAnswer /\ GateAnswer[s] = "none"
          /\ pc[s] = "route" /\ UNCHANGED deployment
        BY <1>2, <2>1 DEF Working
    <2>3. UNCHANGED <<GateVerdict, GateRecorded>>
        BY <2>1, ViewAtRest
    <2>4. outcomes[s] = {} /\ StoredOf(s) = {} /\ s \notin GateQueued
        BY <1>0, <2>2, NothingSunk, ViewOf DEF Unrouted, Ungraded
    <2>5. verdict[s] # "none" /\ GateVerdict[s] # "none"
        BY <1>0, <2>2, ViewOf DEF Story, VerdictIsReached, Ungraded
    <2>6. CASE UNCHANGED console /\ UNCHANGED outcomes
        BY <2>2, <2>3, <2>6, ViewAtRest DEF GateView
    <2>7. CASE UNCHANGED console /\ (Saw(s, "off") \/ Saw(s, "failed"))
        <3>1. \A t \in Scan : "routed" \in outcomes'[t] <=> "routed" \in outcomes[t]
            BY <1>0, <2>7 DEF Saw, GradeTypes
        <3>2. UNCHANGED GateQueued
            BY <2>2, <2>7, <3>1 DEF GateQueued
        <3> QED BY <2>2, <2>3, <3>2 DEF GateView
    <2>8. CASE RouteStored(s) /\ deployment.profile = "local"
        <3>1. /\ UNCHANGED console
              /\ \A t \in Scan : "routed" \in outcomes'[t] <=> t = s \/ "routed" \in outcomes[t]
            BY <1>0, <2>8 DEF RouteStored, Saw, GradeTypes
        <3>2. GateQueued' = GateQueued \cup {s}
            BY <2>2, <2>8, <3>1 DEF GateQueued
        <3> QED BY <2>2, <2>3, <2>4, <2>5, <3>2, QueueOnView
    <2>9. CASE RouteStored(s) /\ deployment.profile # "local"
        <3>1. GateQueued' = GateQueued \cup {s}
            BY <2>2, <2>9, QueueGrows DEF RouteStored
        <3> QED BY <2>2, <2>3, <2>4, <2>5, <3>1, QueueOnView
    <2> QED BY <2>1, <2>6, <2>7, <2>8, <2>9
<1>8. CASE Respond(s)
    <2>1. /\ pc[s] = "respond" /\ pc'[s] = "done" /\ \A t \in Scan \ {s} : pc'[t] = pc[t]
          /\ answer'[s] = Outcome(outcomes[s]) /\ \A t \in Scan \ {s} : answer'[t] = answer[t]
          /\ UNCHANGED <<deployment, verdict, outcomes, trail, console>>
        BY <1>0, <1>8 DEF Respond, Goto, MoveTypes, GradeTypes, sinks
    <2>2. GateAnswer[s] = "none" /\ GateVerdict[s] # "none"
        BY <1>0, <2>1, ViewOf DEF Story, VerdictIsReached, Ungraded, Working
    <2> DEFINE told == IF outcomes[s] = {"routed"} THEN "routed"
                       ELSE IF outcomes[s] = {"failed"} THEN "failed" ELSE "off"
    <2>3. \/ outcomes[s] = {} \/ outcomes[s] = {"off"} \/ outcomes[s] = {"routed"}
          \/ outcomes[s] = {"failed"}
        BY <1>0, <2>1 DEF Story, OutcomeIsSeen
    <2>4. AnswerShown(s)' = told
        BY <2>1, <2>3 DEF AnswerShown, Outcome
    <2>5. told = "routed" => s \in GateQueued
        BY <1>0, ViewOf DEF Story, OutcomeIsSeen
    <2>6. told = "off" => s \notin GateQueued
        BY <1>0, <2>3, ViewOf DEF Story, ReviewIsTrue
    <2>7. told \in {"routed", "failed", "off"}
        OBVIOUS
    <2> HIDE DEF told
    <2>8. GateAnswer' = [GateAnswer EXCEPT ![s] = told]
        BY <2>1, <2>4, AnswerChanges
    <2>9. UNCHANGED <<GateVerdict, GateRecorded, GateQueued>>
        BY <2>1, ViewAtRest
    <2> QED BY <2>2, <2>5, <2>6, <2>7, <2>8, <2>9, AnswerOnView
<1> QED BY <1>3, <1>4, <1>5, <1>6, <1>7, <1>8 DEF Step, Resolve, Read

\* A review that arrives late is the gate's queueing of it.
LEMMA GateUnderLateArrival ==
    ASSUME TypeOK, StoryInv, NEW review \in inflight, LateArrival(review)
    PROVE  Gate!Next
<1> DEFINE s == review.scan
<1>1. /\ s \in Scan /\ review = ScanReview(s) /\ StoredOf(s) = {} /\ outcomes[s] = {"failed"}
    BY StoryArrives
<1>2. review \in InflightOf(s)
    BY DEF InflightOf
<1> HIDE DEF s
<1>3. /\ Story(s) /\ pc[s] \in Routed /\ verdict[s] # "none" /\ deployment.profile = "gcp"
    BY <1>1, <1>2 DEF StoryInv, Story, ReviewIsTrue
<1>4. /\ UNCHANGED <<deployment, pc, verdict, outcomes, answer, trail>>
      /\ console' = Append(console, ScanReview(s))
    BY <1>1 DEF LateArrival, grading
<1>5. GateQueued' = GateQueued \cup {s}
    BY <1>1, <1>3, <1>4, QueueGrows
<1>6. s \notin GateQueued /\ GateVerdict[s] # "none" /\ GateAnswer[s] = AnswerShown(s)
    BY <1>1, <1>3, ViewOf
<1>7. AnswerShown(s) \in {"none", "failed", "lost"}
    <2>1. answer[s] = IF pc[s] = "done" THEN "failed" ELSE "none"
        BY <1>1, <1>3 DEF Story, OutcomeIsSeen, Outcome
    <2> QED BY <1>3, <2>1 DEF AnswerShown, Routed
<1>8. UNCHANGED <<GateVerdict, GateRecorded, GateAnswer>>
    BY <1>4, ViewAtRest, AnswersAtRest
<1> QED BY <1>1, <1>5, <1>6, <1>7, <1>8, QueueOnView

\* A crash loses scans that were not answered.
LEMMA GateUnderCrash ==
    ASSUME TypeOK, StoryInv, NEW dying \in SUBSET Scan, Crash(dying)
    PROVE  Gate!Next
<1>1. /\ dying # {} /\ \A s \in dying : pc[s] \in Working
      /\ pc' = [s \in Scan |-> IF s \in dying THEN "lost" ELSE pc[s]]
      /\ UNCHANGED <<deployment, verdict, outcomes, answer, trail, console>>
    BY DEF Crash, grading, sinks
<1>2. \A s \in dying : GateAnswer[s] = "none"
    BY <1>1, ViewOf DEF StoryInv
<1>3. \A s \in Scan : AnswerShown(s)' = IF s \in dying THEN "lost" ELSE AnswerShown(s)
    BY <1>1 DEF AnswerShown
<1>4. GateAnswer' = [s \in Scan |-> IF s \in dying THEN "lost" ELSE GateAnswer[s]]
    BY <1>3 DEF GateAnswer
<1>5. UNCHANGED <<GateVerdict, GateRecorded, GateQueued>>
    BY <1>1, ViewAtRest
<1> QED BY <1>1, <1>2, <1>4, <1>5, LoseOnView

\* To its callers and to the two sinks the scan is the same gate as the intake
\* pipeline: one verdict, recorded before it is queued and queued once, and an
\* answer about the hand-off that is true, through crashes and late reviews.
THEOREM ScanImplementsGate == Spec => ImplementsGate
<1>1. Init => Gate!Init
    <2> SUFFICES ASSUME Init PROVE Gate!Init
        OBVIOUS
    <2>1. GateVerdict = [s \in Scan |-> "none"] /\ GateAnswer = [s \in Scan |-> "none"]
        BY DEF Init, GateVerdict, GateAnswer, VerdictShown, AnswerShown
    <2>2. GateRecorded = {} /\ GateQueued = {}
        BY DEF Init, GateRecorded, GateQueued
    <2> QED
        BY <2>1, <2>2 DEF Gate!Init, GateVerdict, GateAnswer, GateRecorded, GateQueued,
            VerdictShown, AnswerShown
<1>2. TypeOK /\ StoryInv /\ [Next]_vars => Gate!Next \/ UNCHANGED GateView
    <2> SUFFICES ASSUME TypeOK, StoryInv, [Next]_vars PROVE Gate!Next \/ UNCHANGED GateView
        OBVIOUS
    <2>1. CASE \E s \in Scan : Step(s)
        BY <2>1, GateUnderStep
    <2>2. CASE \E review \in inflight : LateArrival(review)
        BY <2>2, GateUnderLateArrival
    <2>3. CASE \E dying \in SUBSET Scan : Crash(dying)
        BY <2>3, GateUnderCrash
    <2>4. CASE \/ \E f \in File, file \in TfFile(Contents) : Edit(f, file)
               \/ UNCHANGED vars
        <3>1. UNCHANGED <<deployment, pc, verdict, outcomes, answer, trail, console>>
            BY <2>4 DEF Edit, vars, grading, sinks
        <3> QED BY <3>1, ViewAtRest, AnswersAtRest DEF GateView
    <2> QED BY <2>1, <2>2, <2>3, <2>4 DEF Next, Finished
<1>3. UNCHANGED GateView => UNCHANGED Gate!vars
    BY DEF Gate!vars, GateView, GateVerdict, GateAnswer, GateRecorded, GateQueued,
        VerdictShown, AnswerShown
<1>4. TypeOK /\ StoryInv /\ [Next]_vars => [Gate!Next]_Gate!vars
    BY <1>2, <1>3
<1> QED
    BY <1>1, <1>4, TypeInit, TypeStep, StoryInit, StoryStep, PTL
       DEF Spec, ImplementsGate, Gate!Spec
====
