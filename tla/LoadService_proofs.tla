-------------------------- MODULE LoadService_proofs --------------------------
EXTENDS LoadServiceInv, SequenceTheorems, FiniteSetTheorems, TLAPS

-----------------------------------------------------------------------------
(* The caches as sequences *)

LEMMA RemoveAtType ==
    ASSUME NEW S, NEW s \in Seq(S), NEW i \in DOMAIN s
    PROVE  RemoveAt(s, i) \in Seq(S)
<1>1. i \in 1..Len(s)
  BY LenProperties
<1>2. SubSeq(s, 1, i - 1) \in Seq(S) /\ SubSeq(s, i + 1, Len(s)) \in Seq(S)
  BY <1>1, SubSeqProperties
<1> QED
  BY <1>2, ConcatProperties DEF RemoveAt

LEMMA MovedToEndType ==
    ASSUME NEW S, NEW s \in Seq(S), NEW i \in DOMAIN s
    PROVE  MovedToEnd(s, i) \in Seq(S)
BY RemoveAtType, ElementOfSeq, LenProperties, AppendProperties DEF MovedToEnd

LEMMA StoredType ==
    ASSUME NEW S, NEW s \in Seq(S), NEW e \in S
    PROVE  Stored(s, e) \in Seq(S)
<1>1. CASE \E i \in DOMAIN s : s[i].bank = e.bank
  BY <1>1, RemoveAtType, AppendProperties DEF Stored
<1>2. CASE ~\E i \in DOMAIN s : s[i].bank = e.bank
  BY <1>2, AppendProperties DEF Stored
<1> QED
  BY <1>1, <1>2

LEMMA SuffixType ==
    ASSUME NEW S, NEW s \in Seq(S), NEW i \in DOMAIN s
    PROVE  SubSeq(s, i, Len(s)) \in Seq(S)
BY LenProperties, SubSeqProperties

-----------------------------------------------------------------------------
(* Frames: what a step leaves alone stays as good as it was *)

LEMMA StampFacts ==
    /\ Nothing \in Stamps
    /\ SomeBank \in Banks
    /\ \A fs : \A v \in Stamps : Only(v, fs) \in Stamps
    /\ \A b \in Banks : SourcesOf(b) \subseteq Files
    /\ \A v \in Stamps, f \in Files : v[f] \in Nat
BY SourcesAssumption DEF Stamps, Nothing, SomeBank, Only, SourcesOf

LEMMA CallFrame ==
    ASSUME NEW q \in Procs, CallInv(q), UNCHANGED version,
           pc'[q] = pc[q], bank'[q] = bank[q], asked'[q] = asked[q],
           signature'[q] = signature[q], listed'[q] = listed[q], key'[q] = key[q],
           seen'[q] = seen[q]
    PROVE  CallInv(q)'
BY DEF CallInv, AskedInv, SignatureInv, ListedInv, SeenInv, Signed, AtMost,
       AuditsListed

\* A call that is over claims nothing.
LEMMA CallOver ==
    ASSUME TypeOK, NEW q \in Procs, UNCHANGED version, Forget(q),
           pc'[q] \in {"idle", "next", "pause", "exit", "release"}
    PROVE  CallInv(q)'
<1>1. asked'[q] = Nothing /\ signature'[q] = Nothing /\ seen'[q] = Nothing
  BY DEF Forget, TypeOK
<1>2. \A f \in Files : Nothing[f] = 0 /\ version[f] \in Nat
  BY StampFacts DEF Nothing, TypeOK
<1>3. \A fs : Nothing = Only(Nothing, fs)
  BY DEF Nothing, Only
<1> QED
  BY <1>1, <1>2, <1>3
  DEF CallInv, AskedInv, SignatureInv, ListedInv, SeenInv, Signed, AtMost

LEMMA CachesFrame ==
    ASSUME UNCHANGED version
    PROVE  GoodResults' = GoodResults /\ GoodScans' = GoodScans
BY DEF GoodResults, GoodScans, GoodResult, GoodScan, AtMost

\* Files only change to newer versions: nothing held becomes too new.
LEMMA SourceChange ==
    ASSUME NEW f \in Files, ServiceInv, ChangeFile(f)
    PROVE  ServiceInv'
<1> USE StampFacts, SourcesAssumption
<1>1. version' \in Stamps /\ \A g \in Files : version[g] <= version'[g]
  <2>1. version \in [Files -> 0..MaxVersion] /\ \A g \in Files : version[g] \in Nat
    BY DEF ServiceInv, TypeOK, Stamps
  <2>2. version' = [version EXCEPT ![f] = version[f] + 1] /\ version[f] < MaxVersion
    BY DEF ChangeFile
  <2>3. version[f] + 1 \in 0..MaxVersion
    BY <2>1, <2>2
  <2>4. version' \in [Files -> 0..MaxVersion]
    BY <2>1, <2>2, <2>3
  <2> QED
    BY <2>1, <2>2, <2>4 DEF Stamps
<1>2. TypeOK'
  BY <1>1 DEF ChangeFile, ServiceInv, TypeOK, priority, caches, locals
<1>3. (ParserExclusive /\ PendingMeansRequested /\ RolesInv /\ TodoInv)'
  BY DEF ChangeFile, ServiceInv, ParserExclusive, PendingMeansRequested, Requesting, RolesInv,
         TodoInv, priority
<1>4. SourcesExist'
  BY <1>1 DEF ServiceInv, SourcesExist, TypeOK
<1>5. CachesInv'
  <2>1. \A v \in Stamps : AtMost(v, version) => AtMost(v, version')
    BY <1>1 DEF AtMost, ServiceInv, TypeOK
  <2>2. GoodResults \subseteq GoodResults' /\ GoodScans \subseteq GoodScans'
    BY <2>1 DEF GoodResults, GoodScans, GoodResult, GoodScan, ReadyEntry, ScanEntry
  <2> QED
    BY <2>2, SeqMonotonic DEF ChangeFile, caches, ServiceInv, CachesInv
<1>6. ASSUME NEW q \in Procs PROVE CallInv(q)'
  <2>1. \A v \in Stamps : AtMost(v, version) => AtMost(v, version')
    BY <1>1 DEF AtMost, ServiceInv, TypeOK
  <2>2. Existing(version) \subseteq Existing(version)'
    BY <1>1 DEF Existing, ServiceInv, TypeOK
  <2>3. UNCHANGED <<pc, bank, asked, signature, listed, key, seen>>
    BY DEF ChangeFile, locals
  <2>4. CallInv(q) /\ asked[q] \in Stamps /\ signature[q] \in Stamps
        /\ key[q] \in Stamps /\ seen[q] \in Stamps
    BY DEF ServiceInv, TypeOK
  <2> QED
    BY <2>1, <2>2, <2>3, <2>4
    DEF CallInv, AskedInv, SignatureInv, ListedInv, SeenInv, Signed, AuditsListed
<1> QED
  BY <1>2, <1>3, <1>4, <1>5, <1>6 DEF ServiceInv

\* Thread p's step changes no other thread's place or locals.
OnlyMoves(p) ==
    \A q \in Procs \ {p} :
        /\ pc'[q] = pc[q]
        /\ bank'[q] = bank[q]
        /\ asked'[q] = asked[q]
        /\ signature'[q] = signature[q]
        /\ listed'[q] = listed[q]
        /\ key'[q] = key[q]
        /\ seen'[q] = seen[q]

\* p's step neither begins nor ends a foreground request.
Undisturbed(p) ==
    /\ UNCHANGED priority
    /\ p \in Callers => (pc'[p] \in Foreground <=> pc[p] \in Foreground)

LEMMA PendingKept ==
    ASSUME ServiceInv, NEW p \in Procs, OnlyMoves(p), Undisturbed(p)
    PROVE  PendingMeansRequested'
<1>1. Requesting' = Requesting
  BY DEF Requesting, OnlyMoves, Undisturbed, Procs
<1> QED
  BY <1>1 DEF ServiceInv, PendingMeansRequested, Undisturbed, priority

LEMMA OneThread ==
    ASSUME ServiceInv, NEW p \in Procs, OnlyMoves(p), UNCHANGED version,
           PendingMeansRequested' \/ Undisturbed(p),
           TypeOK', ParserExclusive', RolesInv', TodoInv', CachesInv', CallInv(p)'
    PROVE  ServiceInv'
<1>1. \A q \in Procs \ {p} : CallInv(q)'
  BY CallFrame DEF ServiceInv, OnlyMoves
<1>2. SourcesExist'
  BY DEF ServiceInv, SourcesExist
<1> QED
  BY <1>1, <1>2, PendingKept DEF ServiceInv

LEMMA CachesKept ==
    ASSUME ServiceInv, UNCHANGED <<version, caches>>
    PROVE  CachesInv'
BY CachesFrame DEF ServiceInv, CachesInv, caches

-----------------------------------------------------------------------------
(* One lemma per step *)

LEMMA CancelStep ==
    ASSUME ServiceInv, NEW w \in Workers, Cancel(w)
    PROVE  ServiceInv'
<1> DEFINE p == w
<1> USE DEF Cancel, priority, caches, locals
<1>1. p \in Procs /\ OnlyMoves(p)
  BY DEF OnlyMoves, Procs
<1>2. TypeOK'
  BY DEF ServiceInv, TypeOK
<1>3. (ParserExclusive /\ RolesInv /\ TodoInv)'
  BY DEF ServiceInv, ParserExclusive, RolesInv, TodoInv
<1>4. CallInv(p)'
  BY <1>1, CallFrame DEF ServiceInv
<1>20. Undisturbed(p)
  BY ServiceAssumption DEF Undisturbed, ServiceInv, TypeOK, Foreground, Critical, Loading, Procs
<1> QED
  BY <1>1, <1>2, <1>3, <1>4, <1>20, OneThread, CachesKept

LEMMA BeginStep ==
    ASSUME ServiceInv, NEW p \in Procs, NEW b \in Banks, Begin(p, b),
           pc[p] \in {"idle", "next", "pause"},
           p \in Workers => todo[p] # <<>>
    PROVE  ServiceInv'
<1> USE DEF Begin, Goto, priority, caches
<1>1. OnlyMoves(p)
  BY DEF OnlyMoves, ServiceInv, TypeOK
<1>2. Signature(version, b) \in Stamps
  BY StampFacts DEF Signature, ServiceInv, TypeOK
<1>3. TypeOK'
  BY <1>2 DEF ServiceInv, TypeOK, Phases
<1>4. (ParserExclusive /\ RolesInv /\ TodoInv)'
  BY ServiceAssumption
  DEF ServiceInv, TypeOK, ParserExclusive, RolesInv, TodoInv, Critical, Loading, Procs
<1>5. CallInv(p)'
  <2>1. AtMost(Signature(version, b), version)
    BY StampFacts DEF AtMost, Signature, Only, ServiceInv, TypeOK
  <2>2. Signature(version, b) = Only(Signature(version, b), SourcesOf(b))
    BY DEF Signature, Only
  <2>3. AskedInv(p)'
    BY <2>1, <2>2 DEF AskedInv, ServiceInv, TypeOK
  <2>4. SeenInv(p)'
    BY DEF SeenInv, ServiceInv, TypeOK, CallInv, AtMost
  <2> QED
    BY <2>3, <2>4 DEF CallInv, SignatureInv, ListedInv, Signed, ServiceInv, TypeOK
<1>20. Undisturbed(p)
  BY ServiceAssumption DEF Undisturbed, ServiceInv, TypeOK, Foreground, Critical, Loading, Procs
<1> QED
  BY <1>1, <1>3, <1>4, <1>5, <1>20, OneThread, CachesKept

\* Steps that only move a thread from phase to phase, outside the parser.
LEMMA MoveStep ==
    ASSUME ServiceInv, NEW p \in Procs, NEW phase \in Phases, Goto(p, phase),
           UNCHANGED <<version, coreLock, caches, locals, answer, todo, cancelled>>,
           foregroundRequests' \in Nat, foregroundPending' \in BOOLEAN,
           pc[p] \in Critical <=> phase \in Critical,
           phase \notin Loading \union {"publish", "lookup"},
           PendingMeansRequested' \/ Undisturbed(p),
           p \in Callers => phase \notin {"next", "gate", "try", "pause", "finished"},
           p \in Workers => phase \notin {"idle", "enter", "wait", "exportwait", "export", "exit"},
           phase \in {"gate", "try", "pause"} => pc[p] \in {"lookup", "gate", "try"}
    PROVE  ServiceInv'
<1> USE DEF Goto, caches, locals
<1>1. OnlyMoves(p)
  BY DEF OnlyMoves, ServiceInv, TypeOK
<1>2. TypeOK'
  BY DEF ServiceInv, TypeOK
<1>3. (ParserExclusive /\ RolesInv /\ TodoInv)'
  BY ServiceAssumption
  DEF ServiceInv, TypeOK, ParserExclusive, RolesInv, TodoInv, Loading, Procs
<1>4. CallInv(p)'
  <2>1. pc'[p] = phase
    BY DEF ServiceInv, TypeOK
  <2> QED
    BY <2>1 DEF ServiceInv, CallInv, AskedInv, SignatureInv, ListedInv, SeenInv, Signed,
           AtMost, Loading
<1> QED
  BY <1>1, <1>2, <1>3, <1>4, OneThread, CachesKept

\* A cached or finished result is handed over.
LEMMA ReturnType ==
    ASSUME TypeOK, TodoInv, NEW p \in Procs, NEW rows \in Stamps, Return(p, rows),
           pc[p] \in {"lookup", "publish"} \union Loading
    PROVE  /\ answer' \in [Callers -> Answers \union {NoAnswer}]
           /\ todo' \in [Workers -> Seq(Banks)]
           /\ \A w \in Workers \ {p} : todo'[w] = todo[w]
<1>1. CASE p \in Callers
  <2>1. [bank |-> bank[p], rows |-> rows] \in Answers
    BY DEF TypeOK, Answers
  <2> QED
    BY <1>1, <2>1 DEF Return, TypeOK
<1>2. CASE p \notin Callers
  <2>1. p \in Workers /\ todo[p] \in Seq(Banks) /\ todo[p] # <<>>
    BY <1>2 DEF Procs, TypeOK, TodoInv
  <2>2. Tail(todo[p]) \in Seq(Banks)
    BY <2>1, HeadTailProperties
  <2> QED
    BY <1>2, <2>1, <2>2 DEF Return, TypeOK
<1> QED
  BY <1>1, <1>2

LEMMA ForgetType ==
    ASSUME TypeOK, NEW p \in Procs, Forget(p)
    PROVE  /\ bank' \in [Procs -> Banks]
           /\ asked' \in [Procs -> Stamps]
           /\ signature' \in [Procs -> Stamps]
           /\ listed' \in [Procs -> SUBSET Files]
           /\ key' \in [Procs -> Stamps]
           /\ seen' \in [Procs -> Stamps]
BY StampFacts DEF TypeOK, Forget

LEMMA CacheTypes ==
    /\ \A s \in Seq(GoodResults) : s \in Seq(ReadyEntry)
    /\ \A s \in Seq(GoodScans) : s \in Seq(ScanEntry)
BY SeqMonotonic DEF GoodResults, GoodScans

LEMMA LookupHitStep ==
    ASSUME ServiceInv, NEW p \in Procs, LookupHit(p)
    PROVE  ServiceInv'
<1> USE DEF LookupHit, Goto, priority
<1>1. PICK i \in ReadyHits(p, signature[p]) :
         loadedCache' = MovedToEnd(loadedCache, i) /\ Return(p, loadedCache[i].rows)
  OBVIOUS
<1>2. i \in DOMAIN loadedCache /\ loadedCache \in Seq(GoodResults)
  BY DEF ReadyHits, ServiceInv, CachesInv
<1>3. loadedCache[i] \in GoodResults /\ loadedCache' \in Seq(GoodResults)
  BY <1>1, <1>2, MovedToEndType, ElementOfSeq, LenProperties
<1>4. loadedCache[i].rows \in Stamps
  BY <1>3 DEF GoodResults, ReadyEntry
<1>5. OnlyMoves(p)
  BY DEF OnlyMoves, Forget, ServiceInv, TypeOK
<1>6. TypeOK'
  BY <1>1, <1>3, <1>4, ReturnType, ForgetType, CacheTypes DEF ServiceInv, TypeOK, Phases
<1>7. pc'[p] = (IF p \in Callers THEN "idle" ELSE "next")
  BY DEF ServiceInv, TypeOK
<1>8. (ParserExclusive /\ RolesInv /\ TodoInv)'
  <2>1. \A w \in Workers \ {p} : todo'[w] = todo[w]
    BY <1>1, <1>4, ReturnType DEF ServiceInv, Loading
  <2>2. TodoInv'
    BY <1>5, <1>7, <2>1 DEF ServiceInv, TodoInv, Loading, Procs, OnlyMoves
  <2>3. (ParserExclusive /\ RolesInv)'
    BY <1>5, <1>7, ServiceAssumption
    DEF ServiceInv, ParserExclusive, RolesInv, Critical, Loading, Procs, OnlyMoves
  <2> QED
    BY <2>2, <2>3
<1>9. CachesInv'
  BY <1>3, CachesFrame DEF ServiceInv, CachesInv
<1>10. CallInv(p)'
  BY <1>7, CallOver DEF ServiceInv
<1>20. Undisturbed(p)
  BY ServiceAssumption DEF Undisturbed, ServiceInv, TypeOK, Foreground, Critical, Loading, Procs
<1> QED
  BY <1>5, <1>6, <1>8, <1>9, <1>10, <1>20, OneThread

\* CORE_LOCK is taken by a waiting session or by a job that found it free.
LEMMA TakeLockStep ==
    ASSUME ServiceInv, NEW p \in Procs, NEW phase \in {"list", "export"}, Goto(p, phase),
           coreLock = NoOne, coreLock' = p,
           UNCHANGED <<version, priority, caches, locals, answer, todo, cancelled>>,
           p \in Callers => pc[p] \in {"wait", "exportwait"},
           p \in Workers => phase = "list" /\ pc[p] = "try"
    PROVE  ServiceInv'
<1> USE DEF Goto, priority, caches, locals
<1>1. OnlyMoves(p)
  BY DEF OnlyMoves, ServiceInv, TypeOK
<1>2. TypeOK'
  BY DEF ServiceInv, TypeOK, Phases, Foreground, Critical, Loading
<1>3. pc'[p] = phase
  BY DEF ServiceInv, TypeOK
<1>4. (ParserExclusive /\ RolesInv /\ TodoInv)'
  BY <1>1, <1>3, ServiceAssumption
  DEF ServiceInv, TypeOK, ParserExclusive, RolesInv, TodoInv, Critical, Loading, Procs, OnlyMoves
<1>5. CallInv(p)'
  BY <1>3 DEF ServiceInv, CallInv, AskedInv, SignatureInv, ListedInv, SeenInv, Signed, AtMost
<1>20. Undisturbed(p)
  BY ServiceAssumption DEF Undisturbed, ServiceInv, TypeOK, Foreground, Critical, Loading, Procs
<1> QED
  BY <1>1, <1>2, <1>4, <1>5, <1>20, OneThread, CachesKept

LEMMA ListFilesStep ==
    ASSUME ServiceInv, NEW p \in Procs, ListFiles(p)
    PROVE  ServiceInv'
<1> USE DEF ListFiles, Goto, priority, caches
<1>1. OnlyMoves(p)
  BY DEF OnlyMoves, ServiceInv, TypeOK
<1>2. TypeOK'
  BY StampFacts DEF ServiceInv, TypeOK, Phases, Foreground, Critical, Loading, Existing
<1>3. pc'[p] = "sign" /\ seen'[p] = Nothing
      /\ listed'[p] = Existing(version) \intersect SourcesOf(bank[p])
  BY DEF ServiceInv, TypeOK
<1>4. (ParserExclusive /\ RolesInv /\ TodoInv)'
  BY <1>1, <1>3, ServiceAssumption
  DEF ServiceInv, TypeOK, ParserExclusive, RolesInv, TodoInv, Critical, Loading, Procs, OnlyMoves
<1>5. CallInv(p)'
  <2>1. AskedInv(p)'
    BY <1>3 DEF ServiceInv, CallInv, AskedInv, AtMost
  <2>2. ListedInv(p)'
    BY <1>3, StampFacts DEF ServiceInv, TypeOK, ListedInv, SourcesExist, Existing
  <2>3. SeenInv(p)'
    BY <1>3, StampFacts DEF ServiceInv, TypeOK, SeenInv, AtMost, Nothing
  <2> QED
    BY <1>3, <2>1, <2>2, <2>3 DEF CallInv, SignatureInv, Signed
<1>20. Undisturbed(p)
  BY ServiceAssumption DEF Undisturbed, ServiceInv, TypeOK, Foreground, Critical, Loading, Procs
<1> QED
  BY <1>1, <1>2, <1>4, <1>5, <1>20, OneThread, CachesKept

LEMMA SignHitStep ==
    ASSUME ServiceInv, NEW p \in Procs, SignHit(p)
    PROVE  ServiceInv'
<1> USE DEF SignHit, Goto, priority
<1>1. PICK i \in ReadyHits(p, Signature(version, bank[p])) :
         loadedCache' = MovedToEnd(loadedCache, i) /\ Return(p, loadedCache[i].rows)
  OBVIOUS
<1>2. i \in DOMAIN loadedCache /\ loadedCache \in Seq(GoodResults)
  BY DEF ReadyHits, ServiceInv, CachesInv
<1>3. loadedCache[i] \in GoodResults /\ loadedCache' \in Seq(GoodResults)
  BY <1>1, <1>2, MovedToEndType, ElementOfSeq, LenProperties
<1>4. loadedCache[i].rows \in Stamps
  BY <1>3 DEF GoodResults, ReadyEntry
<1>5. OnlyMoves(p)
  BY DEF OnlyMoves, Forget, ServiceInv, TypeOK
<1>6. TypeOK'
  BY <1>1, <1>3, <1>4, ReturnType, ForgetType, CacheTypes
  DEF ServiceInv, TypeOK, Phases, Foreground, Critical, Loading
<1>7. pc'[p] = "release"
  BY DEF ServiceInv, TypeOK
<1>8. (ParserExclusive /\ RolesInv /\ TodoInv)'
  <2>1. \A w \in Workers \ {p} : todo'[w] = todo[w]
    BY <1>1, <1>4, ReturnType DEF ServiceInv, Loading
  <2>2. TodoInv'
    BY <1>5, <1>7, <2>1 DEF ServiceInv, TodoInv, Loading, Procs, OnlyMoves
  <2>3. (ParserExclusive /\ RolesInv)'
    BY <1>5, <1>7, ServiceAssumption
    DEF ServiceInv, ParserExclusive, RolesInv, Critical, Loading, Procs, OnlyMoves
  <2> QED
    BY <2>2, <2>3
<1>9. CachesInv'
  BY <1>3, CachesFrame DEF ServiceInv, CachesInv
<1>10. CallInv(p)'
  BY <1>7, CallOver DEF ServiceInv
<1>20. Undisturbed(p)
  BY ServiceAssumption DEF Undisturbed, ServiceInv, TypeOK, Foreground, Critical, Loading, Procs
<1> QED
  BY <1>5, <1>6, <1>8, <1>9, <1>10, <1>20, OneThread

\* The lock, the roles and the job lists when p goes on inside the parser.
LEMMA InsideParser ==
    ASSUME ServiceInv, NEW p \in Procs, OnlyMoves(p), UNCHANGED <<coreLock, todo>>,
           pc[p] \in Loading, pc'[p] \in Loading \union {"publish"}
    PROVE  (ParserExclusive /\ RolesInv /\ TodoInv)'
BY ServiceAssumption
DEF ServiceInv, TypeOK, ParserExclusive, RolesInv, TodoInv, Critical, Loading, Procs, OnlyMoves

LEMMA SignMissStep ==
    ASSUME ServiceInv, NEW p \in Procs, SignMiss(p)
    PROVE  ServiceInv'
<1> USE DEF SignMiss, Goto, priority, caches
<1>1. OnlyMoves(p)
  BY DEF OnlyMoves, ServiceInv, TypeOK
<1>2. Signature(version, bank[p]) \in Stamps
  BY StampFacts DEF Signature, ServiceInv, TypeOK
<1>3. TypeOK'
  BY <1>2 DEF ServiceInv, TypeOK, Phases, Foreground, Critical, Loading
<1>4. pc'[p] = "key" /\ signature'[p] = Signature(version, bank[p])
  BY DEF ServiceInv, TypeOK
<1>5. (ParserExclusive /\ RolesInv /\ TodoInv)'
  BY <1>1, <1>4, InsideParser DEF Loading
<1>6. CallInv(p)'
  <2>1. AtMost(asked[p], Signature(version, bank[p]))
    <3> SUFFICES ASSUME NEW f \in Files PROVE asked[p][f] <= Signature(version, bank[p])[f]
      BY DEF AtMost
    <3>1. asked[p][f] <= version[f] /\ asked[p][f] = Only(asked[p], SourcesOf(bank[p]))[f]
      BY DEF ServiceInv, CallInv, AskedInv, AtMost
    <3> QED
      BY <3>1 DEF Signature, Only
  <2>2. SignatureInv(p)'
    BY <1>4, <2>1, StampFacts
    DEF SignatureInv, AtMost, Signature, Only, ServiceInv, TypeOK
  <2>3. AskedInv(p)' /\ SeenInv(p)' /\ ListedInv(p)'
    BY <1>4 DEF ServiceInv, CallInv, AskedInv, SeenInv, ListedInv, AtMost
  <2> QED
    BY <2>2, <2>3 DEF CallInv
<1>20. Undisturbed(p)
  BY ServiceAssumption DEF Undisturbed, ServiceInv, TypeOK, Foreground, Critical, Loading, Procs
<1> QED
  BY <1>1, <1>3, <1>5, <1>6, <1>20, OneThread, CachesKept

\* The scan key stamps the listed audits, at least as new as the signature.
LEMMA ScanKeyFacts ==
    ASSUME ServiceInv, NEW p \in Procs, pc[p] = "key"
    PROVE  /\ ScanKey(p) \in Stamps
           /\ Existing(ScanKey(p)) = AuditsListed(p)
           /\ AuditsListed(p) \subseteq listed[p]
           /\ \A f \in AuditsListed(p) : ScanKey(p)[f] = version[f] /\ version[f] >= signature[p][f]
<1>1. ScanKey(p) \in Stamps
  BY StampFacts DEF ScanKey, ServiceInv, TypeOK
<1>2. listed[p] \subseteq Existing(version) /\ AtMost(signature[p], version)
  BY DEF ServiceInv, CallInv, ListedInv, SignatureInv, Signed
<1>3. \A f \in Files : ScanKey(p)[f] = (IF f \in AuditsListed(p) THEN version[f] ELSE 0)
  BY DEF ScanKey, Only
<1>4. Existing(ScanKey(p)) = AuditsListed(p)
  BY <1>2, <1>3 DEF Existing, AuditsListed
<1>5. \A f \in Files : version[f] \in Nat /\ signature[p][f] \in Nat
  BY StampFacts DEF ServiceInv, TypeOK
<1> QED
  BY <1>1, <1>2, <1>3, <1>4, <1>5 DEF AuditsListed, AtMost, Existing

LEMMA KeyHitStep ==
    ASSUME ServiceInv, NEW p \in Procs, KeyHit(p)
    PROVE  ServiceInv'
<1> USE DEF KeyHit, Goto, priority
<1>1. PICK i \in DOMAIN scanCache :
         /\ scanCache[i].key = ScanKey(p)
         /\ scanCache' = MovedToEnd(scanCache, i)
         /\ seen' = [seen EXCEPT ![p] = scanCache[i].seen]
  OBVIOUS
<1>2. scanCache[i] \in GoodScans /\ scanCache' \in Seq(GoodScans)
  BY <1>1, MovedToEndType, ElementOfSeq, LenProperties DEF ServiceInv, CachesInv
<1>3. scanCache[i].seen \in Stamps /\ ScanKey(p) \in Stamps
  BY <1>2, ScanKeyFacts DEF GoodScans, ScanEntry
<1>4. OnlyMoves(p)
  BY <1>1 DEF OnlyMoves, ServiceInv, TypeOK
<1>5. TypeOK'
  BY <1>1, <1>2, <1>3, CacheTypes DEF ServiceInv, TypeOK, Phases, Foreground, Critical, Loading
<1>6. pc'[p] = "diagnose" /\ seen'[p] = scanCache[i].seen
  BY <1>1 DEF ServiceInv, TypeOK
<1>7. (ParserExclusive /\ RolesInv /\ TodoInv)'
  BY <1>4, <1>6, InsideParser DEF Loading
<1>8. CachesInv'
  BY <1>2, CachesFrame DEF ServiceInv, CachesInv
<1>9. CallInv(p)'
  <2>1. Existing(scanCache[i].seen) = AuditsListed(p) /\ AtMost(ScanKey(p), scanCache[i].seen)
        /\ AtMost(scanCache[i].seen, version)
    BY <1>1, <1>2, ScanKeyFacts DEF GoodScans, GoodScan
  <2>2. \A f \in AuditsListed(p) : scanCache[i].seen[f] >= signature[p][f]
    <3> SUFFICES ASSUME NEW f \in AuditsListed(p) PROVE scanCache[i].seen[f] >= signature[p][f]
      OBVIOUS
    <3>1. f \in Files
      BY DEF AuditsListed, ServiceInv, TypeOK
    <3>2. scanCache[i].seen[f] \in Nat /\ signature[p][f] \in Nat /\ ScanKey(p)[f] \in Nat
      BY <1>3, <3>1, StampFacts DEF ServiceInv, TypeOK
    <3>3. ScanKey(p)[f] >= signature[p][f] /\ ScanKey(p)[f] <= scanCache[i].seen[f]
      BY <2>1, <3>1, ScanKeyFacts DEF AtMost
    <3> QED
      BY <3>2, <3>3
  <2>3. SeenInv(p)'
    BY <1>6, <2>1, <2>2, ScanKeyFacts DEF SeenInv, AtMost, AuditsListed
  <2>4. AskedInv(p)' /\ SignatureInv(p)' /\ ListedInv(p)'
    BY <1>6 DEF ServiceInv, CallInv, AskedInv, SignatureInv, ListedInv, Signed, AtMost
  <2> QED
    BY <2>3, <2>4 DEF CallInv
<1>20. Undisturbed(p)
  BY ServiceAssumption DEF Undisturbed, ServiceInv, TypeOK, Foreground, Critical, Loading, Procs
<1> QED
  BY <1>4, <1>5, <1>7, <1>8, <1>9, <1>20, OneThread

LEMMA KeyMissStep ==
    ASSUME ServiceInv, NEW p \in Procs, KeyMiss(p)
    PROVE  ServiceInv'
<1> USE DEF KeyMiss, Goto, priority, caches
<1>1. OnlyMoves(p)
  BY DEF OnlyMoves, ServiceInv, TypeOK
<1>2. TypeOK'
  BY ScanKeyFacts DEF ServiceInv, TypeOK, Phases, Foreground, Critical, Loading
<1>3. pc'[p] = "scan" /\ key'[p] = ScanKey(p) /\ seen'[p] = Nothing
  BY DEF ServiceInv, TypeOK, CallInv, SeenInv
<1>4. (ParserExclusive /\ RolesInv /\ TodoInv)'
  BY <1>1, <1>3, InsideParser DEF Loading
<1>5. CallInv(p)'
  <2>1. Existing(Nothing) = {}
    BY DEF Existing, Nothing
  <2>2. AtMost(ScanKey(p), version)
    BY StampFacts DEF AtMost, ScanKey, Only, ServiceInv, TypeOK
  <2>3. SeenInv(p)'
    BY <1>3, <2>1, <2>2, ScanKeyFacts DEF ServiceInv, CallInv, SeenInv, AtMost, AuditsListed
  <2>4. AskedInv(p)' /\ SignatureInv(p)' /\ ListedInv(p)'
    BY <1>3 DEF ServiceInv, CallInv, AskedInv, SignatureInv, ListedInv, Signed, AtMost
  <2> QED
    BY <2>3, <2>4 DEF CallInv
<1>20. Undisturbed(p)
  BY ServiceAssumption DEF Undisturbed, ServiceInv, TypeOK, Foreground, Critical, Loading, Procs
<1> QED
  BY <1>1, <1>2, <1>4, <1>5, <1>20, OneThread, CachesKept

\* Reading one listed file not read before, in the scan or the diagnosis.
LEMMA ReadFileStep ==
    ASSUME ServiceInv, NEW p \in Procs, NEW fs, NEW f \in Unread(p, fs), ReadFile(p, f),
           (pc[p] = "scan" /\ fs = AuditsOf[bank[p]]) \/ pc[p] = "diagnose"
    PROVE  ServiceInv'
<1> USE DEF ReadFile, priority, caches
<1>1. OnlyMoves(p)
  BY DEF OnlyMoves, ServiceInv, TypeOK
<1>2. f \in listed[p] /\ f \in Files /\ f \in fs
  BY DEF Unread, ServiceInv, TypeOK
<1>3. version[f] \in 0..MaxVersion /\ version[f] > 0 /\ version[f] >= signature[p][f]
  <2>1. f \in Existing(version) /\ signature[p][f] <= version[f]
    BY <1>2 DEF ServiceInv, CallInv, ListedInv, SignatureInv, Signed, AtMost
  <2>2. version[f] \in 0..MaxVersion /\ signature[p][f] \in 0..MaxVersion
    BY <1>2 DEF ServiceInv, TypeOK, Stamps
  <2> QED
    BY <2>1, <2>2, SourcesAssumption DEF Existing
<1>4. seen'[p] = [seen[p] EXCEPT ![f] = version[f]] /\ seen'[p] \in Stamps /\ seen[p] \in Stamps
  BY <1>2, <1>3 DEF ServiceInv, TypeOK, Stamps
<1>5. TypeOK'
  BY <1>4 DEF ServiceInv, TypeOK
<1>6. (ParserExclusive /\ RolesInv /\ TodoInv)'
  BY <1>1, InsideParser DEF Loading
<1>7. CallInv(p)'
  <2>1. \A g \in Files : seen'[p][g] = IF g = f THEN version[f] ELSE seen[p][g]
    BY <1>4 DEF Stamps
  <2>2. Existing(seen'[p]) = Existing(seen[p]) \union {f}
    BY <1>2, <1>3, <2>1 DEF Existing
  <2>3. AtMost(seen'[p], version)
    BY <1>3, <2>1, SourcesAssumption DEF ServiceInv, CallInv, SeenInv, AtMost
  <2>4. SeenInv(p)'
    <3>1. CASE pc[p] = "scan" /\ fs = AuditsOf[bank[p]]
      <4>1. f \in AuditsListed(p)
        BY <1>2, <3>1 DEF AuditsListed
      <4>2. key[p][f] <= version[f]
        BY <1>2, <3>1 DEF ServiceInv, CallInv, SeenInv, AtMost
      <4>3. \A g \in Existing(seen'[p]) : seen'[p][g] >= key[p][g]
        <5>1. key[p][f] \in Nat /\ version[f] \in Nat
          BY <1>2, StampFacts DEF ServiceInv, TypeOK
        <5> QED
          BY <2>1, <2>2, <3>1, <4>2, <5>1 DEF ServiceInv, CallInv, SeenInv, Existing
      <4> QED
        BY <2>2, <2>3, <3>1, <4>1, <4>3
        DEF ServiceInv, CallInv, SeenInv, AuditsListed, AtMost
    <3>2. CASE pc[p] = "diagnose"
      <4>1. \A g \in Existing(seen'[p]) : seen'[p][g] >= signature[p][g]
        BY <1>3, <2>1, <2>2, <3>2 DEF ServiceInv, CallInv, SeenInv, Existing
      <4> QED
        BY <1>2, <2>2, <2>3, <3>2, <4>1
        DEF ServiceInv, CallInv, SeenInv, AuditsListed, AtMost
    <3> QED
      BY <3>1, <3>2
  <2>5. AskedInv(p)' /\ SignatureInv(p)' /\ ListedInv(p)'
    BY DEF ServiceInv, CallInv, AskedInv, SignatureInv, ListedInv, Signed, AtMost
  <2> QED
    BY <2>4, <2>5 DEF CallInv
<1>20. Undisturbed(p)
  BY ServiceAssumption DEF Undisturbed, ServiceInv, TypeOK, Foreground, Critical, Loading, Procs
<1> QED
  BY <1>1, <1>5, <1>6, <1>7, <1>20, OneThread, CachesKept

LEMMA StoreScanStep ==
    ASSUME ServiceInv, NEW p \in Procs, StoreScan(p)
    PROVE  ServiceInv'
<1> DEFINE entry == [key |-> key[p], seen |-> seen[p]]
           cache == Append(scanCache, entry)
<1> USE DEF StoreScan, Goto, priority, locals
<1>1. OnlyMoves(p)
  BY DEF OnlyMoves, ServiceInv, TypeOK
<1>2. AuditsListed(p) = Existing(seen[p]) /\ AuditsListed(p) = Existing(key[p])
  <2>1. AuditsListed(p) \subseteq Existing(seen[p])
    <3>1. \A f \in AuditsListed(p) : f \in Files /\ seen[p][f] # 0 /\ seen[p][f] \in Nat
      BY StampFacts DEF Unread, AuditsListed, ServiceInv, TypeOK
    <3> QED
      BY <3>1 DEF Existing
  <2> QED
    BY <2>1 DEF ServiceInv, CallInv, SeenInv
<1>3. \A f \in AuditsListed(p) : f \in Files /\ seen[p][f] \in Nat /\ key[p][f] \in Nat /\ signature[p][f] \in Nat
  BY StampFacts DEF AuditsListed, ServiceInv, TypeOK
<1>4. entry \in GoodScans
  <2>1. entry \in ScanEntry
    BY DEF ScanEntry, ServiceInv, TypeOK
  <2>2. \A f \in Files : key[p][f] <= seen[p][f]
    <3>1. \A f \in Files : key[p][f] \in Nat /\ seen[p][f] \in Nat
      BY StampFacts DEF ServiceInv, TypeOK
    <3>2. \A f \in Files : f \notin Existing(key[p]) => key[p][f] = 0
      BY <3>1 DEF Existing
    <3>3. \A f \in Existing(seen[p]) : seen[p][f] >= key[p][f]
      BY DEF ServiceInv, CallInv, SeenInv
    <3> QED
      BY <1>2, <3>1, <3>2, <3>3
  <2> QED
    BY <1>2, <2>1, <2>2 DEF GoodScans, GoodScan, AtMost, ServiceInv, CallInv, SeenInv
<1>5. scanCache' \in Seq(GoodScans)
  <2>1. cache \in Seq(GoodScans) /\ cache # <<>>
    BY <1>4, AppendProperties DEF ServiceInv, CachesInv
  <2>2. Tail(cache) \in Seq(GoodScans)
    BY <2>1, HeadTailProperties
  <2> QED
    BY <2>1, <2>2
<1>6. TypeOK'
  BY <1>5, CacheTypes DEF ServiceInv, TypeOK, Phases, Foreground, Critical, Loading
<1>7. pc'[p] = "diagnose"
  BY DEF ServiceInv, TypeOK
<1>8. (ParserExclusive /\ RolesInv /\ TodoInv)'
  BY <1>1, <1>7, InsideParser DEF Loading
<1>9. CachesInv'
  BY <1>5, CachesFrame DEF ServiceInv, CachesInv
<1>10. CallInv(p)'
  <2>1. \A f \in AuditsListed(p) : seen[p][f] >= signature[p][f]
    <3>1. /\ \A f \in AuditsListed(p) : key[p][f] >= signature[p][f]
          /\ \A f \in Existing(seen[p]) : seen[p][f] >= key[p][f]
      BY DEF ServiceInv, CallInv, SeenInv
    <3> QED
      BY <1>2, <1>3, <3>1
  <2>2. SeenInv(p)'
    BY <1>2, <1>7, <2>1 DEF ServiceInv, CallInv, SeenInv, AuditsListed, AtMost
  <2>3. AskedInv(p)' /\ SignatureInv(p)' /\ ListedInv(p)'
    BY <1>7 DEF ServiceInv, CallInv, AskedInv, SignatureInv, ListedInv, Signed, AtMost
  <2> QED
    BY <2>2, <2>3 DEF CallInv
<1>20. Undisturbed(p)
  BY ServiceAssumption DEF Undisturbed, ServiceInv, TypeOK, Foreground, Critical, Loading, Procs
<1> QED
  BY <1>1, <1>6, <1>8, <1>9, <1>10, <1>20, OneThread

LEMMA BuildRowsStep ==
    ASSUME ServiceInv, NEW p \in Procs, BuildRows(p)
    PROVE  ServiceInv'
<1> USE DEF BuildRows, Goto, priority, caches, locals
<1>1. OnlyMoves(p)
  BY DEF OnlyMoves, ServiceInv, TypeOK
<1>2. TypeOK'
  BY DEF ServiceInv, TypeOK, Phases, Foreground, Critical
<1>3. pc'[p] = "publish"
  BY DEF ServiceInv, TypeOK
<1>4. (ParserExclusive /\ RolesInv /\ TodoInv)'
  BY <1>1, <1>3, InsideParser DEF Loading
<1>5. CallInv(p)'
  <2>1. listed[p] \subseteq Existing(seen[p])
    <3> SUFFICES ASSUME NEW f \in listed[p] PROVE f \in Existing(seen[p])
      OBVIOUS
    <3>1. f \in SourcesOf(bank[p]) /\ f \in Files
      BY DEF ServiceInv, TypeOK, CallInv, ListedInv, Signed
    <3>2. CASE f \in TangoLogs
      <4>1. seen[p][f] # 0 /\ seen[p][f] \in Nat
        BY <3>1, <3>2, StampFacts DEF Unread, ServiceInv, TypeOK
      <4> QED
        BY <3>1, <4>1 DEF Existing
    <3>3. CASE f \in AuditsOf[bank[p]]
      BY <3>3 DEF AuditsListed, ServiceInv, CallInv, SeenInv
    <3> QED
      BY <3>1, <3>2, <3>3 DEF SourcesOf
  <2>2. SeenInv(p)'
    BY <1>3, <2>1 DEF ServiceInv, CallInv, SeenInv, AtMost
  <2>3. AskedInv(p)' /\ SignatureInv(p)' /\ ListedInv(p)'
    BY <1>3 DEF ServiceInv, CallInv, AskedInv, SignatureInv, ListedInv, Signed, AtMost
  <2> QED
    BY <2>2, <2>3 DEF CallInv
<1>20. Undisturbed(p)
  BY ServiceAssumption DEF Undisturbed, ServiceInv, TypeOK, Foreground, Critical, Loading, Procs
<1> QED
  BY <1>1, <1>2, <1>4, <1>5, <1>20, OneThread, CachesKept

\* What a finished load found: the rows of its bank, no older than either
\* signature and no newer than the files.
LEMMA FinishedRows ==
    ASSUME ServiceInv, NEW p \in Procs, pc[p] = "publish"
    PROVE  /\ NoOlder(seen[p], signature[p])
           /\ NoOlder(seen[p], asked[p])
           /\ seen[p] = Only(seen[p], SourcesOf(bank[p]))
           /\ AtMost(seen[p], version)
<1>1. \A f \in Files : seen[p][f] \in Nat /\ signature[p][f] \in Nat /\ asked[p][f] \in Nat
  BY StampFacts DEF ServiceInv, TypeOK
<1>2. Existing(seen[p]) = listed[p]
  BY DEF ServiceInv, CallInv, SeenInv
<1>3. \A f \in Files : f \notin listed[p] => seen[p][f] = 0
  BY <1>1, <1>2 DEF Existing
<1>4. \A f \in listed[p] : seen[p][f] >= signature[p][f] /\ f \in SourcesOf(bank[p])
  <2>1. SeenInv(p) /\ ListedInv(p) /\ Signed(p)
    BY DEF ServiceInv, CallInv, Signed
  <2>2. \A f \in Existing(seen[p]) : seen[p][f] >= signature[p][f]
    BY <2>1 DEF SeenInv
  <2>3. listed[p] \subseteq SourcesOf(bank[p])
    BY <2>1 DEF ListedInv
  <2> QED
    BY <1>2, <2>2, <2>3
<1>5. \A f \in Files : f \notin SourcesOf(bank[p]) => signature[p][f] = 0
  <2>1. SignatureInv(p) /\ Signed(p)
    BY DEF ServiceInv, CallInv, Signed
  <2>2. signature[p] = Only(signature[p], SourcesOf(bank[p]))
    BY <2>1 DEF SignatureInv
  <2>3. \A f \in Files : Only(signature[p], SourcesOf(bank[p]))[f]
                           = IF f \in SourcesOf(bank[p]) THEN signature[p][f] ELSE 0
    BY DEF Only
  <2> QED
    BY <2>2, <2>3
<1>6. SourcesOf(bank[p]) \ LateFiles \subseteq listed[p]
  BY DEF ServiceInv, CallInv, ListedInv, Signed
<1>7. NoOlder(seen[p], signature[p])
  <2> SUFFICES ASSUME NEW f \in Files
               PROVE  seen[p][f] >= signature[p][f] \/ (f \in LateFiles /\ seen[p][f] = 0)
    BY DEF NoOlder
  <2>1. CASE f \in listed[p]
    BY <1>4, <2>1
  <2>2. CASE f \notin listed[p] /\ f \in LateFiles
    BY <1>3, <2>2
  <2>3. CASE f \notin listed[p] /\ f \notin LateFiles
    <3>1. seen[p][f] = 0 /\ signature[p][f] = 0
      BY <1>3, <1>5, <1>6, <2>3
    <3> QED
      BY <3>1
  <2> QED
    BY <2>1, <2>2, <2>3
<1>8. NoOlder(seen[p], asked[p])
  <2>1. \A f \in Files : asked[p][f] <= signature[p][f]
    BY DEF ServiceInv, CallInv, SignatureInv, Signed, AtMost
  <2>2. \A f \in Files : seen[p][f] >= signature[p][f] \/ (f \in LateFiles /\ seen[p][f] = 0)
    BY <1>7 DEF NoOlder
  <2>3. \A f \in Files : seen[p][f] >= asked[p][f] \/ (f \in LateFiles /\ seen[p][f] = 0)
    <3> SUFFICES ASSUME NEW f \in Files
                 PROVE  seen[p][f] >= asked[p][f] \/ (f \in LateFiles /\ seen[p][f] = 0)
      OBVIOUS
    <3>1. seen[p][f] \in Nat /\ signature[p][f] \in Nat /\ asked[p][f] \in Nat
      BY <1>1
    <3>2. asked[p][f] <= signature[p][f]
      BY <2>1
    <3>3. seen[p][f] >= signature[p][f] \/ (f \in LateFiles /\ seen[p][f] = 0)
      BY <2>2
    <3> QED
      BY <3>1, <3>2, <3>3
  <2> QED
    BY <2>3 DEF NoOlder
<1>9. seen[p] = Only(seen[p], SourcesOf(bank[p]))
  BY <1>3, <1>4 DEF Only, ServiceInv, TypeOK, Stamps
<1> QED
  BY <1>7, <1>8, <1>9 DEF ServiceInv, CallInv, SeenInv

LEMMA PublishStep ==
    ASSUME ServiceInv, NEW p \in Procs, Publish(p)
    PROVE  ServiceInv'
<1> DEFINE entry == [bank |-> bank[p], signature |-> signature[p], rows |-> seen[p]]
           cache == Stored(loadedCache, entry)
<1> USE DEF Publish, Goto, priority
<1>1. entry \in GoodResults
  BY FinishedRows DEF GoodResults, GoodResult, ReadyEntry, ServiceInv, TypeOK
<1>2. cache \in Seq(GoodResults)
  BY <1>1, StoredType DEF ServiceInv, CachesInv
<1>3. loadedCache' \in Seq(GoodResults)
  <2>1. PICK i \in DOMAIN cache : loadedCache' = SubSeq(cache, i, Len(cache))
    OBVIOUS
  <2> QED
    BY <1>2, <2>1, SuffixType
<1>4. seen[p] \in Stamps
  BY DEF ServiceInv, TypeOK
<1>5. OnlyMoves(p)
  BY DEF OnlyMoves, Forget, ServiceInv, TypeOK
<1>6. TypeOK'
  BY <1>3, <1>4, ReturnType, ForgetType, CacheTypes
  DEF ServiceInv, TypeOK, Phases, Foreground, Critical, Loading
<1>7. pc'[p] = "release"
  BY DEF ServiceInv, TypeOK
<1>8. (ParserExclusive /\ RolesInv /\ TodoInv)'
  <2>1. \A w \in Workers \ {p} : todo'[w] = todo[w]
    BY <1>4, ReturnType DEF ServiceInv, Loading
  <2>2. TodoInv'
    BY <1>5, <1>7, <2>1 DEF ServiceInv, TodoInv, Loading, Procs, OnlyMoves
  <2>3. (ParserExclusive /\ RolesInv)'
    BY <1>5, <1>7, ServiceAssumption
    DEF ServiceInv, ParserExclusive, RolesInv, Critical, Loading, Procs, OnlyMoves
  <2> QED
    BY <2>2, <2>3
<1>9. CachesInv'
  BY <1>3, CachesFrame DEF ServiceInv, CachesInv
<1>10. CallInv(p)'
  BY <1>7, CallOver DEF ServiceInv
<1>20. Undisturbed(p)
  BY ServiceAssumption DEF Undisturbed, ServiceInv, TypeOK, Foreground, Critical, Loading, Procs
<1> QED
  BY <1>5, <1>6, <1>8, <1>9, <1>10, <1>20, OneThread

LEMMA InterruptStep ==
    ASSUME ServiceInv, NEW w \in Workers, Interrupt(w)
    PROVE  ServiceInv'
<1> USE DEF Interrupt, Goto, priority, caches
<1>1. w \in Procs /\ OnlyMoves(w)
  BY DEF OnlyMoves, Forget, ServiceInv, TypeOK, Procs
<1>2. TypeOK'
  BY <1>1, ForgetType DEF ServiceInv, TypeOK, Phases
<1>3. pc'[w] = "pause"
  BY <1>1 DEF ServiceInv, TypeOK
<1>4. (ParserExclusive /\ RolesInv /\ TodoInv)'
  BY <1>1, <1>3, ServiceAssumption
  DEF ServiceInv, ParserExclusive, RolesInv, TodoInv, Critical, Loading, Procs, OnlyMoves
<1>5. CallInv(w)'
  BY <1>1, <1>3, CallOver DEF ServiceInv
<1>20. Undisturbed(w)
  BY ServiceAssumption DEF Undisturbed, ServiceInv, TypeOK, Foreground, Critical, Loading, Procs
<1> QED
  BY <1>1, <1>2, <1>4, <1>5, <1>20, OneThread, CachesKept

LEMMA SignHitInterruptedStep ==
    ASSUME ServiceInv, NEW w \in Workers, SignHitInterrupted(w)
    PROVE  ServiceInv'
<1> USE DEF SignHitInterrupted, Goto, priority
<1>1. PICK i \in ReadyHits(w, Signature(version, bank[w])) : loadedCache' = MovedToEnd(loadedCache, i)
  OBVIOUS
<1>2. i \in DOMAIN loadedCache /\ loadedCache \in Seq(GoodResults)
  BY DEF ReadyHits, ServiceInv, CachesInv
<1>3. loadedCache' \in Seq(GoodResults)
  BY <1>1, <1>2, MovedToEndType, ElementOfSeq, LenProperties
<1>4. w \in Procs /\ OnlyMoves(w)
  BY DEF OnlyMoves, Forget, ServiceInv, TypeOK, Procs
<1>5. TypeOK'
  BY <1>3, <1>4, ForgetType, CacheTypes DEF ServiceInv, TypeOK, Phases
<1>6. pc'[w] = "pause"
  BY <1>4 DEF ServiceInv, TypeOK
<1>7. (ParserExclusive /\ RolesInv /\ TodoInv)'
  BY <1>4, <1>6, ServiceAssumption
  DEF ServiceInv, ParserExclusive, RolesInv, TodoInv, Critical, Loading, Procs, OnlyMoves
<1>8. CachesInv'
  BY <1>3, CachesFrame DEF ServiceInv, CachesInv
<1>9. CallInv(w)'
  BY <1>4, <1>6, CallOver DEF ServiceInv
<1>20. Undisturbed(w)
  BY ServiceAssumption DEF Undisturbed, ServiceInv, TypeOK, Foreground, Critical, Loading, Procs
<1> QED
  BY <1>4, <1>5, <1>7, <1>8, <1>9, <1>20, OneThread

LEMMA RaiseStep ==
    ASSUME ServiceInv, NEW p \in Procs, Raise(p)
    PROVE  ServiceInv'
<1> USE DEF Raise, Goto, priority, caches
<1>1. OnlyMoves(p)
  BY DEF OnlyMoves, Forget, ServiceInv, TypeOK
<1>2. /\ todo' \in [Workers -> Seq(Banks)]
      /\ \A w \in Workers \ {p} : todo'[w] = todo[w]
  <2>1. CASE p \in Callers
    BY <2>1 DEF ServiceInv, TypeOK
  <2>2. CASE p \notin Callers
    <3>1. p \in Workers /\ todo[p] \in Seq(Banks)
      BY <2>2 DEF Procs, ServiceInv, TypeOK
    <3>2. pc[p] \in {"lookup"} \union Loading
      OBVIOUS
    <3>3. todo[p] # <<>>
      BY <3>1, <3>2 DEF ServiceInv, TodoInv
    <3>4. Tail(todo[p]) \in Seq(Banks)
      BY <3>1, <3>3, HeadTailProperties
    <3>5. todo \in [Workers -> Seq(Banks)] /\ todo' = [todo EXCEPT ![p] = Tail(@)]
      BY <2>2 DEF ServiceInv, TypeOK
    <3> HIDE DEF Raise
    <3> QED
      BY <3>1, <3>4, <3>5
  <2> QED
    BY <2>1, <2>2
<1>3. /\ pc'[p] \in {"exit", "idle", "next"}
      /\ p \in Callers => pc'[p] = IF coreLock = p THEN "exit" ELSE "idle"
      /\ p \notin Callers => pc'[p] = "next"
      /\ pc' \in [Procs -> Phases]
  BY DEF ServiceInv, TypeOK, Phases, Foreground
<1>4. TypeOK'
  BY <1>2, <1>3, ForgetType DEF ServiceInv, TypeOK
<1>5. (ParserExclusive /\ RolesInv /\ TodoInv)'
  <2>1. TodoInv'
    BY <1>1, <1>2, <1>3 DEF ServiceInv, TodoInv, Loading, Procs, OnlyMoves
  <2>2. RolesInv'
    BY <1>1, <1>3, ServiceAssumption DEF ServiceInv, RolesInv, Loading, Procs, OnlyMoves
  <2>3. ParserExclusive'
    BY <1>1, <1>3, ServiceAssumption DEF ServiceInv, ParserExclusive, Critical, Loading, Procs, OnlyMoves
  <2> QED
    BY <2>1, <2>2, <2>3
<1>6. CallInv(p)'
  BY <1>3, CallOver DEF ServiceInv
<1>20. Undisturbed(p)
  BY ServiceAssumption DEF Undisturbed, ParserExclusive, ServiceInv, TypeOK, Foreground, Critical, Loading, Procs
<1> QED
  BY <1>1, <1>4, <1>5, <1>6, <1>20, OneThread, CachesKept

LEMMA ReleaseStep ==
    ASSUME ServiceInv, NEW p \in Procs, Release(p)
    PROVE  ServiceInv'
<1> USE DEF Release, Goto, priority, caches, locals
<1>1. OnlyMoves(p)
  BY DEF OnlyMoves, ServiceInv, TypeOK
<1>2. pc'[p] = (IF p \in Callers THEN "exit" ELSE "next") /\ pc' \in [Procs -> Phases]
  BY DEF ServiceInv, TypeOK, Phases, Foreground
<1>3. TypeOK'
  BY <1>2 DEF ServiceInv, TypeOK
<1>4. (ParserExclusive /\ RolesInv /\ TodoInv)'
  BY <1>1, <1>2, ServiceAssumption
  DEF ServiceInv, ParserExclusive, RolesInv, TodoInv, Critical, Loading, Procs, OnlyMoves
<1>5. CallInv(p)'
  BY <1>2 DEF ServiceInv, CallInv, AskedInv, SignatureInv, ListedInv, SeenInv, Signed, AtMost
<1>20. Undisturbed(p)
  BY ServiceAssumption DEF Undisturbed, ServiceInv, TypeOK, Foreground, Critical, Loading, Procs
<1> QED
  BY <1>1, <1>3, <1>4, <1>5, <1>20, OneThread, CachesKept

-----------------------------------------------------------------------------
LEMMA Initially == Init => ServiceInv
<1> SUFFICES ASSUME Init PROVE ServiceInv
  OBVIOUS
<1> USE StampFacts, ServiceAssumption, SourcesAssumption
<1>1. TypeOK
  <2>1. version \in Stamps
    BY DEF Init, Stamps
  <2>2. scanCache \in Seq(ScanEntry) /\ loadedCache \in Seq(ReadyEntry)
    BY EmptySeq DEF Init
  <2>3. pc \in [Procs -> Phases] /\ todo \in [Workers -> Seq(Banks)]
    BY DEF Init, Phases
  <2> QED
    BY <2>1, <2>2, <2>3 DEF Init, TypeOK
<1>2. ParserExclusive /\ RolesInv /\ TodoInv
  BY DEF Init, ParserExclusive, RolesInv, TodoInv, Critical, Loading, Procs
<1>3. SourcesExist /\ CachesInv
  BY EmptySeq DEF Init, SourcesExist, CachesInv
<1>4. ASSUME NEW p \in Procs PROVE CallInv(p)
  <2>1. asked[p] = Nothing /\ signature[p] = Nothing /\ seen[p] = Nothing
        /\ pc[p] \in {"idle", "next"}
    BY DEF Init
  <2>2. \A f \in Files : Nothing[f] = 0 /\ version[f] \in Nat
    BY <1>1 DEF Nothing, TypeOK
  <2>3. \A fs : Nothing = Only(Nothing, fs)
    BY DEF Nothing, Only
  <2> QED
    BY <2>1, <2>2, <2>3
    DEF CallInv, AskedInv, SignatureInv, ListedInv, SeenInv, Signed, AtMost
<1>5. PendingMeansRequested
  <2>1. Requesting = {}
    BY DEF Init, Requesting, Procs, Foreground, Critical, Loading
  <2> QED
    BY <2>1, FS_EmptySet DEF Init, PendingMeansRequested
<1> QED
  BY <1>1, <1>2, <1>3, <1>4, <1>5 DEF ServiceInv

\* Every step a thread takes in load_logs, whoever it is.
LEMMA LoadStepStep ==
    ASSUME ServiceInv, NEW p \in Procs, LoadStep(p)
    PROVE  ServiceInv'
<1>1. CASE LookupHit(p)
  BY <1>1, LookupHitStep
<1>2. CASE LookupMiss(p)
  <2> DEFINE phase == IF p \in Callers THEN "enter" ELSE "gate"
  <2>1. phase \in Phases /\ Goto(p, phase)
    BY <1>2 DEF LookupMiss, Phases
  <2>2. Undisturbed(p)
    BY <1>2 DEF LookupMiss, Goto, Undisturbed, ServiceInv, TypeOK, Foreground, Critical, Loading
  <2>3. foregroundRequests' \in Nat /\ foregroundPending' \in BOOLEAN
    BY <1>2 DEF LookupMiss, priority, ServiceInv, TypeOK
  <2>4. phase \in {"enter", "gate"} /\ (p \in Callers => phase = "enter")
        /\ (p \in Workers => phase = "gate")
    BY ServiceAssumption DEF Procs
  <2> HIDE DEF phase
  <2> QED
    BY <1>2, <2>1, <2>2, <2>3, <2>4, MoveStep DEF LookupMiss, Critical, Loading
<1>3. CASE ListFiles(p)
  BY <1>3, ListFilesStep
<1>4. CASE SignHit(p)
  BY <1>4, SignHitStep
<1>5. CASE SignMiss(p)
  BY <1>5, SignMissStep
<1>6. CASE KeyHit(p)
  BY <1>6, KeyHitStep
<1>7. CASE KeyMiss(p)
  BY <1>7, KeyMissStep
<1>8. ASSUME NEW f \in Files, ReadAudit(p, f) PROVE ServiceInv'
  BY <1>8, ReadFileStep DEF ReadAudit
<1>9. ASSUME NEW f \in Files, ReadTango(p, f) PROVE ServiceInv'
  BY <1>9, ReadFileStep DEF ReadTango
<1>10. CASE StoreScan(p)
  BY <1>10, StoreScanStep
<1>11. CASE BuildRows(p)
  BY <1>11, BuildRowsStep
<1>12. CASE Publish(p)
  BY <1>12, PublishStep
<1>13. CASE Release(p)
  BY <1>13, ReleaseStep
<1> QED
  BY <1>1, <1>2, <1>3, <1>4, <1>5, <1>6, <1>7, <1>8, <1>9, <1>10, <1>11, <1>12, <1>13
  DEF LoadStep

LEMMA CallerStepStep ==
    ASSUME ServiceInv, NEW c \in Callers, CallerStep(c) \/ Export(c)
    PROVE  ServiceInv'
<1>0. c \in Procs /\ c \notin Workers
  BY ServiceAssumption DEF Procs
<1>1. CASE LoadStep(c)
  BY <1>0, <1>1, LoadStepStep
<1>2. ASSUME NEW phase \in {"wait", "exportwait"}, EnterForeground(c, phase),
             pc[c] \in {"enter", "idle"}
      PROVE  ServiceInv'
  <2>1. phase \in Phases /\ Goto(c, phase)
    BY <1>2 DEF EnterForeground, Phases, Foreground
  <2>2. foregroundRequests' \in Nat /\ foregroundPending' \in BOOLEAN
    BY <1>2 DEF EnterForeground, ServiceInv, TypeOK
  <2>3. PendingMeansRequested'
    <3>1. c \notin Requesting /\ Requesting' = Requesting \union {c}
      BY <1>0, <1>2 DEF EnterForeground, Goto, Requesting, Foreground, Critical, Loading,
                        ServiceInv, TypeOK, Procs
    <3>2. IsFiniteSet(Requesting)
      BY ServiceAssumption, FS_Subset DEF Requesting
    <3> QED
      BY <1>2, <3>1, <3>2, FS_AddElement
      DEF EnterForeground, ServiceInv, PendingMeansRequested
  <2> QED
    BY <1>0, <1>2, <2>1, <2>2, <2>3, MoveStep DEF EnterForeground, Critical, Loading
<1>3. CASE Acquire(c)
  <2> DEFINE phase == IF pc[c] = "wait" THEN "list" ELSE "export"
  <2>1. phase \in {"list", "export"} /\ Goto(c, phase)
    BY <1>3 DEF Acquire
  <2> HIDE DEF phase
  <2> QED
    BY <1>0, <1>3, <2>1, TakeLockStep DEF Acquire
<1>4. CASE Exit(c)
  <2>0. /\ c \in Requesting /\ Requesting' = Requesting \ {c}
        /\ IsFiniteSet(Requesting) /\ IsFiniteSet(Requesting')
    <3>1. c \in Requesting /\ Requesting' = Requesting \ {c}
      BY <1>0, <1>4 DEF Exit, Goto, Requesting, Foreground, Critical, Loading,
                        ServiceInv, TypeOK, Procs
    <3>2. IsFiniteSet(Requesting)
      BY ServiceAssumption, FS_Subset DEF Requesting
    <3> QED
      BY <3>1, <3>2, FS_RemoveElement
  <2>1. /\ foregroundRequests' \in Nat /\ foregroundPending' \in BOOLEAN
        /\ PendingMeansRequested'
    <3>1. foregroundRequests' = Cardinality(Requesting')
      BY <1>4, <2>0, FS_RemoveElement DEF Exit, ServiceInv, PendingMeansRequested
    <3>2. Cardinality(Requesting') \in Nat /\ (Cardinality(Requesting') = 0 <=> Requesting' = {})
      BY <2>0, FS_CardinalityType, FS_EmptySet
    <3>3. foregroundPending = TRUE
      BY <2>0 DEF ServiceInv, TypeOK, PendingMeansRequested
    <3> QED
      BY <1>4, <3>1, <3>2, <3>3 DEF Exit, PendingMeansRequested
  <2>2. "idle" \in Phases /\ Goto(c, "idle")
    BY <1>4 DEF Exit, Phases
  <2> QED
    BY <1>0, <1>4, <2>1, <2>2, MoveStep DEF Exit, Critical, Loading
<1>5. ASSUME CallerStep(c) \/ Export(c) PROVE LoadStep(c) \/ Acquire(c) \/ Exit(c)
          \/ \E phase \in {"wait", "exportwait"} : EnterForeground(c, phase) /\ pc[c] \in {"enter", "idle"}
  BY <1>5 DEF CallerStep, Export, Enter
<1> QED
  BY <1>1, <1>2, <1>3, <1>4, <1>5

LEMMA WorkerStepStep ==
    ASSUME ServiceInv, NEW w \in Workers, WorkerStep(w)
    PROVE  ServiceInv'
<1>0. w \in Procs /\ w \notin Callers
  BY ServiceAssumption DEF Procs
<1>1. CASE LoadStep(w)
  BY <1>0, <1>1, LoadStepStep
<1>2. ASSUME Goto(w, "finished"), pc[w] \in {"next", "pause"},
             UNCHANGED <<version, coreLock, priority, caches, locals, answer, todo, cancelled>>
      PROVE  ServiceInv'
  <2>1. "finished" \in Phases
    BY DEF Phases
  <2> QED
    BY <1>0, <1>2, <2>1, MoveStep DEF priority, Critical, Loading, ServiceInv, TypeOK, Undisturbed
<1>3. ASSUME Begin(w, Head(todo[w])), pc[w] \in {"next", "pause"}, todo[w] # <<>>
      PROVE  ServiceInv'
  <2>1. Head(todo[w]) \in Banks
    BY <1>3, HeadTailProperties DEF ServiceInv, TypeOK
  <2> QED
    BY <1>0, <1>3, <2>1, BeginStep
<1>4. CASE NextBank(w)
  BY <1>2, <1>3, <1>4 DEF NextBank
<1>5. CASE Retry(w)
  <2>1. todo[w] # <<>>
    BY <1>5 DEF Retry, ServiceInv, TodoInv
  <2> QED
    BY <1>2, <1>3, <1>5, <2>1 DEF Retry
<1>6. CASE Gate(w)
  <2> DEFINE phase == IF foregroundPending THEN "pause" ELSE "try"
  <2>1. phase \in {"pause", "try"} /\ phase \in Phases /\ Goto(w, phase)
    BY <1>6 DEF Gate, Phases
  <2> HIDE DEF phase
  <2> QED
    BY <1>0, <1>6, <2>1, MoveStep
    DEF Gate, priority, Critical, Loading, ServiceInv, TypeOK, Undisturbed
<1>7. CASE TryLock(w)
  <2>1. CASE coreLock = NoOne
    BY <1>0, <1>7, <2>1, TakeLockStep DEF TryLock
  <2>2. CASE coreLock # NoOne
    <3>1. "pause" \in Phases
      BY DEF Phases
    <3> QED
      BY <1>0, <1>7, <2>2, <3>1, MoveStep
      DEF TryLock, priority, Critical, Loading, ServiceInv, TypeOK, Undisturbed
  <2> QED
    BY <2>1, <2>2
<1>8. CASE Interrupt(w)
  BY <1>8, InterruptStep
<1>9. CASE SignHitInterrupted(w)
  BY <1>9, SignHitInterruptedStep
<1> QED
  BY <1>1, <1>4, <1>5, <1>6, <1>7, <1>8, <1>9 DEF WorkerStep

(***************************************************************************)
(* The service keeps its invariant: the state stays typed, CORE_LOCK has   *)
(* one owner, and nothing cached or in flight is older than the signature  *)
(* or key it stands under (web_services.py 269-411).                       *)
(***************************************************************************)
THEOREM ServiceInvariant == Spec => []ServiceInv
<1>1. ServiceInv /\ [Next]_vars => ServiceInv'
  <2> SUFFICES ASSUME ServiceInv, [Next]_vars PROVE ServiceInv'
    OBVIOUS
  <2>1. ASSUME NEW f \in Files, ChangeFile(f) PROVE ServiceInv'
    BY <2>1, SourceChange
  <2>2. ASSUME NEW w \in Workers, Cancel(w) PROVE ServiceInv'
    BY <2>2, CancelStep
  <2>3. ASSUME NEW w \in Workers, WorkerStep(w) PROVE ServiceInv'
    BY <2>3, WorkerStepStep
  <2>4. ASSUME NEW c \in Callers, CallerStep(c) \/ Export(c) PROVE ServiceInv'
    BY <2>4, CallerStepStep
  <2>5. ASSUME NEW c \in Callers, NEW b \in Banks, Ask(c, b) PROVE ServiceInv'
    BY <2>5, BeginStep, ServiceAssumption DEF Ask, Procs
  <2>6. ASSUME NEW p \in Procs, Raise(p) PROVE ServiceInv'
    BY <2>6, RaiseStep
  <2>7. CASE UNCHANGED vars
    <3>1. UNCHANGED <<version, caches>> /\ \A q \in Procs : CallInv(q)'
      BY <2>7, CallFrame DEF vars, locals, ServiceInv
    <3> QED
      BY <2>7, <3>1, CachesKept
      DEF vars, priority, caches, locals, ServiceInv, TypeOK, ParserExclusive, RolesInv,
          TodoInv, SourcesExist, PendingMeansRequested, Requesting
  <2> QED
    BY <2>1, <2>2, <2>3, <2>4, <2>5, <2>6, <2>7 DEF Next
<1> QED
  BY <1>1, Initially, PTL DEF Spec

(***************************************************************************)
(* The typed state alone.                                                  *)
(***************************************************************************)
THEOREM TypeCorrect == Spec => []TypeOK
<1>1. ServiceInv => TypeOK
  BY DEF ServiceInv
<1> QED
  BY <1>1, ServiceInvariant, PTL

(***************************************************************************)
(* CORE_LOCK: exactly the thread inside _load_logs or split_audit_files    *)
(* owns it.                                                                *)
(***************************************************************************)
THEOREM OneParser == Spec => []ParserExclusive
<1>1. ServiceInv => ParserExclusive
  BY DEF ServiceInv
<1> QED
  BY <1>1, ServiceInvariant, PTL

\* A step of another thread leaves a job where it is.
LEMMA OthersLeaveJob ==
    ASSUME ServiceInv, NEW w \in Workers, NEW p, p # w,
           pc' = pc \/ \E phase : pc' = [pc EXCEPT ![p] = phase],
           seen' = seen \/ \E s : seen' = [seen EXCEPT ![p] = s]
    PROVE  pc'[w] = pc[w] /\ seen'[w] = seen[w]
<1>1. w \in Procs /\ pc \in [Procs -> Phases] /\ seen \in [Procs -> Stamps]
  BY DEF Procs, ServiceInv, TypeOK
<1> QED
  BY <1>1

(***************************************************************************)
(* For any number of sessions and jobs: while a session waits for or uses  *)
(* the parser, a job inside it does nothing but leave (283-291).           *)
(***************************************************************************)
THEOREM JobsLeaveTheParser == Spec => JobsGiveWay
<1> DEFINE leaves ==
             \A w \in Workers :
                Requesting # {} /\ pc[w] \in {"list", "scan", "diagnose"}
                    => \/ pc'[w] = pc[w] /\ seen'[w] = seen[w]
                       \/ pc'[w] \in {"pause", "next"} /\ coreLock' # w
<1>1. ServiceInv /\ [Next]_vars => [leaves]_vars
  <2> SUFFICES ASSUME ServiceInv, [Next]_vars, NEW w \in Workers,
                      Requesting # {}, pc[w] \in {"list", "scan", "diagnose"}
               PROVE  \/ pc'[w] = pc[w] /\ seen'[w] = seen[w]
                      \/ pc'[w] \in {"pause", "next"} /\ coreLock' # w
    OBVIOUS
  <2>1. foregroundPending
    BY DEF ServiceInv, PendingMeansRequested
  <2>2. w \in Procs /\ w \notin Callers /\ NoOne # w /\ coreLock = w
        /\ pc \in [Procs -> Phases] /\ seen \in [Procs -> Stamps]
    BY ServiceAssumption DEF Procs, ServiceInv, TypeOK, ParserExclusive, Critical, Loading
  <2>3. ~MayProceed(w)
    BY <2>1 DEF MayProceed
  <2>4. CASE WorkerStep(w)
    <3>1. Interrupt(w)
      BY <2>3, <2>4
      DEF WorkerStep, LoadStep, LookupHit, LookupMiss, ListFiles, SignHit, SignMiss, KeyHit, KeyMiss, ReadAudit,
          ReadTango, StoreScan, BuildRows, Publish, Release, NextBank, Retry, Gate, TryLock, SignHitInterrupted
    <3> QED
      BY <2>2, <3>1 DEF Interrupt, Goto
  <2>5. CASE Raise(w)
    BY <2>2, <2>5 DEF Raise, Goto
  <2>6. ASSUME NEW p \in Procs, p # w, Raise(p) PROVE pc'[w] = pc[w] /\ seen'[w] = seen[w]
    BY <2>2, <2>6, OthersLeaveJob DEF Raise, Goto, Forget
  <2>7. ASSUME NEW p \in Procs, p # w, LoadStep(p) PROVE pc'[w] = pc[w] /\ seen'[w] = seen[w]
    BY <2>2, <2>7, OthersLeaveJob
    DEF LoadStep, LookupHit, LookupMiss, ListFiles, SignHit, SignMiss, KeyHit, KeyMiss, ReadAudit,
        ReadTango, ReadFile, StoreScan, BuildRows, Publish, Release, Goto, Forget, locals
  <2>8. ASSUME NEW u \in Workers, u # w, WorkerStep(u) PROVE pc'[w] = pc[w] /\ seen'[w] = seen[w]
    <3>1. CASE LoadStep(u)
      BY <2>7, <2>8, <3>1 DEF Procs
    <3>2. CASE NextBank(u) \/ Retry(u) \/ Gate(u) \/ TryLock(u) \/ Interrupt(u) \/ SignHitInterrupted(u)
      BY <2>2, <2>8, <3>2, OthersLeaveJob
      DEF NextBank, Retry, Gate, TryLock, Interrupt, SignHitInterrupted, Begin, Goto, Forget, locals
    <3> QED
      BY <2>8, <3>1, <3>2 DEF WorkerStep
  <2>9. ASSUME NEW c \in Callers, CallerStep(c) \/ Export(c) \/ \E b \in Banks : Ask(c, b)
        PROVE  pc'[w] = pc[w] /\ seen'[w] = seen[w]
    <3>1. c # w /\ c \in Procs
      BY <2>2 DEF Procs
    <3>2. CASE LoadStep(c)
      BY <2>7, <3>1, <3>2
    <3>3. CASE Enter(c) \/ Acquire(c) \/ Exit(c) \/ Export(c) \/ \E b \in Banks : Ask(c, b)
      BY <2>2, <3>1, <3>3, OthersLeaveJob
      DEF Enter, EnterForeground, Acquire, Exit, Export, Ask, Begin, Goto, locals
    <3> QED
      BY <2>9, <3>2, <3>3 DEF CallerStep
  <2>10. CASE (\E f \in Files : ChangeFile(f)) \/ (\E u \in Workers : Cancel(u)) \/ UNCHANGED vars
    BY <2>10 DEF ChangeFile, Cancel, locals, vars
  <2> QED
    BY <2>4, <2>5, <2>6, <2>8, <2>9, <2>10 DEF Next
<1> HIDE DEF leaves
<1>2. Spec => [][leaves]_vars
  BY <1>1, ServiceInvariant, PTL DEF Spec
<1> QED
  BY <1>2 DEF JobsGiveWay, leaves

(***************************************************************************)
(* No cache ever serves content older than the stamps it is filed under,   *)
(* for any number of files, banks, sessions and jobs.                      *)
(***************************************************************************)
THEOREM NothingStale == Spec => []CachesFresh
<1>1. ServiceInv => CachesFresh
  <2> SUFFICES ASSUME ServiceInv PROVE CachesFresh
    OBVIOUS
  <2>1. \A i \in DOMAIN loadedCache : loadedCache[i] \in GoodResults
    BY ElementOfSeq, LenProperties DEF ServiceInv, CachesInv
  <2>2. \A i \in DOMAIN scanCache : scanCache[i] \in GoodScans
    BY ElementOfSeq, LenProperties DEF ServiceInv, CachesInv
  <2>3. \A e \in GoodScans : \A f \in Files : e.seen[f] >= e.key[f]
    <3>1. \A e \in GoodScans : \A f \in Files :
             e.seen[f] \in Nat /\ e.key[f] \in Nat /\ e.key[f] <= e.seen[f]
      BY StampFacts DEF GoodScans, GoodScan, ScanEntry, AtMost
    <3> QED
      BY <3>1
  <2> QED
    BY <2>1, <2>2, <2>3 DEF CachesFresh, GoodResults, GoodResult
<1> QED
  BY <1>1, ServiceInvariant, PTL

-----------------------------------------------------------------------------
(* The service implements LogQuery *)

\* A step that no session's call can see.
LEMMA Invisible ==
    ASSUME UNCHANGED <<version, answer>>,
           \A c \in Callers : bank'[c] = bank[c] /\ asked'[c] = asked[c]
                              /\ (c \in Asking' <=> c \in Asking)
    PROVE  UNCHANGED Query!queryVars
<1>1. Asking' = Asking
  BY DEF Asking
<1> QED
  BY <1>1 DEF Query!queryVars

\* A thread's step is invisible if it is a job's, or a session's that
\* neither starts nor ends a call.
LEMMA InvisibleStep ==
    ASSUME NEW p \in Procs, OnlyMoves(p), UNCHANGED <<version, answer>>,
           p \in Callers => bank'[p] = bank[p] /\ asked'[p] = asked[p]
                            /\ (p \in Asking' <=> p \in Asking)
    PROVE  UNCHANGED Query!queryVars
<1>1. \A c \in Callers : bank'[c] = bank[c] /\ asked'[c] = asked[c]
                         /\ (c \in Asking' <=> c \in Asking)
  BY DEF OnlyMoves, Asking, Procs
<1> QED
  BY <1>1, Invisible

\* A session's call ends, with these rows or with an exception.
LEMMA AnswerStep ==
    ASSUME ServiceInv, NEW c \in Callers, NEW rows \in Stamps,
           OnlyMoves(c), Forget(c), UNCHANGED version,
           c \in Asking, c \notin Asking',
           answer' = [answer EXCEPT ![c] = [bank |-> bank[c], rows |-> rows]],
           rows = Only(rows, SourcesOf(bank[c])), NoOlder(rows, asked[c]), AtMost(rows, version)
    PROVE  Query!Answer(c, rows)
<1>1. Asking' = Asking \ {c}
  BY DEF Asking, OnlyMoves, Procs
<1>2. [d \in Callers |-> asked'[d]] = [[d \in Callers |-> asked[d]] EXCEPT ![c] = Nothing]
  BY DEF OnlyMoves, Forget, Procs, ServiceInv, TypeOK
<1>3. [d \in Callers |-> bank'[d]] = [d \in Callers |-> bank[d]]
  BY DEF Forget
<1> QED
  BY <1>1, <1>2, <1>3
  DEF Query!Answer, Query!Answerable, Query!Only, Only, Query!SourcesOf, SourcesOf,
      Query!NoOlder, NoOlder, Query!Nothing, Nothing, AtMost

LEMMA FailStep ==
    ASSUME ServiceInv, NEW c \in Callers, OnlyMoves(c), Forget(c), UNCHANGED <<version, answer>>,
           c \in Asking, c \notin Asking'
    PROVE  Query!Fail(c)
<1>1. Asking' = Asking \ {c}
  BY DEF Asking, OnlyMoves, Procs
<1>2. [d \in Callers |-> asked'[d]] = [[d \in Callers |-> asked[d]] EXCEPT ![c] = Nothing]
  BY DEF OnlyMoves, Forget, Procs, ServiceInv, TypeOK
<1>3. [d \in Callers |-> bank'[d]] = [d \in Callers |-> bank[d]]
  BY DEF Forget
<1> QED
  BY <1>1, <1>2, <1>3 DEF Query!Fail, Query!Nothing, Nothing

\* Rows found in LOADED_CACHE under a signature that is at least as new as
\* the call answer the call.
LEMMA ReadyAnswers ==
    ASSUME ServiceInv, NEW c \in Callers, NEW s \in Stamps, AtMost(asked[c], s),
           NEW i \in ReadyHits(c, s)
    PROVE  /\ loadedCache[i].rows \in Stamps
           /\ loadedCache[i].rows = Only(loadedCache[i].rows, SourcesOf(bank[c]))
           /\ NoOlder(loadedCache[i].rows, asked[c])
           /\ AtMost(loadedCache[i].rows, version)
<1> DEFINE rows == loadedCache[i].rows
<1>1. loadedCache[i] \in GoodResults /\ loadedCache[i].bank = bank[c] /\ loadedCache[i].signature = s
  BY ElementOfSeq, LenProperties DEF ReadyHits, ServiceInv, CachesInv
<1>2. rows \in Stamps /\ rows = Only(rows, SourcesOf(bank[c])) /\ NoOlder(rows, s)
      /\ AtMost(rows, version)
  BY <1>1 DEF GoodResults, GoodResult, ReadyEntry
<1>3. NoOlder(rows, asked[c])
  <2> SUFFICES ASSUME NEW f \in Files
               PROVE  rows[f] >= asked[c][f] \/ (f \in LateFiles /\ rows[f] = 0)
    BY DEF NoOlder
  <2>1. rows[f] \in Nat /\ s[f] \in Nat /\ asked[c][f] \in Nat
    BY <1>2, StampFacts DEF ServiceInv, TypeOK, Procs
  <2>2. asked[c][f] <= s[f] /\ (rows[f] >= s[f] \/ (f \in LateFiles /\ rows[f] = 0))
    BY <1>2 DEF NoOlder, AtMost
  <2> HIDE DEF rows
  <2> QED
    BY <2>1, <2>2
<1> QED
  BY <1>2, <1>3

LEMMA AnswerIsNext ==
    ASSUME NEW c \in Callers, NEW rows \in Stamps, Query!Answer(c, rows)
    PROVE  Query!QueryNext
<1>1. Query!Stamps = Stamps
  BY DEF Query!Stamps, Stamps
<1>2. \E d \in Callers, r \in Query!Stamps : Query!Answer(d, r)
  BY <1>1
<1> QED
  BY <1>2 DEF Query!QueryNext

LEMMA FailIsNext ==
    ASSUME NEW c \in Callers, Query!Fail(c)
    PROVE  Query!QueryNext
BY DEF Query!QueryNext

LEMMA CallerSees ==
    ASSUME ServiceInv, NEW c \in Callers, CallerStep(c) \/ Export(c)
    PROVE  [Query!QueryNext]_(Query!queryVars)
<1>0. c \in Procs /\ pc[c] \in Phases /\ asked[c] \in Stamps /\ seen[c] \in Stamps
  BY DEF Procs, ServiceInv, TypeOK
<1>1. CASE LookupHit(c)
  <2>1. PICK i \in ReadyHits(c, signature[c]) : Return(c, loadedCache[i].rows)
    BY <1>1 DEF LookupHit
  <2>2. signature[c] = asked[c] /\ AtMost(asked[c], signature[c])
    <3>1. signature[c] = asked[c]
      BY <1>0, <1>1 DEF LookupHit, ServiceInv, CallInv, AskedInv
    <3>2. \A f \in Files : asked[c][f] \in Nat
      BY <1>0, StampFacts
    <3> QED
      BY <3>1, <3>2 DEF AtMost
  <2>3. OnlyMoves(c) /\ c \in Asking /\ c \notin Asking'
    BY <1>0, <1>1 DEF LookupHit, Goto, OnlyMoves, Forget, Asking, Loading, ServiceInv, TypeOK
  <2>4. /\ loadedCache[i].rows \in Stamps
        /\ loadedCache[i].rows = Only(loadedCache[i].rows, SourcesOf(bank[c]))
        /\ NoOlder(loadedCache[i].rows, asked[c])
        /\ AtMost(loadedCache[i].rows, version)
    BY <1>0, <2>1, <2>2, ReadyAnswers DEF ServiceInv, TypeOK
  <2>5. PICK rows \in Stamps : rows = loadedCache[i].rows
    BY <2>4
  <2>6. Forget(c) /\ UNCHANGED version
        /\ answer' = [answer EXCEPT ![c] = [bank |-> bank[c], rows |-> rows]]
    BY <1>1, <2>1, <2>5 DEF LookupHit, Return
  <2>7. Query!Answer(c, rows)
    BY <2>3, <2>4, <2>5, <2>6, AnswerStep
  <2> QED
    BY <2>7, AnswerIsNext
<1>2. CASE SignHit(c)
  <2> DEFINE s == Signature(version, bank[c])
  <2>1. PICK i \in ReadyHits(c, s) : Return(c, loadedCache[i].rows)
    BY <1>2 DEF SignHit
  <2>2. s \in Stamps /\ AtMost(asked[c], s)
    <3>1. s \in Stamps
      BY StampFacts DEF Signature, ServiceInv, TypeOK
    <3>2. asked[c] = Only(asked[c], SourcesOf(bank[c])) /\ AtMost(asked[c], version)
      BY <1>0 DEF ServiceInv, CallInv, AskedInv
    <3>3. \A f \in Files : asked[c][f] = IF f \in SourcesOf(bank[c]) THEN asked[c][f] ELSE 0
      BY <3>2 DEF Only
    <3> QED
      BY <3>1, <3>2, <3>3 DEF Signature, Only, AtMost
  <2>3. OnlyMoves(c) /\ c \in Asking /\ c \notin Asking'
    BY <1>0, <1>2 DEF SignHit, Goto, OnlyMoves, Forget, Asking, Loading, ServiceInv, TypeOK
  <2> HIDE DEF s
  <2>4. /\ loadedCache[i].rows \in Stamps
        /\ loadedCache[i].rows = Only(loadedCache[i].rows, SourcesOf(bank[c]))
        /\ NoOlder(loadedCache[i].rows, asked[c])
        /\ AtMost(loadedCache[i].rows, version)
    BY <1>0, <2>1, <2>2, ReadyAnswers DEF ServiceInv, TypeOK
  <2>5. PICK rows \in Stamps : rows = loadedCache[i].rows
    BY <2>4
  <2>6. Forget(c) /\ UNCHANGED version
        /\ answer' = [answer EXCEPT ![c] = [bank |-> bank[c], rows |-> rows]]
    BY <1>2, <2>1, <2>5 DEF SignHit, Return
  <2>7. Query!Answer(c, rows)
    BY <2>3, <2>4, <2>5, <2>6, AnswerStep
  <2> QED
    BY <2>7, AnswerIsNext
<1>3. CASE Publish(c)
  <2>1. OnlyMoves(c) /\ c \in Asking /\ c \notin Asking'
    BY <1>0, <1>3 DEF Publish, Goto, OnlyMoves, Forget, Asking, Loading, ServiceInv, TypeOK
  <2>2. PICK rows \in Stamps : rows = seen[c]
    BY <1>0
  <2>3. Forget(c) /\ UNCHANGED version
        /\ answer' = [answer EXCEPT ![c] = [bank |-> bank[c], rows |-> rows]]
    BY <1>3, <2>2 DEF Publish, Return
  <2>4. rows = Only(rows, SourcesOf(bank[c])) /\ NoOlder(rows, asked[c]) /\ AtMost(rows, version)
    BY <1>0, <1>3, <2>2, FinishedRows DEF Publish
  <2>5. Query!Answer(c, rows)
    BY <2>1, <2>3, <2>4, AnswerStep
  <2> QED
    BY <2>5, AnswerIsNext
<1>4. CASE LookupMiss(c) \/ ListFiles(c) \/ SignMiss(c) \/ KeyHit(c) \/ KeyMiss(c)
           \/ StoreScan(c) \/ BuildRows(c)
  <2>1. OnlyMoves(c)
    BY <1>4 DEF LookupMiss, ListFiles, SignMiss, KeyHit, KeyMiss, StoreScan, BuildRows, Goto,
                OnlyMoves, locals, ServiceInv, TypeOK
  <2>2. UNCHANGED <<version, answer>> /\ bank' = bank /\ asked' = asked
    BY <1>4 DEF LookupMiss, ListFiles, SignMiss, KeyHit, KeyMiss, StoreScan, BuildRows, locals
  <2>3. c \in Asking /\ c \in Asking'
    BY <1>0, <1>4 DEF LookupMiss, ListFiles, SignMiss, KeyHit, KeyMiss, StoreScan, BuildRows, Goto,
                Asking, Loading, ServiceInv, TypeOK
  <2> QED
    BY <1>0, <2>1, <2>2, <2>3, InvisibleStep
<1>5. CASE \E f \in Files : ReadAudit(c, f) \/ ReadTango(c, f)
  <2>1. OnlyMoves(c) /\ UNCHANGED <<version, answer, bank, asked, pc>>
    BY <1>5 DEF ReadAudit, ReadTango, ReadFile, OnlyMoves, ServiceInv, TypeOK
  <2> QED
    BY <1>0, <2>1, InvisibleStep DEF Asking
<1>6. CASE Release(c) \/ Enter(c) \/ Export(c) \/ Acquire(c) \/ Exit(c)
  <2>1. OnlyMoves(c)
    BY <1>6 DEF Release, Enter, Export, EnterForeground, Acquire, Exit, Goto,
                OnlyMoves, locals, ServiceInv, TypeOK
  <2>2. UNCHANGED <<version, answer>> /\ bank' = bank /\ asked' = asked
    BY <1>6 DEF Release, Enter, Export, EnterForeground, Acquire, Exit, locals
  <2>3. c \in Asking <=> c \in Asking'
    BY <1>0, <1>6 DEF Release, Enter, Export, EnterForeground, Acquire, Exit, Goto,
                Asking, Loading, ServiceInv, TypeOK
  <2> QED
    BY <1>0, <2>1, <2>2, <2>3, InvisibleStep
<1> QED
  BY <1>1, <1>2, <1>3, <1>4, <1>5, <1>6 DEF CallerStep, LoadStep

LEMMA WorkerUnseen ==
    ASSUME ServiceInv, NEW w \in Workers, Cancel(w) \/ WorkerStep(w)
    PROVE  UNCHANGED Query!queryVars
<1>0. w \in Procs /\ w \notin Callers
  BY ServiceAssumption DEF Procs
<1>1. OnlyMoves(w) /\ UNCHANGED <<version, answer>>
  <2>1. CASE Cancel(w) \/ NextBank(w) \/ Retry(w) \/ Gate(w) \/ TryLock(w) \/ Interrupt(w)
             \/ SignHitInterrupted(w)
    BY <2>1 DEF SignHitInterrupted, Cancel, NextBank, Retry, Begin, Gate, TryLock, Interrupt, Forget, Goto, locals,
                OnlyMoves, ServiceInv, TypeOK
  <2>2. CASE LookupHit(w) \/ SignHit(w) \/ Publish(w)
    BY <1>0, <2>2 DEF LookupHit, SignHit, Publish, Return, Forget, Goto, OnlyMoves, ServiceInv, TypeOK
  <2>3. CASE LookupMiss(w) \/ ListFiles(w) \/ SignMiss(w) \/ KeyHit(w) \/ KeyMiss(w)
             \/ StoreScan(w) \/ BuildRows(w) \/ Release(w)
    BY <2>3 DEF LookupMiss, ListFiles, SignMiss, KeyHit, KeyMiss, StoreScan, BuildRows, Release,
                Goto, OnlyMoves, locals, ServiceInv, TypeOK
  <2>4. CASE \E f \in Files : ReadAudit(w, f) \/ ReadTango(w, f)
    BY <2>4 DEF ReadAudit, ReadTango, ReadFile, OnlyMoves, ServiceInv, TypeOK
  <2> QED
    BY <2>1, <2>2, <2>3, <2>4 DEF WorkerStep, LoadStep
<1> QED
  BY <1>0, <1>1, InvisibleStep

(***************************************************************************)
(* Caches, priorities and interruptions are invisible to a session: every  *)
(* behaviour of the service is one of LogQuery, whose calls just read the  *)
(* files (load_logs, web_services.py 269-300).                             *)
(***************************************************************************)
THEOREM Implementation == Spec => ImplementsLogQuery
<1>1. Init => Query!QueryInit
  BY DEF Init, Query!QueryInit, Asking, Loading, Procs, Query!Nothing, Nothing,
         Query!SomeBank, SomeBank
<1>2. ServiceInv /\ [Next]_vars => [Query!QueryNext]_(Query!queryVars)
  <2> SUFFICES ASSUME ServiceInv, [Next]_vars PROVE [Query!QueryNext]_(Query!queryVars)
    OBVIOUS
  <2>1. ASSUME NEW f \in Files, ChangeFile(f) PROVE Query!ChangeFile(f)
    BY <2>1 DEF ChangeFile, Query!ChangeFile, Asking, locals
  <2>2. ASSUME NEW w \in Workers, Cancel(w) \/ WorkerStep(w) PROVE UNCHANGED Query!queryVars
    BY <2>2, WorkerUnseen
  <2>3. ASSUME NEW c \in Callers, CallerStep(c) \/ Export(c)
        PROVE  [Query!QueryNext]_(Query!queryVars)
    BY <2>3, CallerSees
  <2>4. ASSUME NEW c \in Callers, NEW b \in Banks, Ask(c, b) PROVE Query!Ask(c, b)
    <3>1. c \notin Asking /\ Asking' = Asking \union {c}
      BY <2>4 DEF Ask, Begin, Goto, Asking, Loading, ServiceInv, TypeOK, Procs
    <3>2. [d \in Callers |-> bank'[d]] = [[d \in Callers |-> bank[d]] EXCEPT ![c] = b]
      BY <2>4 DEF Ask, Begin, ServiceInv, TypeOK, Procs
    <3>3. [d \in Callers |-> asked'[d]]
          = [[d \in Callers |-> asked[d]] EXCEPT ![c] = Signature(version, b)]
      BY <2>4 DEF Ask, Begin, ServiceInv, TypeOK, Procs
    <3> QED
      BY <2>4, <3>1, <3>2, <3>3
      DEF Ask, Begin, Query!Ask, Query!Signature, Signature, Query!Only, Only,
          Query!SourcesOf, SourcesOf
  <2>5. ASSUME NEW p \in Procs, Raise(p) PROVE [Query!QueryNext]_(Query!queryVars)
    <3>1. OnlyMoves(p) /\ UNCHANGED <<version, answer>> /\ Forget(p) /\ bank' = bank
      BY <2>5 DEF Raise, Forget, Goto, OnlyMoves, ServiceInv, TypeOK
    <3>2. CASE p \in Callers
      <4>1. p \in Asking /\ p \notin Asking'
        BY <2>5, <3>2 DEF Raise, Goto, Asking, Loading, ServiceInv, TypeOK
      <4>2. Query!Fail(p)
        BY <3>1, <3>2, <4>1, FailStep
      <4> QED
        BY <3>2, <4>2, FailIsNext
    <3>3. CASE p \notin Callers
      BY <3>1, <3>3, InvisibleStep
    <3> QED
      BY <3>2, <3>3
  <2>6. CASE UNCHANGED vars
    BY <2>6, Invisible DEF vars, locals, Asking
  <2> QED
    BY <2>1, <2>2, <2>3, <2>4, <2>5, <2>6 DEF Next, Query!QueryNext
<1> QED
  BY <1>1, <1>2, ServiceInvariant, PTL DEF Spec, ImplementsLogQuery, Query!QuerySpec
=============================================================================
