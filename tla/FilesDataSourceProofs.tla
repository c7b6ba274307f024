----------------------- MODULE FilesDataSourceProofs -----------------------
(***************************************************************************)
(* Proofs about FilesDataSource: its types, and that what a new data       *)
(* source serves was validated, for any files, edits and generated         *)
(* references.                                                             *)
(***************************************************************************)
EXTENDS FilesDataSource, SequenceTheorems, TLAPS

Ops == {"validate", "list", "resolve", "compare"}
Tasks == [op : Ops, of : Collections, for : Collections \cup {None}]

Types ==
  /\ files = [c \in Collections |-> files[c]]
  /\ cache = [c \in Collections |-> cache[c]]
  /\ todo \in Seq(Tasks)
  /\ TypeOK

-----------------------------------------------------------------------------
(* What the constructor does, task by task.                                *)

\* The collections are the six resources.
LEMMA CollectionsAre ==
  Collections = {"agents", "domains", "gateways", "numbers", "peers", "users"}
<1>1. DOMAIN RESOURCES = 1 .. 6
  BY DEF RESOURCES
<1>2. /\ RESOURCES[1] = "agents" /\ RESOURCES[2] = "domains" /\ RESOURCES[3] = "gateways"
      /\ RESOURCES[4] = "numbers" /\ RESOURCES[5] = "peers" /\ RESOURCES[6] = "users"
  BY DEF RESOURCES
<1>3. Collections = {RESOURCES[i] : i \in 1 .. 6}
  BY <1>1 DEF Collections, ToSet
<1> QED BY <1>2, <1>3

\* Every collection is at one of six places of RESOURCES.
LEMMA ResourcesAre ==
  /\ DOMAIN RESOURCES = 1 .. 6
  /\ \A i \in 1 .. 6 : RESOURCES[i] \in Collections
  /\ \A c \in Collections : \E i \in 1 .. 6 : c = RESOURCES[i]
<1>1. DOMAIN RESOURCES = 1 .. 6
  BY DEF RESOURCES
<1> QED BY <1>1 DEF Collections, ToSet

\* The middle of the constructor.
Checks ==
  << Task("list", "numbers", None), Task("resolve", "gateways", "numbers"),
     Task("list", "domains", None), Task("resolve", "numbers", "domains"),
     Task("list", "agents", None),  Task("resolve", "domains", "agents") >>

\* The eighteen tasks of the constructor, one by one.
LEMMA ConstructionIs ==
  /\ Construction \in Seq(Tasks)
  /\ Len(Construction) = 18
  /\ \A k \in 1 .. 6 : Construction[k] = Task("validate", RESOURCES[k], None)
  /\ \A k \in 7 .. 12 : Construction[k] = Checks[k - 6]
  /\ \A k \in 13 .. 18 : Construction[k] = Task("compare", RESOURCES[k - 12], None)
<1> DEFINE V == [i \in 1 .. 6 |-> Task("validate", RESOURCES[i], None)]
           W == [i \in 1 .. 6 |-> Task("compare", RESOURCES[i], None)]
<1>1. Construction = V \o Checks \o W
  BY ResourcesAre DEF Construction, Checks
<1>2. V \in Seq(Tasks) /\ Len(V) = 6
  BY ResourcesAre DEF Task, Tasks, Ops
<1>3. W \in Seq(Tasks) /\ Len(W) = 6
  BY ResourcesAre DEF Task, Tasks, Ops
<1>4. Checks \in Seq(Tasks) /\ Len(Checks) = 6
  BY CollectionsAre DEF Checks, Task, Tasks, Ops
<1>5. /\ \A k \in 1 .. 6 : V[k] = Task("validate", RESOURCES[k], None)
      /\ \A k \in 1 .. 6 : W[k] = Task("compare", RESOURCES[k], None)
  OBVIOUS
<1> HIDE DEF V, W
<1> DEFINE U == V \o Checks
<1>6. /\ U \in Seq(Tasks) /\ Len(U) = 12
      /\ \A k \in 1 .. 12 : U[k] = IF k <= 6 THEN V[k] ELSE Checks[k - 6]
  <2>1. /\ U \in Seq(Tasks) /\ Len(U) = Len(V) + Len(Checks)
        /\ \A k \in 1 .. Len(V) + Len(Checks) : U[k] = IF k <= Len(V) THEN V[k] ELSE Checks[k - Len(V)]
    BY <1>2, <1>4, ConcatProperties, Zenon
  <2> HIDE DEF U
  <2> QED BY <1>2, <1>4, <2>1
<1> HIDE DEF U
<1> DEFINE C == U \o W
<1>7. /\ C \in Seq(Tasks) /\ Len(C) = 18
      /\ \A k \in 1 .. 18 : C[k] = IF k <= 12 THEN U[k] ELSE W[k - 12]
  <2>1. /\ C \in Seq(Tasks) /\ Len(C) = Len(U) + Len(W)
        /\ \A k \in 1 .. Len(U) + Len(W) : C[k] = IF k <= Len(U) THEN U[k] ELSE W[k - Len(U)]
    BY <1>3, <1>6, ConcatProperties, Zenon
  <2> HIDE DEF C
  <2> QED BY <1>3, <1>6, <2>1
<1>8. Construction = C
  BY <1>1 DEF U
<1> HIDE DEF C
<1>9. \A k \in 1 .. 6 : C[k] = Task("validate", RESOURCES[k], None)
  <2> TAKE k \in 1 .. 6
  <2>1. C[k] = U[k] /\ U[k] = V[k]
    BY <1>6, <1>7
  <2> QED BY <1>5, <2>1
<1>10. \A k \in 7 .. 12 : C[k] = Checks[k - 6]
  <2> TAKE k \in 7 .. 12
  <2>1. k \in 1 .. 12 /\ k \in 1 .. 18 /\ ~(k <= 6) /\ k <= 12
    OBVIOUS
  <2>2. C[k] = U[k] /\ U[k] = Checks[k - 6]
    BY <1>6, <1>7, <2>1
  <2> QED BY <2>2
<1>11. \A k \in 13 .. 18 : C[k] = Task("compare", RESOURCES[k - 12], None)
  <2> TAKE k \in 13 .. 18
  <2>1. k \in 1 .. 18 /\ ~(k <= 12) /\ k - 12 \in 1 .. 6
    OBVIOUS
  <2>2. C[k] = W[k - 12]
    BY <1>7, <2>1
  <2> QED BY <1>5, <2>1, <2>2
<1> QED BY <1>7, <1>8, <1>9, <1>10, <1>11

\* What is left of it from task k on.
Rest(k) == SubSeq(Construction, k, 18)

\* The next task, and what is left after it.
LEMMA RestIs ==
  ASSUME NEW k \in 1 .. 18
  PROVE  /\ Rest(k) # <<>> /\ Head(Rest(k)) = Construction[k]
         /\ Len(Rest(k)) = 19 - k
         /\ k < 18 => Tail(Rest(k)) = Rest(k + 1)
<1> DEFINE C == Construction
<1>1. C \in Seq(Tasks) /\ Len(C) = 18
  BY ConstructionIs
<1> HIDE DEF C
<1>2. Head(SubSeq(C, k, 18)) = C[k] /\ Tail(SubSeq(C, k, 18)) = SubSeq(C, k + 1, 18)
  BY <1>1, HeadTailOfSubSeq
<1>3. /\ Len(SubSeq(C, k, 18)) = 19 - k
      /\ SubSeq(C, k, 18) \in Seq(Tasks)
  <2>1. \A i \in 1 .. 18 : C[i] \in Tasks
    BY <1>1, ElementOfSeq
  <2> DEFINE m == k
             n == 18
  <2>2. m \in Int /\ n \in Int /\ m <= n /\ \A i \in m .. n : C[i] \in Tasks
    BY <2>1
  <2> HIDE DEF m, n
  <2>3. /\ SubSeq(C, m, n) \in Seq(Tasks)
        /\ Len(SubSeq(C, m, n)) = IF m <= n THEN n - m + 1 ELSE 0
    BY <2>2, SubSeqProperties
  <2> QED BY <2>2, <2>3 DEF m, n
<1>4. SubSeq(C, k, 18) # <<>>
  <2>1. Len(<<>>) = 0 /\ 19 - k # 0
    OBVIOUS
  <2>2. Len(SubSeq(C, k, 18)) # Len(<<>>)
    BY <1>3, <2>1
  <2> QED BY <2>2, Zenon
<1> QED BY <1>2, <1>3, <1>4 DEF C, Rest

-----------------------------------------------------------------------------
(* Types.                                                                  *)

\* What find returns is a sequence of entities.
LEMMA FoundType ==
  ASSUME Types, NEW c \in Collections
  PROVE  /\ IsContent(Content(c))
         /\ IsBook(Content(c)) => Content(c) # None
         /\ Found(c) \in Seq(Entity)
<1>1. IsContent(Content(c))
  BY DEF Types, TypeOK, Content
<1>2. <<>> \in Seq(Entity)
  OBVIOUS
<1> QED BY <1>1, <1>2 DEF Found, IsContent

\* find keeps what is in the cache, and what it adds is a book; a find that
\* meets no book is remembered.
LEMMA CacheStep ==
  ASSUME Types, NEW c \in Collections, Cache(c)
  PROVE  /\ cache' = [x \in Collections |-> cache'[x]]
         /\ \A x \in Collections : cache'[x] # None => IsBook(cache'[x]) /\ IsContent(cache'[x])
         /\ age' \in [Collections -> 0 .. TTL - 1]
         /\ torn' \in BOOLEAN /\ (torn => torn')
         /\ \A x \in Collections : cache[x] # None => cache'[x] = cache[x]
         /\ ~torn' => cache'[c] # None /\ Found(c) = cache'[c].entities
<1>1. IsContent(Content(c)) /\ (IsBook(Content(c)) => Content(c) # None)
  BY FoundType
<1>2. /\ cache'[c] = IF IsBook(Content(c)) THEN Content(c) ELSE None
      /\ \A x \in Collections \ {c} : cache'[x] = cache[x]
      /\ cache' = [x \in Collections |-> cache'[x]]
  BY DEF Cache, Types
<1>3. cache[c] # None => IsBook(cache[c]) /\ Content(c) = cache[c]
  BY DEF Types, TypeOK, Content
<1>4. 0 \in 0 .. TTL - 1
  BY BoundsAssumption
<1>5. age' \in [Collections -> 0 .. TTL - 1]
  BY <1>4 DEF Cache, Types, TypeOK
<1>6. \A x \in Collections : cache'[x] # None => IsBook(cache'[x]) /\ IsContent(cache'[x])
  BY <1>1, <1>2 DEF Types, TypeOK
<1>7. torn' = (torn \/ ~IsBook(Content(c))) /\ torn \in BOOLEAN
  BY DEF Cache, Types, TypeOK
<1>8. ~torn' => cache'[c] # None /\ Found(c) = cache'[c].entities
  BY <1>1, <1>2, <1>7 DEF Found
<1> QED BY <1>2, <1>3, <1>5, <1>6, <1>7, <1>8

\* The constructor ends, or goes on to its next task.
LEMMA BecomesStep ==
  ASSUME Types, todo # <<>>, NEW outcome \in {"on", "exited", "failed"}, Becomes(outcome)
  PROVE  /\ todo' \in Seq(Tasks)
         /\ phase' \in {"building", "ready", "exited", "failed"}
         /\ (phase' = "building") = (todo' # <<>>)
<1>1. todo \in Seq(Tasks) /\ <<>> \in Seq(Tasks)
  BY DEF Types
<1>2. /\ Tail(todo) \in Seq(Tasks) /\ Len(Tail(todo)) = Len(todo) - 1
      /\ Len(todo) \in Nat \ {0}
  BY <1>1, HeadTailProperties, EmptySeq
<1>3. (Len(todo) = 1) = (Tail(todo) = <<>>)
  <2>1. Len(<<>>) = 0
    OBVIOUS
  <2>2. Tail(todo) # <<>> => Len(Tail(todo)) # 0
    BY <1>2, EmptySeq
  <2>3. Len(todo) = 1 <=> Len(Tail(todo)) = 0
    BY <1>2
  <2> QED BY <2>1, <2>2, <2>3, Zenon
<1>4. CASE outcome = "on"
  BY <1>1, <1>2, <1>3, <1>4 DEF Becomes
<1>5. CASE outcome # "on"
  BY <1>1, <1>5 DEF Becomes
<1> QED BY <1>4, <1>5

\* The types hold at first.
LEMMA TypesInit == Init => Types
<1> SUFFICES ASSUME Init PROVE Types
  OBVIOUS
<1>1. 0 \in 0 .. TTL - 1 /\ <<>> \in Seq(Entity)
  BY BoundsAssumption
<1>2. Construction \in Seq(Tasks) /\ Construction # <<>>
  <2>1. Len(Construction) # Len(<<>>)
    BY ConstructionIs
  <2> QED BY <2>1, ConstructionIs, Zenon
<1>3. /\ files = [c \in Collections |-> files[c]]
      /\ \A c \in Collections : IsContent(files[c])
  BY OriginalAssumption DEF Init
<1>4. cache = [c \in Collections |-> cache[c]] /\ \A c \in Collections : cache[c] = None
  BY DEF Init
<1>5. age \in [Collections -> 0 .. TTL - 1]
  BY <1>1 DEF Init
<1>6. todo \in Seq(Tasks) /\ phase = "building" /\ todo # <<>>
  BY <1>2 DEF Init
<1>7. listed \in Seq(Entity) /\ torn \in BOOLEAN /\ aged \in BOOLEAN
  BY <1>1 DEF Init
<1> QED BY <1>3, <1>4, <1>5, <1>6, <1>7 DEF Types, TypeOK

\* Each task of the constructor keeps the types.
LEMMA TypesConstruct == Types /\ Construct => Types'
<1> SUFFICES ASSUME Types, Construct PROVE Types'
  OBVIOUS
<1> DEFINE task == Head(todo)
<1>1. todo # <<>> /\ todo \in Seq(Tasks)
  BY DEF Construct, Types, TypeOK
<1>2. task \in Tasks
  BY <1>1, HeadTailProperties
<1>3. task.of \in Collections
  BY <1>2 DEF Tasks
<1> HIDE DEF task
<1>4. UNCHANGED <<files, edits, aged>>
  BY DEF Construct
<1>5. ASSUME todo' \in Seq(Tasks), (phase' = "building") = (todo' # <<>>),
             phase' \in {"building", "ready", "exited", "failed"},
             listed' \in Seq(Entity),
             UNCHANGED <<cache, age, torn>> \/ \E c \in Collections : Cache(c)
      PROVE  Types'
  <2>1. /\ cache' = [x \in Collections |-> cache'[x]]
        /\ \A x \in Collections : cache'[x] # None => IsBook(cache'[x]) /\ IsContent(cache'[x])
        /\ age' \in [Collections -> 0 .. TTL - 1]
        /\ torn' \in BOOLEAN
    <3>1. CASE UNCHANGED <<cache, age, torn>>
      BY <3>1 DEF Types, TypeOK
    <3>2. CASE \E c \in Collections : Cache(c)
      <4>1. PICK c \in Collections : Cache(c)
        BY <3>2
      <4> QED BY <4>1, CacheStep
    <3> QED BY <1>5, <3>1, <3>2
  <2>2. aged' \in BOOLEAN /\ files' = files
    BY <1>4 DEF Types, TypeOK
  <2> QED BY <1>5, <2>1, <2>2 DEF Types, TypeOK
<1>6. <<>> \in Seq(Entity) /\ listed \in Seq(Entity)
  BY DEF Types, TypeOK
<1>7. CASE Validate(task.of)
  <2>1. PICK outcome \in {"on", "exited", "failed"} : Becomes(outcome)
    BY <1>7 DEF Validate
  <2> QED BY <1>1, <1>5, <1>6, <1>7, <2>1, BecomesStep DEF Validate
<1>8. CASE List(task.of)
  <2>1. Becomes("on") /\ Cache(task.of) /\ listed' = Found(task.of)
    BY <1>8 DEF List
  <2> QED BY <1>1, <1>3, <1>5, <2>1, BecomesStep, FoundType
<1>9. CASE Resolve(task.of)
  <2>1. PICK outcome \in {"on", "exited", "failed"} : Becomes(outcome)
    BY <1>9 DEF Resolve
  <2>2. listed' = <<>> /\ (Cache(task.of) \/ UNCHANGED <<cache, age, torn>>)
    BY <1>9 DEF Resolve
  <2> QED BY <1>1, <1>3, <1>5, <1>6, <2>1, <2>2, BecomesStep
<1>10. CASE Compare(task.of)
  <2>1. PICK outcome \in {"on", "exited", "failed"} : Becomes(outcome)
    BY <1>10 DEF Compare
  <2> QED BY <1>1, <1>3, <1>5, <1>6, <1>10, <2>1, BecomesStep DEF Compare
<1> QED BY <1>7, <1>8, <1>9, <1>10 DEF Construct, task

\* Every step keeps the types.
LEMMA TypesStep == Types /\ [Next]_vars => Types'
<1> SUFFICES ASSUME Types, [Next]_vars PROVE Types'
  OBVIOUS
<1>1. CASE Construct
  BY <1>1, TypesConstruct
<1>2. ASSUME NEW c \in Collections, Find(c) PROVE Types'
  BY <1>2, CacheStep DEF Find, Types, TypeOK
<1>3. ASSUME NEW c \in Collections, Save(c) PROVE Types'
  <2>1. PICK d \in Drafts[c] : files' = [files EXCEPT ![c] = d]
    BY <1>3 DEF Save
  <2>2. IsContent(d)
    BY DraftsAssumption
  <2>3. files' = [x \in Collections |-> files'[x]] /\ \A x \in Collections : IsContent(files'[x])
    BY <2>1, <2>2 DEF Types, TypeOK
  <2> QED BY <1>3, <2>3 DEF Save, Types, TypeOK
<1>4. CASE Tick
  <2> DEFINE old == {c \in Collections : cache[c] # None /\ age[c] + 1 >= TTL}
  <2>1. cache' = [c \in Collections |-> IF c \in old THEN None ELSE cache[c]]
    BY <1>4 DEF Tick
  <2>2. age' = [c \in Collections |-> IF cache[c] = None \/ c \in old THEN 0 ELSE age[c] + 1]
    BY <1>4 DEF Tick
  <2>3. \A c \in Collections : age[c] \in 0 .. TTL - 1
    BY DEF Types, TypeOK
  <2>4. \A c \in Collections :
          (IF cache[c] = None \/ c \in old THEN 0 ELSE age[c] + 1) \in 0 .. TTL - 1
    BY <2>3, BoundsAssumption
  <2>5. age' \in [Collections -> 0 .. TTL - 1]
    BY <2>2, <2>4
  <2>6. aged' \in BOOLEAN /\ UNCHANGED <<files, phase, todo, listed, torn>>
    BY <1>4 DEF Tick, Types, TypeOK
  <2> HIDE DEF old
  <2>7. /\ cache' = [x \in Collections |-> cache'[x]]
        /\ \A x \in Collections : cache'[x] # None => cache'[x] = cache[x]
    BY <2>1
  <2> QED BY <2>5, <2>6, <2>7 DEF Types, TypeOK
<1>5. CASE UNCHANGED vars
  BY <1>5 DEF vars, Types, TypeOK
<1> QED BY <1>1, <1>2, <1>3, <1>4, <1>5 DEF Next

\* The types hold in every run.
LEMMA TypesAlways == Spec => []Types
BY TypesInit, TypesStep, PTL DEF Spec

(***************************************************************************)
(* The variables stay in their types: what is cached is a book, no entry   *)
(* is older than its time, and the constructor has tasks while it builds.  *)
(***************************************************************************)
THEOREM TypeCorrect == Spec => []TypeOK
<1>1. Types => TypeOK
  BY DEF Types
<1> QED BY <1>1, TypesAlways, PTL

-----------------------------------------------------------------------------
(* Consistency.  What find has cached, it keeps; so what the constructor   *)
(* has found out about cached files stays true, whatever is saved.         *)

Cached(c) == cache[c] # None

Needy(entities) == \E i \in DOMAIN entities : entities[i].needs # {}

\* What the entities of c need is in d, which is cached if it was asked.
Linked(c, d) ==
  /\ Cached(c)
  /\ Resolves(Found(c), d, Found(d))
  /\ Needy(Found(c)) => Cached(d)

Distinct(c) == Cached(c) /\ NoDuplicates(Found(c))

Listing(c) == Cached(c) /\ listed = Found(c)

\* What is known before task k.
Kept(k) ==
  /\ k = 8 => Listing("numbers")
  /\ k >= 9 => Linked("numbers", "gateways")
  /\ k = 10 => Listing("domains")
  /\ k >= 11 => Linked("domains", "numbers")
  /\ k = 12 => Listing("agents")
  /\ k >= 13 => Linked("agents", "domains")
  /\ \A j \in 1 .. 6 : j <= k - 13 => Distinct(RESOURCES[j])

Checked ==
  /\ phase = "building" => \E k \in 1 .. 18 : todo = Rest(k) /\ (~torn => Kept(k))
  /\ phase = "ready" /\ ~torn /\ ~aged => Kept(19)

Grows == \A x \in Collections : cache[x] # None => cache'[x] = cache[x]

\* A cached file is found as it is cached, before and after.
LEMMA FoundStays ==
  ASSUME Types, Grows, NEW c \in Collections, Cached(c)
  PROVE  Cached(c)' /\ Found(c)' = Found(c)
<1>1. cache'[c] = cache[c] /\ cache[c] # None
  BY DEF Grows, Cached
<1>2. Content(c) = cache[c] /\ Content(c)' = cache[c]
  BY <1>1 DEF Content
<1> QED BY <1>1, <1>2 DEF Found, Cached

\* A check that held goes on holding: entities that need nothing resolve in
\* anything, and those that need something were compared with a cached file.
LEMMA LinkedStays ==
  ASSUME Types, Grows, NEW c \in Collections, NEW d \in Collections, Linked(c, d)
  PROVE  Linked(c, d)'
<1>1. Cached(c)' /\ Found(c)' = Found(c)
  BY FoundStays DEF Linked
<1>2. CASE Cached(d)
  <2>1. Cached(d)' /\ Found(d)' = Found(d)
    BY <1>2, FoundStays
  <2> QED BY <1>1, <2>1 DEF Linked, Resolves, Offered, RefOf, Needy
<1>3. CASE ~Needy(Found(c))
  BY <1>1, <1>3 DEF Linked, Resolves, Needy
<1> QED BY <1>2, <1>3 DEF Linked

\* What is known of a file's duplicates stays true.
LEMMA DistinctStays ==
  ASSUME Types, Grows, NEW c \in Collections, Distinct(c)
  PROVE  Distinct(c)'
<1>1. Cached(c)' /\ Found(c)' = Found(c)
  BY FoundStays DEF Distinct
<1> QED BY <1>1 DEF Distinct, NoDuplicates, RefOf

\* All that is known before a task is still known after a step that keeps the
\* cached files and the list.
LEMMA KeptStays ==
  ASSUME Types, Grows, UNCHANGED listed, NEW k \in Nat, Kept(k)
  PROVE  Kept(k)'
<1>1. \A c \in {"numbers", "domains", "agents"} : Listing(c) => Listing(c)'
  BY CollectionsAre, FoundStays DEF Listing
<1>2. \A c, d \in Collections : Linked(c, d) => Linked(c, d)'
  BY LinkedStays
<1>3. \A j \in 1 .. 6 : Distinct(RESOURCES[j]) => Distinct(RESOURCES[j])'
  BY ResourcesAre, DistinctStays
<1> QED BY <1>1, <1>2, <1>3, CollectionsAre DEF Kept

\* When a task is done and what it adds is known, the next one may begin, or
\* the data source is ready.
LEMMA Advance ==
  ASSUME NEW k \in 1 .. 18, todo = Rest(k), Becomes("on"), ~torn' => Kept(k + 1)'
  PROVE  Checked'
<1>1. /\ Len(todo) = 19 - k
      /\ k < 18 => Tail(todo) = Rest(k + 1)
  BY RestIs
<1>2. CASE k < 18
  <2>1. phase' = "building" /\ todo' = Rest(k + 1)
    BY <1>1, <1>2 DEF Becomes
  <2>2. k + 1 \in 1 .. 18 /\ Rest(k + 1)' = Rest(k + 1)
    BY <1>2 DEF Rest, Construction, Task
  <2> QED BY <2>1, <2>2 DEF Checked
<1>3. CASE k = 18
  <2>1. phase' = "ready"
    BY <1>1, <1>3 DEF Becomes
  <2> QED BY <1>3, <2>1 DEF Checked
<1> QED BY <1>2, <1>3

\* A task that ends the constructor leaves nothing to show.
LEMMA Stopped ==
  ASSUME NEW outcome \in {"exited", "failed"}, Becomes(outcome)
  PROVE  Checked'
BY DEF Becomes, Checked

\* A find that met a book has it in the cache.
LEMMA FoundIsCached ==
  ASSUME Types, NEW c \in Collections, Cache(c), ~torn'
  PROVE  Grows /\ ~torn /\ Cached(c)' /\ Found(c)' = Found(c)
<1>1. /\ Grows /\ ~torn
      /\ \A x \in Collections : cache'[x] # None => IsBook(cache'[x])
      /\ cache'[c] # None /\ Found(c) = cache'[c].entities
  BY CacheStep DEF Grows
<1>2. Content(c)' = cache'[c] /\ IsBook(cache'[c])
  BY <1>1 DEF Content
<1> QED BY <1>1, <1>2 DEF Cached, Found, IsBook

\* A list lists what is then cached.
LEMMA ListLists ==
  ASSUME Types, NEW c \in Collections, List(c), ~torn'
  PROVE  Grows /\ ~torn /\ Listing(c)'
BY FoundIsCached DEF List, Listing

\* A check of references says of the cached files what it found.
LEMMA ResolveLinks ==
  ASSUME Types, NEW c \in Collections, NEW d \in Collections, Resolve(d), ~torn',
         ~torn => Listing(c), Resolves(listed, d, Found(d))
  PROVE  Grows /\ ~torn /\ Linked(c, d)'
<1>1. CASE Needy(listed)
  <2>1. Cache(d)
    BY <1>1 DEF Resolve, Needy
  <2>2. Grows /\ ~torn /\ Cached(d)' /\ Found(d)' = Found(d)
    BY <2>1, FoundIsCached
  <2>3. Cached(c)' /\ Found(c)' = listed
    BY <2>2, FoundStays DEF Listing
  <2> QED BY <2>2, <2>3 DEF Linked, Resolves, Offered, RefOf
<1>2. CASE ~Needy(listed)
  <2>1. UNCHANGED <<cache, age, torn>>
    BY <1>2 DEF Resolve, Needy
  <2>2. Grows /\ ~torn
    BY <2>1 DEF Grows
  <2>3. Cached(c)' /\ Found(c)' = listed
    BY <2>2, FoundStays DEF Listing
  <2> QED BY <1>2, <2>2, <2>3 DEF Linked, Resolves, Needy
<1> QED BY <1>1, <1>2

\* A search for duplicates says of the cached file what it found.
LEMMA CompareCompares ==
  ASSUME Types, NEW c \in Collections, Compare(c), ~torn', NoDuplicates(Found(c))
  PROVE  Grows /\ ~torn /\ Distinct(c)'
BY FoundIsCached DEF Compare, Distinct, NoDuplicates, RefOf

\* Each task of the constructor adds what it has checked to what is known.
LEMMA CheckedConstruct == Types /\ Checked /\ Construct => Checked'
<1> SUFFICES ASSUME Types, Checked, Construct PROVE Checked'
  OBVIOUS
<1>1. PICK k \in 1 .. 18 : todo = Rest(k) /\ (~torn => Kept(k))
  BY DEF Checked, Construct
<1> DEFINE task == Head(todo)
<1>2. task = Construction[k]
  BY <1>1, RestIs
<1>3. \/ task.op = "validate" /\ Validate(task.of)
      \/ task.op = "list" /\ List(task.of)
      \/ task.op = "resolve" /\ Resolve(task.of)
      \/ task.op = "compare" /\ Compare(task.of)
  BY DEF Construct
<1> HIDE DEF task
<1>4. ASSUME NEW c \in Collections, List(c), ~torn' /\ Listing(c)' => Kept(k + 1)'
      PROVE  Checked'
  BY <1>1, <1>4, ListLists, Advance DEF List
<1>5. ASSUME NEW c \in Collections, NEW d \in Collections, Resolve(d), ~torn => Listing(c),
             ~torn' /\ Grows /\ ~torn /\ Linked(c, d)' => Kept(k + 1)'
      PROVE  Checked'
  <2>1. CASE Resolves(listed, d, Found(d))
    <3>1. Becomes("on")
      BY <1>5, <2>1 DEF Resolve
    <3> QED BY <1>1, <1>5, <2>1, <3>1, ResolveLinks, Advance
  <2>2. CASE ~Resolves(listed, d, Found(d))
    <3>1. Becomes("exited")
      BY <1>5, <2>2 DEF Resolve
    <3> QED BY <3>1, Stopped
  <2> QED BY <2>1, <2>2
<1>6. CASE k \in 1 .. 6
  <2>1. Validate(task.of)
    BY <1>2, <1>3, <1>6, ConstructionIs DEF Task
  <2>2. CASE Becomes("on")
    <3>1. Kept(k + 1)'
      BY <1>6 DEF Kept
    <3> QED BY <1>1, <2>2, <3>1, Advance
  <2>3. CASE ~Becomes("on")
    BY <2>1, <2>3, Stopped DEF Validate
  <2> QED BY <2>2, <2>3
<1>7. CASE k = 7
  <2>1. List("numbers")
    BY <1>2, <1>3, <1>7, ConstructionIs DEF Task, Checks
  <2>2. Listing("numbers")' => Kept(k + 1)'
    BY <1>7 DEF Kept
  <2> QED BY <1>4, <2>1, <2>2, CollectionsAre
<1>8. CASE k = 8
  <2>1. Resolve("gateways")
    BY <1>2, <1>3, <1>8, ConstructionIs DEF Task, Checks
  <2>2. ~torn => Listing("numbers")
    BY <1>1, <1>8 DEF Kept
  <2>3. Linked("numbers", "gateways")' => Kept(k + 1)'
    BY <1>8 DEF Kept
  <2> QED BY <1>5, <2>1, <2>2, <2>3, CollectionsAre
<1>9. CASE k = 9
  <2>1. List("domains")
    BY <1>2, <1>3, <1>9, ConstructionIs DEF Task, Checks
  <2>2. ASSUME ~torn', Listing("domains")' PROVE Kept(k + 1)'
    <3>1. Grows /\ ~torn
      BY <2>1, <2>2, ListLists, CollectionsAre
    <3>2. Linked("numbers", "gateways")'
      BY <1>1, <1>9, <3>1, LinkedStays, CollectionsAre DEF Kept
    <3> QED BY <1>9, <2>2, <3>2 DEF Kept
  <2> QED BY <1>4, <2>1, <2>2, CollectionsAre
<1>10. CASE k = 10
  <2>1. Resolve("numbers")
    BY <1>2, <1>3, <1>10, ConstructionIs DEF Task, Checks
  <2>2. ~torn => Listing("domains")
    BY <1>1, <1>10 DEF Kept
  <2>3. ASSUME Grows, ~torn, Linked("domains", "numbers")' PROVE Kept(k + 1)'
    <3>1. Linked("numbers", "gateways")'
      BY <1>1, <1>10, <2>3, LinkedStays, CollectionsAre DEF Kept
    <3> QED BY <1>10, <2>3, <3>1 DEF Kept
  <2> QED BY <1>5, <2>1, <2>2, <2>3, CollectionsAre
<1>11. CASE k = 11
  <2>1. List("agents")
    BY <1>2, <1>3, <1>11, ConstructionIs DEF Task, Checks
  <2>2. ASSUME ~torn', Listing("agents")' PROVE Kept(k + 1)'
    <3>1. Grows /\ ~torn
      BY <2>1, <2>2, ListLists, CollectionsAre
    <3>2. Linked("numbers", "gateways")' /\ Linked("domains", "numbers")'
      BY <1>1, <1>11, <3>1, LinkedStays, CollectionsAre DEF Kept
    <3> QED BY <1>11, <2>2, <3>2 DEF Kept
  <2> QED BY <1>4, <2>1, <2>2, CollectionsAre
<1>12. CASE k = 12
  <2>1. Resolve("domains")
    BY <1>2, <1>3, <1>12, ConstructionIs DEF Task, Checks
  <2>2. ~torn => Listing("agents")
    BY <1>1, <1>12 DEF Kept
  <2>3. ASSUME Grows, ~torn, Linked("agents", "domains")' PROVE Kept(k + 1)'
    <3>1. Linked("numbers", "gateways")' /\ Linked("domains", "numbers")'
      BY <1>1, <1>12, <2>3, LinkedStays, CollectionsAre DEF Kept
    <3> QED BY <1>12, <2>3, <3>1 DEF Kept
  <2> QED BY <1>5, <2>1, <2>2, <2>3, CollectionsAre
<1>13. CASE k \in 13 .. 18
  <2> DEFINE c == RESOURCES[k - 12]
  <2>1. Compare(c) /\ c \in Collections
    BY <1>2, <1>3, <1>13, ConstructionIs, ResourcesAre DEF Task
  <2>2. ASSUME NoDuplicates(Found(c)), ~torn' PROVE Kept(k + 1)'
    <3>1. Grows /\ ~torn /\ Distinct(c)'
      BY <2>1, <2>2, CompareCompares
    <3>2. Kept(k)'
      BY <1>1, <2>1, <3>1, KeptStays DEF Compare
    <3>3. \A j \in 1 .. 6 : j <= (k + 1) - 13 => j <= k - 13 \/ j = k - 12
      BY <1>13
    <3>4. \A j \in 1 .. 6 : j <= (k + 1) - 13 => Distinct(RESOURCES[j])'
      BY <1>13, <3>1, <3>2, <3>3 DEF Kept
    <3> QED BY <1>13, <3>2, <3>4 DEF Kept
  <2>3. CASE NoDuplicates(Found(c))
    BY <1>1, <2>1, <2>2, <2>3, Advance DEF Compare
  <2>4. CASE ~NoDuplicates(Found(c))
    BY <2>1, <2>4, Stopped DEF Compare
  <2> QED BY <2>3, <2>4
<1> QED BY <1>6, <1>7, <1>8, <1>9, <1>10, <1>11, <1>12, <1>13

\* Nor does anything else take away what is known, but the cache's hour.
LEMMA CheckedStep == Types /\ Checked /\ [Next]_vars => Checked'
<1> SUFFICES ASSUME Types, Checked, [Next]_vars PROVE Checked'
  OBVIOUS
<1>1. ASSUME Grows, UNCHANGED <<phase, todo, listed>>, torn => torn', aged => aged'
      PROVE  Checked'
  <2>1. \A k \in 1 .. 19 : Kept(k) => Kept(k)'
    BY <1>1, KeptStays
  <2>2. \A k \in 1 .. 18 : Rest(k)' = Rest(k)
    BY DEF Rest, Construction, Task
  <2> QED BY <1>1, <2>1, <2>2 DEF Checked
<1>2. CASE Construct
  BY <1>2, CheckedConstruct
<1>3. ASSUME NEW c \in Collections, Find(c) PROVE Checked'
  BY <1>1, <1>3, CacheStep DEF Find, Grows
<1>4. ASSUME NEW c \in Collections, Save(c) PROVE Checked'
  BY <1>1, <1>4 DEF Save, Grows
<1>5. CASE Tick
  <2> DEFINE old == {c \in Collections : cache[c] # None /\ age[c] + 1 >= TTL}
  <2>1. /\ cache' = [c \in Collections |-> IF c \in old THEN None ELSE cache[c]]
        /\ aged' = (aged \/ old # {})
        /\ phase = "ready" /\ UNCHANGED <<phase, todo, listed, torn>>
    BY <1>5 DEF Tick
  <2> HIDE DEF old
  <2>2. CASE old = {}
    BY <1>1, <2>1, <2>2 DEF Grows, Types, TypeOK
  <2>3. CASE old # {}
    BY <2>1, <2>3 DEF Checked
  <2> QED BY <2>2, <2>3
<1>6. CASE UNCHANGED vars
  BY <1>1, <1>6 DEF vars, Grows
<1> QED BY <1>2, <1>3, <1>4, <1>5, <1>6 DEF Next

\* Nothing has been checked at first, and nothing need have been.
LEMMA CheckedInit == Init => Checked
<1>1. Construction = Rest(1)
  <2> DEFINE C == Construction
  <2>1. C \in Seq(Tasks) /\ Len(C) = 18
    BY ConstructionIs
  <2> HIDE DEF C
  <2>2. SubSeq(C, 1, Len(C)) = C
    BY <2>1, SubSeqFull
  <2> QED BY <2>1, <2>2 DEF Rest, C
<1>2. Kept(1)
  BY DEF Kept
<1> QED BY <1>1, <1>2 DEF Init, Checked

(***************************************************************************)
(* However the files are edited while the constructor reads each of them   *)
(* several times, what a new data source serves is what it has checked.    *)
(***************************************************************************)
THEOREM ServesWhatItChecked == Spec => []ReadyIsConsistent
<1>1. Checked => ReadyIsConsistent
  <2> SUFFICES ASSUME Checked, phase = "ready", ~torn, ~aged
               PROVE  /\ \A c \in Collections : cache[c] # None /\ NoDuplicates(Found(c))
                      /\ Resolves(Found("numbers"), "gateways", Found("gateways"))
                      /\ Resolves(Found("domains"), "numbers", Found("numbers"))
                      /\ Resolves(Found("agents"), "domains", Found("domains"))
    BY DEF ReadyIsConsistent
  <2>1. Kept(19)
    BY DEF Checked
  <2>2. \A j \in 1 .. 6 : Distinct(RESOURCES[j])
    BY <2>1 DEF Kept
  <2>3. \A c \in Collections : Distinct(c)
    BY <2>2, ResourcesAre
  <2> QED BY <2>1, <2>3 DEF Kept, Linked, Distinct, Cached
<1> QED BY <1>1, TypesAlways, CheckedInit, CheckedStep, PTL DEF Spec

=============================================================================
