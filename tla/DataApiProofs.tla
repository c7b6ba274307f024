--------------------------- MODULE DataApiProofs ----------------------------
(***************************************************************************)
(* Proofs about DataApi, for any number of REST contexts, entities and     *)
(* requests: its types, and that the collections list what is stored.      *)
(***************************************************************************)
EXTENDS DataApi, TLAPS

Searched == {"gateways", "numbers", "domains"}

\* Where a call is tells what it is and what it carries.
Staged(h) ==
  /\ h.pc \in Replies => h.ref = None
  /\ h.pc \notin Replies => h.ref \in Refs /\ h.kind \in Kinds
  /\ h.pc \in {"dependency", "searchDomains", "searchDuplicates", "set", "sadd"} => h.verb = "POST"
  /\ h.pc = "write" => h.verb = "PUT"
  /\ h.pc = "read" => h.verb \in {"PUT", "DELETE"}
  /\ h.pc \in {"invalidate", "searchDependents", "del", "srem"} => h.verb = "DELETE"
  /\ h.pc \notin Replies /\ h.verb \in {"POST", "PUT"} => h.body \in Entity /\ h.body.kind = h.kind
  /\ h.pc \in {"invalidate", "searchDependents"} => h.kind \in Searched
  /\ h.pc = "read" /\ h.verb = "DELETE" => h.kind # "peers"

Types == TypeOK /\ \A x \in Contexts : Staged(handler[x])

-----------------------------------------------------------------------------
(* Types.                                                                  *)

\* A call that goes on from where it is.
LEMMA AtType ==
  ASSUME NEW h \in Handler, Staged(h), h.pc \notin Replies,
         NEW pc \in Finds \cup Commands, Staged([h EXCEPT !.pc = pc])
  PROVE  At(h, pc) \in Handler /\ Staged(At(h, pc))
BY DEF At, Call, Handler, Staged

\* A call that is replied to.
LEMMA ReplyType ==
  ASSUME NEW h \in Handler, NEW pc \in Replies
  PROVE  Reply(h, pc) \in Handler /\ Staged(Reply(h, pc))
BY DEF Reply, Call, Handler, Staged, Replies

\* The cache keeps its type.
LEMMA RememberType ==
  ASSUME cache \in [Contexts -> [Kinds -> [Keys -> Memory]]], NEW x \in Contexts,
         NEW kind \in Kinds, NEW key \in Keys, NEW memory \in Memory, Remember(x, kind, key, memory)
  PROVE  cache' \in [Contexts -> [Kinds -> [Keys -> Memory]]]
<1>1. CASE kind = "agents"
  BY <1>1 DEF Remember
<1>2. CASE kind # "agents"
  <2>1. cache' = [cache EXCEPT ![x][kind][key] = memory]
    BY <1>2 DEF Remember
  <2>2. cache[x] \in [Kinds -> [Keys -> Memory]] /\ cache[x][kind] \in [Keys -> Memory]
    OBVIOUS
  <2>3. [cache[x][kind] EXCEPT ![key] = memory] \in [Keys -> Memory]
    BY <2>2
  <2>4. [cache[x] EXCEPT ![kind] = [cache[x][kind] EXCEPT ![key] = memory]] \in [Kinds -> [Keys -> Memory]]
    BY <2>2, <2>3
  <2> QED BY <2>1, <2>4
<1> QED BY <1>1, <1>2

\* What a step of one context has to show.
LEMMA StepType ==
  ASSUME Types, NEW x \in Contexts, NEW h \in Handler, Staged(h), Become(x, h),
         strings' \in [Refs -> Entity \cup {None}],
         sets' \in [Kinds -> SUBSET Refs],
         cache' \in [Contexts -> [Kinds -> [Keys -> Memory]]],
         mishaps' \in 0 .. MaxMishaps
  PROVE  Types'
<1>1. handler' \in [Contexts -> Handler] /\ \A y \in Contexts : Staged(handler'[y])
  BY DEF Types, TypeOK, Become
<1>2. \A y \in Contexts : handler'[y].pc \notin Replies => handler'[y].kind # None
  BY <1>1, NoneAssumption DEF Staged
<1> QED BY <1>1, <1>2 DEF Types, TypeOK, Closed

\* An open call carries what its stage needs.
LEMMA OpenCall ==
  ASSUME Types, NEW x \in Contexts
  PROVE  /\ handler[x] \in Handler /\ Staged(handler[x])
         /\ cache \in [Contexts -> [Kinds -> [Keys -> Memory]]]
         /\ strings \in [Refs -> Entity \cup {None}]
         /\ sets \in [Kinds -> SUBSET Refs]
         /\ mishaps \in 0 .. MaxMishaps
BY DEF Types, TypeOK

\* Whether its key is taken is asked of the cache, or searched.
LEMMA CheckDuplicatesType ==
  ASSUME Types, NEW x \in Contexts, NEW h \in Handler, Staged(h),
         h.pc \in Finds \cup Commands, h.verb = "POST"
  PROVE  /\ CheckDuplicates(x, h) \in Handler /\ Staged(CheckDuplicates(x, h))
         /\ CheckDuplicates(x, h) \in
              {Reply(h, "exists"), At(h, "set"), At(h, "searchDuplicates")}
<1>1. h.pc \notin Replies
  BY DEF Finds, Commands, Replies
<1>2. h.kind \in Kinds /\ h.body \in Entity /\ h.body.key \in Keys
  BY <1>1 DEF Staged, Entity
<1>3. cache[x][h.kind][h.body.key] \in Memory
  BY <1>2 DEF Types, TypeOK
<1>4. CheckDuplicates(x, h) \in {Reply(h, "exists"), At(h, "set"), At(h, "searchDuplicates")}
  BY <1>3 DEF CheckDuplicates, Memory
<1>5. \A pc \in {"set", "searchDuplicates"} : At(h, pc) \in Handler /\ Staged(At(h, pc))
  BY <1>1 DEF At, Call, Handler, Staged, Finds, Commands, Replies
<1>6. Reply(h, "exists") \in Handler /\ Staged(Reply(h, "exists"))
  BY ReplyType DEF Replies
<1> QED BY <1>4, <1>5, <1>6

\* How a POST begins.
Begin(x, e, r) ==
  LET h == Call("POST", e.kind, r, e, "dependency")
  IN  CASE e.kind = "agents" -> At(h, "searchDomains")
        [] e.kind \in {"numbers", "domains"} /\ e.needs # {} -> h
        [] OTHER -> CheckDuplicates(x, h)

\* Where a POST may begin.
LEMMA BeginType ==
  ASSUME Types, NEW x \in Contexts, NEW e \in Entity, NEW r \in Refs
  PROVE  /\ Begin(x, e, r) \in Handler /\ Staged(Begin(x, e, r))
         /\ Begin(x, e, r) \in
              {Call("POST", e.kind, r, e, pc) :
                 pc \in {"dependency", "searchDomains", "searchDuplicates", "set"}}
              \cup {Call("POST", e.kind, None, e, "exists")}
<1> DEFINE h == Call("POST", e.kind, r, e, "dependency")
<1>1. h \in Handler /\ Staged(h) /\ h.pc = "dependency" /\ h.verb = "POST"
      /\ At(h, "searchDomains") \in Handler /\ Staged(At(h, "searchDomains"))
  BY DEF Call, At, Handler, Staged, Entity, Finds, Commands, Replies
<1>2. /\ \A pc : At(h, pc) = Call("POST", e.kind, r, e, pc)
      /\ Reply(h, "exists") = Call("POST", e.kind, None, e, "exists")
  BY DEF At, Reply, Call
<1>3. Begin(x, e, r) \in {At(h, "searchDomains"), h, CheckDuplicates(x, h)}
  BY DEF Begin
<1>4. h = Call("POST", e.kind, r, e, "dependency")
  OBVIOUS
<1> HIDE DEF h
<1>5. h.pc \in Finds \cup Commands
  BY <1>1 DEF Commands
<1>6. /\ CheckDuplicates(x, h) \in Handler /\ Staged(CheckDuplicates(x, h))
      /\ CheckDuplicates(x, h) \in {Reply(h, "exists"), At(h, "set"), At(h, "searchDuplicates")}
  BY <1>1, <1>5, CheckDuplicatesType
<1> QED BY <1>1, <1>2, <1>3, <1>4, <1>6

\* The types hold at first.
LEMMA TypesInit == Init => Types
<1> SUFFICES ASSUME Init PROVE Types
  OBVIOUS
<1>1. Idle \in Handler /\ Staged(Idle) /\ Idle.pc \in Replies
  BY DEF Idle, Call, Handler, Staged, Replies
<1>2. NothingKnown \in [Kinds -> [Keys -> Memory]]
  BY DEF NothingKnown, Memory
<1>3. mishaps \in 0 .. MaxMishaps
  BY MishapsAssumption DEF Init
<1> QED BY <1>1, <1>2, <1>3 DEF Init, Types, TypeOK, Closed

\* A new call has the types.
LEMMA TypesRequest ==
  ASSUME Types, NEW x \in Contexts, Request(x)
  PROVE  Types'
<1>1. /\ cache \in [Contexts -> [Kinds -> [Keys -> Memory]]]
      /\ strings \in [Refs -> Entity \cup {None}]
      /\ sets \in [Kinds -> SUBSET Refs]
      /\ mishaps \in 0 .. MaxMishaps
  BY OpenCall
<1>2. ASSUME NEW p \in Posts, Post(x, p[1], p[2]) PROVE Types'
  <2>1. p[1] \in Entity
    BY RequestsAssumption
  <2>2. PICK r \in Refs : Become(x, Begin(x, p[1], r))
    BY <1>2 DEF Post, Begin
  <2>3. Begin(x, p[1], r) \in Handler /\ Staged(Begin(x, p[1], r))
    BY <2>1, BeginType
  <2> QED BY <1>1, <1>2, <2>2, <2>3, StepType DEF Post
<1>3. ASSUME NEW p \in Puts, Put(x, p[1], p[2]) PROVE Types'
  <2>1. p[1] \in Entity /\ p[2] \in Refs
    BY RequestsAssumption
  <2> DEFINE h == Call("PUT", p[1].kind, p[2], p[1], "read")
  <2>2. h \in Handler /\ Staged(h)
    BY <2>1 DEF Call, Handler, Staged, Entity, Finds, Commands, Replies
  <2>3. Become(x, h) /\ UNCHANGED <<strings, sets, cache, mishaps>>
    BY <1>3 DEF Put
  <2> HIDE DEF h
  <2> QED BY <1>1, <2>2, <2>3, StepType
<1>4. ASSUME NEW d \in Deletes, Delete(x, d[1], d[2]) PROVE Types'
  <2>1. d[1] \in Kinds /\ d[2] \in Refs
    BY RequestsAssumption
  <2> DEFINE pc == CASE d[1] = "peers" -> "del" [] d[1] = "agents" -> "read" [] OTHER -> "invalidate"
             h == Call("DELETE", d[1], d[2], None, pc)
  <2>2. h \in Handler /\ Staged(h)
    <3>1. /\ d[1] = "peers" => pc = "del"
          /\ d[1] = "agents" => pc = "read"
          /\ d[1] \in Searched => pc = "invalidate"
          /\ d[1] \in {"peers", "agents"} \cup Searched
      BY <2>1 DEF Kinds, Searched
    <3> HIDE DEF pc
    <3> QED BY <2>1, <3>1 DEF Call, Handler, Staged, Finds, Commands, Replies
  <2>3. Become(x, h) /\ UNCHANGED <<strings, sets, cache, mishaps>>
    BY <1>4 DEF Delete
  <2> HIDE DEF h
  <2> QED BY <1>1, <2>2, <2>3, StepType
<1> QED BY <1>2, <1>3, <1>4 DEF Request

\* A search keeps the types.
LEMMA TypesSearch ==
  ASSUME Types, NEW x \in Contexts,
         ListMembers(x) \/ (\E r \in Refs : GetMember(x, r)) \/ FindFails(x)
         \/ CountDomains(x) \/ SearchDuplicates(x) \/ SearchDependents(x),
         mishaps' \in 0 .. MaxMishaps
  PROVE  Types'
<1> DEFINE h == handler[x]
<1>1. /\ h \in Handler /\ Staged(h)
      /\ cache \in [Contexts -> [Kinds -> [Keys -> Memory]]]
      /\ strings \in [Refs -> Entity \cup {None}]
      /\ sets \in [Kinds -> SUBSET Refs]
  BY OpenCall
<1>2. CASE ListMembers(x)
  <2> DEFINE g == [h EXCEPT !.listed = TRUE, !.todo = sets[Collection(h)]]
  <2>1. Become(x, g) /\ UNCHANGED <<strings, sets, cache>> /\ h.pc \in Finds
    BY <1>2 DEF ListMembers
  <2>2. Collection(h) \in Kinds
    BY <1>1, <2>1 DEF Collection, DependentKind, Staged, Finds, Replies, Searched, Kinds
  <2>3. sets[Collection(h)] \in SUBSET Refs
    BY <1>1, <2>2
  <2>4. g \in Handler /\ Staged(g)
    BY <1>1, <2>3 DEF Handler, Staged
  <2> HIDE DEF g
  <2> QED BY <1>1, <2>1, <2>4, StepType
<1>3. ASSUME NEW r \in Refs, GetMember(x, r) PROVE Types'
  <2> DEFINE t == h.todo \ {r}
             b == h.broken \/ strings[r] = None
             s == IF strings[r] # None /\ Hit(h, strings[r]) THEN h.hits \cup {r} ELSE h.hits
             g == [h EXCEPT !.todo = t, !.broken = b, !.hits = s]
  <2>1. Become(x, g) /\ UNCHANGED <<strings, sets, cache>>
    BY <1>3 DEF GetMember
  <2>2. t \in SUBSET Refs /\ b \in BOOLEAN /\ s \in SUBSET Refs
    BY <1>1 DEF Handler
  <2> HIDE DEF t, b, s
  <2>3. g \in Handler /\ Staged(g)
    <3> HIDE DEF h
    <3>1. g \in Handler
      BY <1>1, <2>2 DEF Handler
    <3>2. /\ g.pc = h.pc /\ g.verb = h.verb /\ g.kind = h.kind
          /\ g.ref = h.ref /\ g.body = h.body
      BY <1>1 DEF Handler
    <3> HIDE DEF g
    <3> QED BY <1>1, <3>1, <3>2 DEF Staged
  <2> HIDE DEF g
  <2> QED BY <1>1, <2>1, <2>3, StepType
<1>4. CASE FindFails(x)
  <2> DEFINE g == [h EXCEPT !.listed = TRUE, !.todo = {}, !.hits = {}, !.broken = FALSE]
  <2>1. Become(x, g) /\ UNCHANGED <<strings, sets, cache>>
    BY <1>4 DEF FindFails
  <2>2. g \in Handler /\ Staged(g)
    BY <1>1 DEF Handler, Staged
  <2> HIDE DEF g
  <2> QED BY <1>1, <2>1, <2>2, StepType
<1>5. CASE CountDomains(x)
  <2>1. h.pc = "searchDomains" /\ h.verb = "POST" /\ h.pc \in Finds \cup Commands
    BY <1>1, <1>5 DEF CountDomains, Found, Staged, Finds
  <2>2. PICK g \in {CheckDuplicates(x, h), Reply(h, "unfulfilled")} : Become(x, g)
    BY <1>5 DEF CountDomains
  <2>3. UNCHANGED <<strings, sets, cache>>
    BY <1>5 DEF CountDomains
  <2>4. CheckDuplicates(x, h) \in Handler /\ Staged(CheckDuplicates(x, h))
    BY <1>1, <2>1, CheckDuplicatesType
  <2>5. Reply(h, "unfulfilled") \in Handler /\ Staged(Reply(h, "unfulfilled"))
    BY <1>1, ReplyType DEF Replies
  <2> HIDE DEF h
  <2> QED BY <1>1, <2>2, <2>3, <2>4, <2>5, StepType
<1>6. CASE SearchDuplicates(x)
  <2>1. h.pc = "searchDuplicates" /\ h.verb = "POST" /\ h.pc \notin Replies
    BY <1>1, <1>6 DEF SearchDuplicates, Found, Staged, Replies
  <2>2. PICK g \in {Reply(h, "failed"), Reply(h, "exists"), At(h, "set")} : Become(x, g)
    BY <1>6 DEF SearchDuplicates
  <2>3. UNCHANGED <<strings, sets>>
    BY <1>6 DEF SearchDuplicates
  <2>4. h.kind \in Kinds /\ h.body.key \in Keys
    BY <1>1, <2>1 DEF Staged, Entity
  <2>5. \/ UNCHANGED cache
        \/ Remember(x, h.kind, h.body.key, "exists")
        \/ Remember(x, h.kind, h.body.key, "absent")
    BY <1>6 DEF SearchDuplicates
  <2>6. cache' \in [Contexts -> [Kinds -> [Keys -> Memory]]]
    <3>1. {"exists", "absent"} \subseteq Memory
      BY DEF Memory
    <3> HIDE DEF h
    <3> QED BY <1>1, <2>4, <2>5, <3>1, RememberType
  <2>7. g \in Handler /\ Staged(g)
    <3>1. At(h, "set") \in Handler /\ Staged(At(h, "set"))
      BY <1>1, <2>1 DEF At, Call, Handler, Staged, Commands, Replies
    <3> QED BY <1>1, <3>1, ReplyType DEF Replies
  <2> HIDE DEF h
  <2> QED BY <2>2, <2>3, <1>1, <2>6, <2>7, StepType
<1>7. CASE SearchDependents(x)
  <2>1. h.pc = "searchDependents" /\ h.verb = "DELETE" /\ h.pc \notin Replies
    BY <1>1, <1>7 DEF SearchDependents, Found, Staged, Replies
  <2>2. PICK g \in {At(h, "del"), Reply(h, "dependents")} : Become(x, g)
    BY <1>7 DEF SearchDependents
  <2>3. UNCHANGED <<strings, sets, cache>>
    BY <1>7 DEF SearchDependents
  <2>4. g \in Handler /\ Staged(g)
    <3>1. At(h, "del") \in Handler /\ Staged(At(h, "del"))
      BY <1>1, <2>1 DEF At, Call, Handler, Staged, Commands, Replies
    <3> QED BY <1>1, <3>1, ReplyType DEF Replies
  <2> HIDE DEF h
  <2> QED BY <2>2, <1>1, <2>3, <2>4, StepType
<1> QED BY <1>2, <1>3, <1>4, <1>5, <1>6, <1>7

\* The merge of an update is an entity of the same kind.
LEMMA MergeType ==
  ASSUME NEW e \in Entity, NEW f \in Entity
  PROVE  Merge(e, f) \in Entity /\ Merge(e, f).kind = f.kind
BY DEF Merge, Entity

\* A command that only moves its call.
LEMMA TypesMove ==
  ASSUME Types, NEW x \in Contexts, mishaps' \in 0 .. MaxMishaps,
         GetDependency(x) \/ ReadOld(x) \/ ReadDoomed(x) \/ GetFails(x)
  PROVE  Types'
<1> DEFINE h == handler[x]
<1>1. /\ h \in Handler /\ Staged(h)
      /\ cache \in [Contexts -> [Kinds -> [Keys -> Memory]]]
      /\ strings \in [Refs -> Entity \cup {None}]
      /\ sets \in [Kinds -> SUBSET Refs]
  BY OpenCall
<1>2. UNCHANGED <<strings, sets, cache>>
  BY DEF GetDependency, ReadOld, ReadDoomed, GetFails
<1>3. SUFFICES \E g \in Handler : Staged(g) /\ Become(x, g)
  BY <1>1, <1>2, StepType
<1>4. \A pc \in Replies : Reply(h, pc) \in Handler /\ Staged(Reply(h, pc))
  BY <1>1, ReplyType
<1>5. CASE GetDependency(x)
  <2>1. h.verb = "POST" /\ h.pc \in Finds \cup Commands
    BY <1>1, <1>5 DEF GetDependency, Staged, Commands
  <2>2. Become(x, CheckDuplicates(x, h)) \/ Become(x, Reply(h, "unfulfilled"))
    BY <1>5 DEF GetDependency
  <2>3. CheckDuplicates(x, h) \in Handler /\ Staged(CheckDuplicates(x, h))
    BY <1>1, <2>1, CheckDuplicatesType
  <2> QED BY <1>4, <2>2, <2>3 DEF Replies
<1>6. CASE ReadOld(x)
  <2> DEFINE old == strings[h.ref]
             b == Merge(old, h.body)
  <2>1. h.pc = "read" /\ h.verb = "PUT" /\ h.ref \in Refs /\ h.body \in Entity /\ h.body.kind = h.kind
    BY <1>1, <1>6 DEF ReadOld, Staged, Replies
  <2>2. \/ old # None /\ Become(x, [At(h, "write") EXCEPT !.body = b])
        \/ Become(x, Reply(h, "invalid"))
    BY <1>6 DEF ReadOld
  <2>3. CASE old # None /\ Become(x, [At(h, "write") EXCEPT !.body = b])
    <3>1. old \in Entity
      BY <1>1, <2>1, <2>3
    <3>2. b \in Entity /\ b.kind = h.kind
      BY <2>1, <3>1, MergeType
    <3> HIDE DEF b
    <3>3. [At(h, "write") EXCEPT !.body = b] \in Handler /\ Staged([At(h, "write") EXCEPT !.body = b])
      BY <1>1, <2>1, <3>2 DEF At, Call, Handler, Staged, Commands, Replies
    <3> QED BY <2>3, <3>3
  <2>4. CASE Become(x, Reply(h, "invalid"))
    BY <1>4, <2>4 DEF Replies
  <2> QED BY <2>2, <2>3, <2>4
<1>7. CASE ReadDoomed(x)
  <2> DEFINE e == strings[h.ref]
             pc == IF h.kind = "agents" THEN "del" ELSE "searchDependents"
             g == [At(h, pc) EXCEPT !.body = e]
  <2>1. /\ h.pc = "read" /\ h.verb = "DELETE" /\ h.ref \in Refs /\ h.kind \in Kinds
        /\ h.kind # "peers"
    BY <1>1, <1>7 DEF ReadDoomed, Staged, Replies
  <2>2. Become(x, Reply(h, "notFound")) \/ Become(x, Reply(h, "failed")) \/ Become(x, g)
    BY <1>7 DEF ReadDoomed
  <2>3. g \in Handler /\ Staged(g)
    <3>1. e \in Entity \cup {None}
      BY <1>1, <2>1
    <3>2. pc \in {"del", "searchDependents"} /\ (pc = "searchDependents" => h.kind \in Searched)
      BY <2>1 DEF Kinds, Searched
    <3> HIDE DEF e, pc
    <3> QED BY <1>1, <2>1, <3>1, <3>2 DEF At, Call, Handler, Staged, Finds, Commands, Replies
  <2> HIDE DEF g
  <2> QED BY <1>4, <2>2, <2>3 DEF Replies
<1>8. CASE GetFails(x)
  <2>1. h.pc \in {"dependency", "read", "invalidate"} /\ h.verb \in {"POST", "PUT", "DELETE"}
    BY <1>1, <1>8 DEF GetFails, Staged
  <2>2. CASE h.pc = "invalidate"
    <3>1. \E pc \in {"searchDependents", "read"} : Become(x, At(h, pc))
      BY <1>8, <2>2 DEF GetFails
    <3>2. \A pc \in {"searchDependents", "read"} : At(h, pc) \in Handler /\ Staged(At(h, pc))
      BY <1>1, <2>2 DEF At, Call, Handler, Staged, Searched, Finds, Commands, Replies
    <3> QED BY <3>1, <3>2
  <2>3. CASE h.pc # "invalidate"
    <3>1. h.pc = "read" => h.verb \in {"PUT", "DELETE"}
      BY <1>1 DEF Staged
    <3>2. \E pc \in {"unfulfilled", "invalid", "failed"} : Become(x, Reply(h, pc))
      BY <1>8, <2>1, <2>3, <3>1 DEF GetFails
    <3> QED BY <1>4, <3>2 DEF Replies
  <2> QED BY <2>2, <2>3
<1> QED BY <1>5, <1>6, <1>7, <1>8

\* A command that writes.
LEMMA TypesWrite ==
  ASSUME Types, NEW x \in Contexts, mishaps' \in 0 .. MaxMishaps,
         SetKey(x) \/ AddMember(x) \/ Write(x) \/ Invalidate(x) \/ DelKey(x)
         \/ RemoveMember(x) \/ WriteFails(x)
  PROVE  Types'
<1> DEFINE h == handler[x]
           Caches == [Contexts -> [Kinds -> [Keys -> Memory]]]
           Strings == [Refs -> Entity \cup {None}]
           Sets == [Kinds -> SUBSET Refs]
<1>1. /\ h \in Handler /\ Staged(h)
      /\ cache \in Caches /\ strings \in Strings /\ sets \in Sets
  BY OpenCall
<1>2. h.pc \notin Replies
  BY DEF SetKey, AddMember, Write, Invalidate, DelKey, RemoveMember, WriteFails, Replies
<1>3. h.ref \in Refs /\ h.kind \in Kinds
  BY <1>1, <1>2 DEF Staged
<1>4. \A pc \in Replies : Reply(h, pc) \in Handler /\ Staged(Reply(h, pc))
  BY <1>1, ReplyType
<1>5. SUFFICES /\ strings' \in Strings /\ sets' \in Sets /\ cache' \in Caches
               /\ \E g \in Handler : Staged(g) /\ Become(x, g)
  BY StepType
<1>6. \A e \in Entity : [strings EXCEPT ![h.ref] = e] \in Strings
  BY <1>1, <1>3
<1>7. [strings EXCEPT ![h.ref] = None] \in Strings
  BY <1>1, <1>3
<1>8. /\ [sets EXCEPT ![h.kind] = @ \cup {h.ref}] \in Sets
      /\ [sets EXCEPT ![h.kind] = @ \ {h.ref}] \in Sets
  BY <1>1, <1>3
<1>9. h.pc \in {"set", "sadd", "write"} => h.body \in Entity /\ h.body.key \in Keys
  BY <1>1, <1>2 DEF Staged, Entity
<1>10. ASSUME NEW memory \in Memory, h.body.key \in Keys, Remember(x, h.kind, h.body.key, memory)
       PROVE  cache' \in Caches
  BY <1>1, <1>3, <1>10, RememberType
<1>11. {"empty", "exists", "absent"} = Memory
  BY DEF Memory
<1> HIDE DEF Caches, Strings, Sets
<1>12. CASE SetKey(x)
  <2>1. h.pc = "set"
    BY <1>12 DEF SetKey
  <2>2. At(h, "sadd") \in Handler /\ Staged(At(h, "sadd"))
    BY <1>1, <2>1 DEF At, Call, Handler, Staged, Commands, Replies
  <2> QED BY <1>1, <1>6, <1>9, <1>12, <2>1, <2>2 DEF SetKey
<1>13. CASE AddMember(x)
  <2>1. h.pc = "sadd" /\ Remember(x, h.kind, h.body.key, "exists")
    BY <1>13 DEF AddMember
  <2>2. cache' \in Caches
    BY <1>9, <1>10, <1>11, <2>1
  <2> QED BY <1>1, <1>4, <1>8, <1>13, <2>2 DEF AddMember, Replies
<1>14. CASE Write(x)
  <2>1. h.pc = "write" /\ Remember(x, h.kind, h.body.key, "exists")
    BY <1>14 DEF Write
  <2>2. cache' \in Caches
    BY <1>9, <1>10, <1>11, <2>1
  <2> QED BY <1>1, <1>4, <1>6, <1>9, <1>14, <2>1, <2>2 DEF Write, Replies
<1>15. CASE Invalidate(x)
  <2> DEFINE e == strings[h.ref]
  <2>1. /\ h.pc = "invalidate" /\ UNCHANGED <<strings, sets>>
        /\ (e # None /\ Remember(x, h.kind, e.key, "empty")) \/ UNCHANGED cache
    BY <1>15 DEF Invalidate
  <2>2. cache' \in Caches
    <3>1. e # None => e.key \in Keys
      BY <1>1, <1>3 DEF Strings, Entity
    <3> HIDE DEF e, h
    <3>2. CASE e # None /\ Remember(x, h.kind, e.key, "empty")
      BY <1>1, <1>3, <1>11, <3>1, <3>2, RememberType DEF Caches
    <3> QED BY <1>1, <2>1, <3>2
  <2>3. \E pc \in {"searchDependents", "read"} : Become(x, At(h, pc)) \/ Become(x, Reply(h, "failed"))
    BY <1>15 DEF Invalidate
  <2>4. \A pc \in {"searchDependents", "read"} : At(h, pc) \in Handler /\ Staged(At(h, pc))
    BY <1>1, <2>1 DEF At, Call, Handler, Staged, Searched, Finds, Commands, Replies
  <2> HIDE DEF h
  <2> QED BY <1>1, <1>4, <2>1, <2>2, <2>3, <2>4 DEF Replies
<1>16. CASE DelKey(x)
  <2>1. h.pc = "del"
    BY <1>16 DEF DelKey
  <2>2. At(h, "srem") \in Handler /\ Staged(At(h, "srem"))
    BY <1>1, <2>1 DEF At, Call, Handler, Staged, Commands, Replies
  <2> QED BY <1>1, <1>4, <1>7, <1>16, <2>2 DEF DelKey, Replies
<1>17. CASE RemoveMember(x)
  BY <1>1, <1>4, <1>8, <1>17 DEF RemoveMember, Replies
<1>18. CASE WriteFails(x)
  <2>1. h.pc \in {"set", "sadd", "write", "del", "srem"} /\ Become(x, Reply(h, "failed"))
    BY <1>18 DEF WriteFails
  <2>2. \/ strings' = strings
        \/ h.pc \in {"set", "write"} /\ strings' = [strings EXCEPT ![h.ref] = h.body]
        \/ strings' = [strings EXCEPT ![h.ref] = None]
    BY <1>18, <2>1 DEF WriteFails
  <2>3. strings' \in Strings
    BY <1>1, <1>6, <1>7, <1>9, <2>2
  <2>4. \/ sets' = sets
        \/ sets' = [sets EXCEPT ![h.kind] = @ \cup {h.ref}]
        \/ sets' = [sets EXCEPT ![h.kind] = @ \ {h.ref}]
    BY <1>18, <2>1 DEF WriteFails
  <2>5. \/ UNCHANGED cache
        \/ h.pc \in {"set", "sadd", "write"} /\ Remember(x, h.kind, h.body.key, "absent")
    BY <1>18 DEF WriteFails
  <2>6. cache' \in Caches
    BY <1>1, <1>9, <1>10, <1>11, <2>5
  <2> HIDE DEF h
  <2> QED BY <1>1, <1>4, <1>8, <2>1, <2>3, <2>4, <2>6 DEF Replies
<1> QED BY <1>12, <1>13, <1>14, <1>15, <1>16, <1>17, <1>18

\* Every step keeps the types.
LEMMA TypesStep == Types /\ [Next]_vars => Types'
<1> SUFFICES ASSUME Types, [Next]_vars PROVE Types'
  OBVIOUS
<1>1. mishaps \in 0 .. MaxMishaps /\ cache \in [Contexts -> [Kinds -> [Keys -> Memory]]]
  BY DEF Types, TypeOK
<1>2. ASSUME NEW x \in Contexts, Request(x) PROVE Types'
  BY <1>2, TypesRequest
<1>3. ASSUME NEW x \in Contexts, Proceed(x) PROVE Types'
  <2>1. UNCHANGED mishaps
    BY <1>3 DEF Proceed, ListMembers, GetMember, GetDependency, CountDomains, SearchDuplicates,
         SetKey, AddMember, ReadOld, Write, Invalidate, ReadDoomed, SearchDependents, DelKey, RemoveMember
  <2> QED BY <1>1, <1>3, <2>1, TypesSearch, TypesMove, TypesWrite DEF Proceed
<1>4. ASSUME NEW x \in Contexts, NEW kind \in Kinds, NEW key \in Keys, Expire(x, kind, key)
      PROVE  Types'
  <2>1. cache' \in [Contexts -> [Kinds -> [Keys -> Memory]]]
    <3>1. "empty" \in Memory
      BY DEF Memory
    <3> QED BY <1>1, <1>4, <3>1, RememberType DEF Expire
  <2> QED BY <1>4, <2>1 DEF Expire, Types, TypeOK, Closed
<1>5. CASE Mishap
  <2>1. mishaps' \in 0 .. MaxMishaps
    BY <1>1, <1>5, MishapsAssumption DEF Mishap
  <2>2. PICK x \in Contexts : FindFails(x) \/ GetFails(x) \/ WriteFails(x) \/ Restart(x)
    BY <1>5 DEF Mishap
  <2>3. CASE Restart(x)
    <3>1. Idle \in Handler /\ Staged(Idle)
      BY DEF Idle, Call, Handler, Staged, Replies
    <3>2. NothingKnown \in [Kinds -> [Keys -> Memory]]
      BY DEF NothingKnown, Memory
    <3>3. cache' \in [Contexts -> [Kinds -> [Keys -> Memory]]]
      BY <1>1, <2>3, <3>2 DEF Restart
    <3>4. strings' \in [Refs -> Entity \cup {None}] /\ sets' \in [Kinds -> SUBSET Refs]
      BY <2>3 DEF Restart, Types, TypeOK
    <3> QED BY <2>1, <2>3, <3>1, <3>3, <3>4, StepType DEF Restart
  <2> QED BY <2>1, <2>2, <2>3, TypesSearch, TypesMove, TypesWrite
<1>6. CASE UNCHANGED vars
  BY <1>6 DEF vars, Types, TypeOK, Closed
<1> QED BY <1>2, <1>3, <1>4, <1>5, <1>6 DEF Next

\* The types hold in every run.
LEMMA TypesAlways == Spec => []Types
BY TypesInit, TypesStep, PTL DEF Spec

(***************************************************************************)
(* The variables stay in their types: every call carries what the command  *)
(* it is at needs, whatever fails.                                         *)
(***************************************************************************)
THEOREM TypeCorrect == Spec => []TypeOK
<1>1. Types => TypeOK
  BY DEF Types
<1> QED BY <1>1, TypesAlways, PTL

-----------------------------------------------------------------------------
(* The collections and what is stored, as long as no command fails.        *)

\* Clients let insert generate the refs and delete entities as what they
\* are, and no ref is generated for two collections.
OwnRefs ==
  /\ \A p \in Posts : p[2] = None
  /\ \A d \in Deletes : d[2] \in Generated[d[1]]
  /\ \A k, l \in Kinds : Generated[k] \cap Generated[l] # {} => k = l

Moved(x, g) == Become(x, g) /\ UNCHANGED <<strings, sets>>

\* Replies to calls that wrote nothing.
Refusals == {"exists", "unfulfilled", "dependents", "notFound", "invalid", "failed"}

\* A POST with a new ref, a PUT or a DELETE of a ref that is not being
\* generated, and a POST whose key is known to be taken.
Begins(x) ==
  /\ Closed(x)
  /\ \E g \in Handler :
       /\ Moved(x, g) /\ Staged(g) /\ g.pc \notin (Replies \ Refusals) \cup {"sadd", "srem", "write"}
       /\ g.verb \in {"POST", "PUT", "DELETE"} /\ g.kind \in Kinds
       /\ g.verb = "PUT" => Puts # {}
       /\ \/ g.pc \in Refusals
          \/ g.verb = "POST" /\ g.ref \in Generated[g.kind] /\ Fresh(g.ref)
          \/ g.verb = "PUT" /\ Known(g.ref)
          \/ g.verb = "DELETE" /\ Known(g.ref) /\ g.ref \in Generated[g.kind]

\* A call goes on, or is replied to, and neither wrote nor will have written.
GoesOn(x) ==
  LET h == handler[x]
  IN  /\ ~Closed(x) /\ h.pc \notin {"sadd", "srem", "write"}
      /\ \E g \in Handler :
           /\ Moved(x, g) /\ Staged(g) /\ g.pc \notin (Replies \ Refusals) \cup {"sadd", "srem"}
           /\ g.verb = h.verb /\ g.kind = h.kind
           /\ g.pc \in Refusals \/ g.ref = h.ref
           /\ g.pc = "write" => strings[g.ref] # None /\ strings[g.ref].kind = g.kind

Writes(x) == SetKey(x) \/ AddMember(x) \/ Write(x) \/ DelKey(x) \/ RemoveMember(x)

StepKinds ==
  \/ \E x \in Contexts : Begins(x) \/ GoesOn(x) \/ Writes(x)
  \/ UNCHANGED <<strings, sets, handler>>

\* The record that a step of x leaves is one of its handlers.
LEMMA HandlerAfter ==
  ASSUME Types, Types', NEW x \in Contexts, NEW g, Become(x, g)
  PROVE  g \in Handler /\ Staged(g)
<1>1. handler'[x] = g
  BY DEF Types, TypeOK, Become
<1>2. handler'[x] \in Handler /\ Staged(handler'[x])
  BY DEF Types, TypeOK
<1> QED BY <1>1, <1>2

\* A new call begins.
LEMMA RequestBegins ==
  ASSUME OwnRefs, Types, Types', NEW x \in Contexts, Request(x)
  PROVE  Begins(x)
<1>1. ASSUME NEW p \in Posts, Post(x, p[1], p[2]) PROVE Begins(x)
  <2>1. p[1] \in Entity /\ p[2] = None /\ p[1].kind \in Kinds
    BY RequestsAssumption DEF OwnRefs, Entity
  <2>2. PICK r \in Refs : Become(x, Begin(x, p[1], r)) /\ r \in Generated[p[1].kind] /\ Fresh(r)
    BY <1>1, <2>1 DEF Post, Begin
  <2> DEFINE g == Begin(x, p[1], r)
  <2>3. g \in Handler /\ Staged(g)
    BY <2>1, BeginType
  <2>4. \/ g.pc \in {"dependency", "searchDomains", "searchDuplicates", "set"}
           /\ g.verb = "POST" /\ g.kind = p[1].kind /\ g.ref = r
        \/ g.pc = "exists" /\ g.verb = "POST" /\ g.kind = p[1].kind
    BY <2>1, BeginType DEF Call
  <2>5. Moved(x, g) /\ Closed(x)
    BY <1>1, <2>2 DEF Post, Moved
  <2> HIDE DEF g
  <2> QED BY <2>1, <2>2, <2>3, <2>4, <2>5 DEF Begins, Replies, Refusals
<1>2. ASSUME NEW p \in Puts, Put(x, p[1], p[2]) PROVE Begins(x)
  <2> DEFINE g == Call("PUT", p[1].kind, p[2], p[1], "read")
  <2>1. Moved(x, g) /\ Closed(x) /\ Known(p[2])
    BY <1>2 DEF Put, Moved
  <2>2. g.pc = "read" /\ g.verb = "PUT" /\ g.ref = p[2] /\ g.kind \in Kinds
    BY RequestsAssumption DEF Call, Entity
  <2> HIDE DEF g
  <2> QED BY <2>1, <2>2, HandlerAfter DEF Begins, Moved, Replies
<1>3. ASSUME NEW d \in Deletes, Delete(x, d[1], d[2]) PROVE Begins(x)
  <2>1. d[1] \in Kinds /\ d[2] \in Generated[d[1]]
    BY RequestsAssumption DEF OwnRefs
  <2>2. PICK pc \in {"del", "read", "invalidate"} :
          Moved(x, Call("DELETE", d[1], d[2], None, pc))
    BY <1>3 DEF Delete, Moved
  <2> DEFINE g == Call("DELETE", d[1], d[2], None, pc)
  <2>3. g.pc = pc /\ g.verb = "DELETE" /\ g.kind = d[1] /\ g.ref = d[2]
    BY DEF Call
  <2>4. Moved(x, g) /\ Closed(x) /\ Known(d[2])
    BY <1>3, <2>2 DEF Delete
  <2> HIDE DEF g
  <2> QED BY <2>1, <2>3, <2>4, HandlerAfter DEF Begins, Moved, Replies
<1> QED BY <1>1, <1>2, <1>3 DEF Request

\* What a call that goes on becomes.
Continues(x, g) ==
  /\ Moved(x, g) /\ g.pc \notin (Replies \ Refusals) \cup {"sadd", "srem"}
  /\ g.verb = handler[x].verb /\ g.kind = handler[x].kind
  /\ g.pc \in Refusals \/ g.ref = handler[x].ref
  /\ g.pc = "write" => strings[g.ref] # None /\ strings[g.ref].kind = g.kind

\* A call that goes on is of that kind.
LEMMA ContinuesGoesOn ==
  ASSUME Types, Types', NEW x \in Contexts, NEW g, Continues(x, g),
         handler[x].pc \notin Replies \cup {"sadd", "srem", "write"}
  PROVE  GoesOn(x)
BY HandlerAfter DEF Continues, GoesOn, Closed, Moved

\* A command moves its call, or it is a write.
LEMMA ProceedKinds ==
  ASSUME Types, Types', NEW x \in Contexts, Proceed(x)
  PROVE  GoesOn(x) \/ Writes(x)
<1> DEFINE h == handler[x]
<1>1. h \in Handler /\ Staged(h)
  BY OpenCall
<1>2. \A pc \in (Finds \cup Commands) \ {"sadd", "srem", "write"} :
        /\ At(h, pc).pc \notin Replies \cup {"sadd", "srem", "write"}
        /\ At(h, pc).verb = h.verb /\ At(h, pc).kind = h.kind /\ At(h, pc).ref = h.ref
  BY DEF At, Call, Finds, Commands, Replies
<1>3. \A pc \in Refusals :
        Reply(h, pc).pc = pc /\ Reply(h, pc).verb = h.verb /\ Reply(h, pc).kind = h.kind
  BY DEF Reply, Call
<1>4. ASSUME NEW pc \in (Finds \cup Commands) \ {"sadd", "srem", "write"}, Moved(x, At(h, pc))
      PROVE  \E g : Continues(x, g)
  <2> DEFINE g == At(h, pc)
  <2>1. /\ g.pc \notin Replies \cup {"sadd", "srem", "write"}
        /\ g.verb = h.verb /\ g.kind = h.kind /\ g.ref = h.ref
    BY <1>2, <1>4
  <2>2. Moved(x, g)
    BY <1>4
  <2> HIDE DEF g
  <2>3. Continues(x, g)
    BY <2>1, <2>2 DEF Continues
  <2> QED BY <2>3
<1>5. ASSUME NEW pc \in Refusals, Moved(x, Reply(h, pc)) PROVE \E g : Continues(x, g)
  <2> DEFINE g == Reply(h, pc)
  <2>1. g.pc = pc /\ g.verb = h.verb /\ g.kind = h.kind /\ Moved(x, g)
    BY <1>3, <1>5
  <2> HIDE DEF g
  <2>2. Continues(x, g)
    BY <1>5, <2>1 DEF Continues, Refusals
  <2> QED BY <2>2
<1>6. ASSUME Moved(x, CheckDuplicates(x, h)), h.pc \in {"dependency", "searchDomains"}
      PROVE  \E g : Continues(x, g)
  <2>1. h.pc \in Finds \cup Commands /\ h.verb = "POST"
    BY <1>1, <1>6 DEF Staged, Finds, Commands
  <2>2. CheckDuplicates(x, h) \in {Reply(h, "exists"), At(h, "set"), At(h, "searchDuplicates")}
    BY <1>1, <2>1, CheckDuplicatesType
  <2> HIDE DEF h
  <2> QED BY <1>4, <1>5, <1>6, <2>2 DEF Replies, Refusals, Finds, Commands
<1>7. CASE ListMembers(x)
  <2> DEFINE g == [h EXCEPT !.listed = TRUE, !.todo = sets[Collection(h)]]
  <2>1. Moved(x, g) /\ h.pc \in Finds
    BY <1>7 DEF ListMembers, Moved
  <2>2. g.pc = h.pc /\ g.verb = h.verb /\ g.kind = h.kind /\ g.ref = h.ref
    BY <1>1 DEF Handler
  <2> HIDE DEF g
  <2>3. Continues(x, g) /\ h.pc \notin Replies \cup {"sadd", "srem", "write"}
    BY <2>1, <2>2 DEF Continues, Finds, Replies
  <2> QED BY <2>3, ContinuesGoesOn
<1>8. ASSUME NEW r \in Refs, GetMember(x, r) PROVE GoesOn(x)
  <2> DEFINE t == h.todo \ {r}
             b == h.broken \/ strings[r] = None
             s == IF strings[r] # None /\ Hit(h, strings[r]) THEN h.hits \cup {r} ELSE h.hits
             g == [h EXCEPT !.todo = t, !.broken = b, !.hits = s]
  <2>1. Moved(x, g) /\ h.pc \in Finds
    BY <1>8 DEF GetMember, Moved
  <2> HIDE DEF t, b, s
  <2>2. g.pc = h.pc /\ g.verb = h.verb /\ g.kind = h.kind /\ g.ref = h.ref
    BY <1>1 DEF Handler
  <2> HIDE DEF g
  <2>3. Continues(x, g) /\ h.pc \notin Replies \cup {"sadd", "srem", "write"}
    BY <2>1, <2>2 DEF Continues, Finds, Replies
  <2> QED BY <2>3, ContinuesGoesOn
<1>9. CASE GetDependency(x)
  <2>1. h.pc = "dependency" /\ (Moved(x, CheckDuplicates(x, h)) \/ Moved(x, Reply(h, "unfulfilled")))
    BY <1>9 DEF GetDependency, Moved
  <2> QED BY <1>5, <1>6, <2>1, ContinuesGoesOn DEF Replies, Refusals
<1>10. CASE CountDomains(x)
  <2>1. h.pc = "searchDomains" /\ (Moved(x, CheckDuplicates(x, h)) \/ Moved(x, Reply(h, "unfulfilled")))
    BY <1>10 DEF CountDomains, Found, Moved
  <2> QED BY <1>5, <1>6, <2>1, ContinuesGoesOn DEF Replies, Refusals
<1>11. CASE SearchDuplicates(x)
  <2>1. /\ h.pc = "searchDuplicates"
        /\ Moved(x, Reply(h, "failed")) \/ Moved(x, Reply(h, "exists")) \/ Moved(x, At(h, "set"))
    BY <1>11 DEF SearchDuplicates, Found, Moved
  <2> QED BY <1>4, <1>5, <2>1, ContinuesGoesOn DEF Replies, Refusals, Finds, Commands
<1>12. CASE ReadOld(x)
  <2> DEFINE b == Merge(strings[h.ref], h.body)
             g == [At(h, "write") EXCEPT !.body = b]
  <2>1. /\ h.pc = "read" /\ h.verb = "PUT"
        /\ \/ Moved(x, Reply(h, "invalid"))
           \/ strings[h.ref] # None /\ Rewritable(strings[h.ref], h.body) /\ Moved(x, g)
    BY <1>12 DEF ReadOld, Moved
  <2>2. h.body.kind = h.kind
    BY <1>1, <2>1 DEF Staged, Replies
  <2>3. g.pc = "write" /\ g.verb = h.verb /\ g.kind = h.kind /\ g.ref = h.ref
    BY DEF At, Call
  <2> HIDE DEF g
  <2>4. ASSUME strings[h.ref] # None, Rewritable(strings[h.ref], h.body), Moved(x, g)
        PROVE  Continues(x, g)
    BY <2>2, <2>3, <2>4 DEF Continues, Rewritable, Replies
  <2> QED BY <1>5, <2>1, <2>4, ContinuesGoesOn DEF Replies, Refusals
<1>13. CASE Invalidate(x)
  <2>1. /\ h.pc = "invalidate"
        /\ Moved(x, Reply(h, "failed")) \/ Moved(x, At(h, "searchDependents")) \/ Moved(x, At(h, "read"))
    BY <1>13 DEF Invalidate, Moved
  <2> QED BY <1>4, <1>5, <2>1, ContinuesGoesOn DEF Replies, Refusals, Finds, Commands
<1>14. CASE ReadDoomed(x)
  <2> DEFINE e == strings[h.ref]
             pc == IF h.kind = "agents" THEN "del" ELSE "searchDependents"
             g == [At(h, pc) EXCEPT !.body = e]
  <2>1. /\ h.pc = "read"
        /\ Moved(x, Reply(h, "notFound")) \/ Moved(x, Reply(h, "failed")) \/ Moved(x, g)
    BY <1>14 DEF ReadDoomed, Moved
  <2>2. g.pc \in {"del", "searchDependents"} /\ g.verb = h.verb /\ g.kind = h.kind /\ g.ref = h.ref
    BY DEF At, Call
  <2> HIDE DEF g
  <2>3. Moved(x, g) => Continues(x, g)
    BY <2>2 DEF Continues, Replies
  <2> QED BY <1>5, <2>1, <2>3, ContinuesGoesOn DEF Replies, Refusals
<1>15. CASE SearchDependents(x)
  <2>1. h.pc = "searchDependents" /\ (Moved(x, At(h, "del")) \/ Moved(x, Reply(h, "dependents")))
    BY <1>15 DEF SearchDependents, Found, Moved
  <2> QED BY <1>4, <1>5, <2>1, ContinuesGoesOn DEF Replies, Refusals, Finds, Commands
<1> QED BY <1>7, <1>8, <1>9, <1>10, <1>11, <1>12, <1>13, <1>14, <1>15 DEF Proceed, Writes

\* As long as no command fails and no context restarts, every step is one of
\* these kinds.
LEMMA NextKinds ==
  ASSUME OwnRefs, Types, Types', [Next]_vars, mishaps' = 0
  PROVE  StepKinds
<1>1. ASSUME NEW x \in Contexts, NEW kind \in Kinds, NEW key \in Keys, Expire(x, kind, key)
      PROVE  StepKinds
  BY <1>1 DEF Expire, StepKinds
<1>2. ~Mishap
  <2>1. mishaps \in Nat
    BY MishapsAssumption DEF Types, TypeOK
  <2> QED BY <2>1 DEF Mishap
<1>3. CASE UNCHANGED vars
  BY <1>3 DEF vars, StepKinds
<1>4. ASSUME NEW x \in Contexts, Request(x) \/ Proceed(x) PROVE StepKinds
  BY <1>4, RequestBegins, ProceedKinds DEF StepKinds
<1> QED BY <1>1, <1>2, <1>3, <1>4 DEF Next

\* A ref belongs to the collection it was generated for: that of a call that
\* will write it, what is stored under it, and the collection that lists it.
Owned ==
  /\ \A x \in Contexts :
       LET h == handler[x]
       IN  ~Closed(x) /\ (h.verb \in {"POST", "DELETE"} \/ h.pc = "write") => h.ref \in Generated[h.kind]
  /\ \A r \in Refs : strings[r] # None => r \in Generated[strings[r].kind]
  /\ \A k \in Kinds : sets[k] \subseteq Generated[k]

\* Nobody else has a call for a ref that is being generated.
Alone ==
  \A x, y \in Contexts :
    x # y /\ ~Closed(x) /\ handler[x].verb = "POST" => handler[y].ref # handler[x].ref

\* So what SET has stored is still there at SADD.
Written == \A x \in Contexts : handler[x].pc = "sadd" => strings[handler[x].ref] # None

Removing(k, r) ==
  \E x \in Contexts : handler[x].pc = "srem" /\ handler[x].kind = k /\ handler[x].ref = r

Backed == \A k \in Kinds : \A r \in sets[k] : strings[r] = None => Removing(k, r)

Orderly == Owned /\ Alone /\ Written /\ Backed

\* What one step of x leaves of the calls of the others.
LEMMA OthersStay ==
  ASSUME Types, NEW x \in Contexts, NEW g, Become(x, g)
  PROVE  handler'[x] = g /\ \A y \in Contexts : y # x => handler'[y] = handler[y]
BY DEF Types, TypeOK, Become

\* Nothing is stored at first.
LEMMA OrderlyInit == Init => Orderly
<1> SUFFICES ASSUME Init PROVE Orderly
  OBVIOUS
<1>1. \A x \in Contexts : handler[x].pc = "free"
  BY DEF Init, Idle, Call
<1>2. /\ \A r \in Refs : strings[r] = None
      /\ \A k \in Kinds : sets[k] = {}
  BY DEF Init
<1> QED BY <1>1, <1>2 DEF Orderly, Owned, Alone, Written, Backed, Closed, Replies

\* A new call disturbs no order.
LEMMA OrderlyBegins ==
  ASSUME OwnRefs, Types, Orderly, NEW x \in Contexts, Begins(x)
  PROVE  Orderly'
<1>1. PICK g \in Handler :
        /\ Moved(x, g) /\ Staged(g) /\ g.pc \notin {"sadd", "srem", "write"}
        /\ \/ g.pc \in Replies
           \/ g.verb = "POST" /\ g.ref \in Generated[g.kind] /\ Fresh(g.ref)
           \/ g.verb = "PUT" /\ Known(g.ref)
           \/ g.verb = "DELETE" /\ Known(g.ref) /\ g.ref \in Generated[g.kind]
  BY DEF Begins, Refusals, Replies
<1>2. /\ handler'[x] = g /\ \A y \in Contexts : y # x => handler'[y] = handler[y]
      /\ UNCHANGED <<strings, sets>>
  BY <1>1, OthersStay DEF Moved
<1>3. handler[x].pc \notin {"srem", "sadd"}
  BY DEF Begins, Closed, Replies
<1>4. Owned'
  BY <1>1, <1>2 DEF Orderly, Owned, Closed
<1>5. Alone'
  <2> SUFFICES ASSUME NEW y \in Contexts, NEW z \in Contexts, y # z,
                      handler'[y].pc \notin Replies, handler'[y].verb = "POST"
               PROVE  handler'[z].ref # handler'[y].ref
    BY DEF Alone, Closed
  <2>1. CASE y # x /\ z # x
    BY <1>2, <2>1 DEF Orderly, Alone, Closed
  <2>2. CASE y = x
    BY <1>1, <1>2, <2>2 DEF Fresh
  <2>3. CASE z = x
    <3>1. /\ handler[y].pc \notin Replies /\ handler[y].verb = "POST"
          /\ handler'[y] = handler[y] /\ handler[y].ref \in Generated[handler[y].kind]
          /\ handler[y].kind \in Kinds /\ handler[y].ref \in Refs
      BY <1>2, <2>3, OpenCall DEF Orderly, Owned, Closed, Staged
    <3>2. CASE g.pc \in Replies
      BY <1>1, <1>2, <2>3, <3>1, <3>2, NoneAssumption DEF Staged
    <3>3. CASE Fresh(g.ref)
      BY <1>2, <2>3, <3>1, <3>3 DEF Fresh
    <3>4. CASE Known(g.ref)
      BY <1>2, <2>3, <3>1, <3>4 DEF Known
    <3> QED BY <1>1, <3>2, <3>3, <3>4
  <2> QED BY <2>1, <2>2, <2>3
<1>6. Written' /\ Backed'
  BY <1>1, <1>2, <1>3 DEF Orderly, Written, Backed, Removing
<1> QED BY <1>4, <1>5, <1>6 DEF Orderly

\* A call that goes on, or is replied to, meets nobody at its ref.
LEMMA AloneStays ==
  ASSUME Types, Alone, NEW x \in Contexts, NEW g, Become(x, g), ~Closed(x),
         \/ g.pc \in Replies /\ g.ref = None
         \/ g.verb = handler[x].verb /\ g.ref = handler[x].ref
  PROVE  Alone'
<1>1. handler'[x] = g /\ \A y \in Contexts : y # x => handler'[y] = handler[y]
  BY OthersStay
<1> SUFFICES ASSUME NEW y \in Contexts, NEW z \in Contexts, y # z,
                    handler'[y].pc \notin Replies, handler'[y].verb = "POST"
             PROVE  handler'[z].ref # handler'[y].ref
  BY DEF Alone, Closed
<1>2. CASE y # x /\ z # x
  BY <1>1, <1>2 DEF Alone, Closed
<1>3. CASE y = x
  BY <1>1, <1>3 DEF Alone, Closed
<1>4. CASE z = x
  <2>1. handler'[y] = handler[y] /\ handler[y].ref \in Refs /\ handler[x].ref # handler[y].ref
    BY <1>1, <1>4, OpenCall DEF Alone, Closed, Staged
  <2> QED BY <1>1, <1>4, <2>1, NoneAssumption
<1> QED BY <1>2, <1>3, <1>4

\* Nor does one that goes on or is replied to.
LEMMA OrderlyGoesOn ==
  ASSUME Types, Orderly, NEW x \in Contexts, GoesOn(x)
  PROVE  Orderly'
<1> DEFINE h == handler[x]
<1>1. PICK g \in Handler :
        /\ Moved(x, g) /\ Staged(g) /\ g.pc \notin {"sadd", "srem"}
        /\ \/ g.pc \in Replies
           \/ g.verb = h.verb /\ g.kind = h.kind /\ g.ref = h.ref
        /\ g.pc = "write" => strings[g.ref] # None /\ strings[g.ref].kind = g.kind
  BY DEF GoesOn, Refusals, Replies
<1>2. /\ handler'[x] = g /\ \A y \in Contexts : y # x => handler'[y] = handler[y]
      /\ UNCHANGED <<strings, sets>>
  BY <1>1, OthersStay DEF Moved
<1>3. h.pc \notin {"srem", "sadd"} /\ h.pc \notin Replies
  BY DEF GoesOn, Closed
<1>4. Owned'
  <2>1. g.pc \notin Replies => g.ref \in Refs
    BY <1>1 DEF Staged
  <2>2. g.pc \notin Replies /\ (g.verb \in {"POST", "DELETE"} \/ g.pc = "write")
          => g.ref \in Generated[g.kind]
    BY <1>1, <1>3, <2>1 DEF Orderly, Owned, Closed
  <2> QED BY <1>2, <2>2 DEF Orderly, Owned, Closed
<1>5. Alone'
  BY <1>1, <1>3, AloneStays DEF Moved, Orderly, Closed, Staged
<1>6. Written' /\ Backed'
  BY <1>1, <1>2, <1>3 DEF Orderly, Written, Backed, Removing
<1> QED BY <1>4, <1>5, <1>6 DEF Orderly

\* Nor does a write.
LEMMA OrderlyWrites ==
  ASSUME OwnRefs, Types, Orderly, NEW x \in Contexts, Writes(x)
  PROVE  Orderly'
<1> DEFINE h == handler[x]
<1>1. h \in Handler /\ Staged(h) /\ strings \in [Refs -> Entity \cup {None}] /\ sets \in [Kinds -> SUBSET Refs]
  BY OpenCall
<1>2. ~Closed(x) /\ h.pc \in {"set", "sadd", "write", "del", "srem"} /\ h.pc \notin Replies
  BY DEF Writes, SetKey, AddMember, Write, DelKey, RemoveMember, Closed, Replies
<1>3. h.ref \in Refs /\ h.kind \in Kinds /\ h.ref \in Generated[h.kind]
  BY <1>1, <1>2 DEF Staged, Orderly, Owned
<1>4. h.pc \in {"set", "write"} => h.body \in Entity /\ h.body.kind = h.kind
  BY <1>1, <1>2 DEF Staged
\* What a write leaves of its call.
<1>5. PICK g : /\ Become(x, g)
               /\ \/ g.pc \in Replies /\ g.ref = None
                  \/ g.verb = h.verb /\ g.kind = h.kind /\ g.ref = h.ref
               /\ g.pc \in Replies \cup {"sadd", "srem"}
               /\ g.pc = "sadd" <=> SetKey(x)
               /\ g.pc = "srem" <=> DelKey(x) /\ strings[h.ref] # None
  <2>1. /\ \A pc : At(h, pc).pc = pc /\ At(h, pc).verb = h.verb /\ At(h, pc).kind = h.kind
                   /\ At(h, pc).ref = h.ref
        /\ \A pc : Reply(h, pc).pc = pc /\ Reply(h, pc).ref = None
    BY DEF At, Reply, Call
  <2>2. CASE SetKey(x)
    <3>1. Become(x, At(h, "sadd")) /\ ~DelKey(x)
      BY <2>2 DEF SetKey, DelKey
    <3> HIDE DEF h
    <3> QED BY <2>1, <2>2, <3>1
  <2>3. CASE DelKey(x) /\ strings[h.ref] # None
    <3>1. Become(x, At(h, "srem")) /\ ~SetKey(x)
      BY <2>3 DEF SetKey, DelKey
    <3> HIDE DEF h
    <3> QED BY <2>1, <2>3, <3>1
  <2>4. CASE ~SetKey(x) /\ ~(DelKey(x) /\ strings[h.ref] # None)
    <3>1. PICK pc \in {"created", "updated", "notFound", "deleted"} : Become(x, Reply(h, pc))
      BY <2>4 DEF Writes, AddMember, Write, DelKey, RemoveMember
    <3> HIDE DEF h
    <3>2. pc \in Replies /\ pc \notin {"sadd", "srem"}
      BY DEF Replies
    <3> QED BY <2>1, <2>4, <3>1, <3>2
  <2> QED BY <2>2, <2>3, <2>4
<1>6. handler'[x] = g /\ \A y \in Contexts : y # x => handler'[y] = handler[y]
  BY <1>5, OthersStay
<1>7. Alone'
  BY <1>2, <1>5, AloneStays DEF Orderly
\* Only DEL empties a key, and nobody else is about to list that one.
<1>8. \A r \in Refs :
        /\ strings'[r] # None =>
             \/ strings'[r] = strings[r]
             \/ r = h.ref /\ strings'[r].kind = h.kind
        /\ strings'[r] = None =>
             \/ strings[r] = None
             \/ DelKey(x) /\ r = h.ref
  <2>1. CASE SetKey(x) \/ Write(x)
    <3>1. strings' = [strings EXCEPT ![h.ref] = h.body] /\ h.body \in Entity /\ h.body.kind = h.kind
      BY <1>4, <2>1 DEF SetKey, Write
    <3> HIDE DEF h
    <3> QED BY <1>1, <1>3, <3>1, NoneAssumption
  <2>2. CASE DelKey(x)
    <3>1. strings' = [strings EXCEPT ![h.ref] = None]
      BY <2>2 DEF DelKey
    <3> HIDE DEF h
    <3> QED BY <1>1, <1>3, <2>2, <3>1
  <2>3. CASE AddMember(x) \/ RemoveMember(x)
    BY <2>3 DEF AddMember, RemoveMember
  <2> QED BY <2>1, <2>2, <2>3 DEF Writes
<1>9. \A k \in Kinds :
        /\ sets'[k] \subseteq sets[k] \cup {h.ref}
        /\ h.ref \in sets'[k] /\ h.ref \notin sets[k] => AddMember(x) /\ k = h.kind
  BY <1>1, <1>3 DEF Writes, SetKey, AddMember, Write, DelKey, RemoveMember
<1>10. Owned'
  <2>1. \A y \in Contexts :
          ~Closed(y)' /\ (handler'[y].verb \in {"POST", "DELETE"} \/ handler'[y].pc = "write")
            => handler'[y].ref \in Generated[handler'[y].kind]
    BY <1>3, <1>5, <1>6 DEF Orderly, Owned, Closed
  <2>2. \A r \in Refs : strings'[r] # None => r \in Generated[strings'[r].kind]
    <3> SUFFICES ASSUME NEW r \in Refs, strings'[r] # None PROVE r \in Generated[strings'[r].kind]
      OBVIOUS
    <3>1. CASE strings'[r] = strings[r]
      <4>1. r \in Generated[strings[r].kind]
        BY <3>1 DEF Orderly, Owned
      <4> QED BY <3>1, <4>1
    <3>2. CASE r = h.ref /\ strings'[r].kind = h.kind
      BY <1>3, <3>2
    <3> QED BY <1>8, <3>1, <3>2
  <2>3. \A k \in Kinds : sets'[k] \subseteq Generated[k]
    BY <1>3, <1>9 DEF Orderly, Owned
  <2> QED BY <2>1, <2>2, <2>3 DEF Owned
<1>11. Written'
  <2> SUFFICES ASSUME NEW y \in Contexts, handler'[y].pc = "sadd"
               PROVE  strings'[handler'[y].ref] # None
    BY DEF Written
  <2>1. CASE y = x
    <3>1. SetKey(x) /\ handler'[y].ref = h.ref
      BY <1>5, <1>6, <2>1 DEF Replies
    <3> QED BY <1>1, <1>3, <1>4, <3>1, NoneAssumption DEF SetKey
  <2>2. CASE y # x
    <3>1. /\ handler'[y] = handler[y] /\ handler[y].ref \in Refs /\ handler[y].ref # h.ref
          /\ strings[handler[y].ref] # None
      BY <1>6, <2>2, OpenCall DEF Orderly, Alone, Written, Closed, Staged, Replies
    <3> QED BY <1>8, <3>1
  <2> QED BY <2>1, <2>2
<1>12. Backed'
  <2> SUFFICES ASSUME NEW k \in Kinds, NEW r \in Refs, r \in sets'[k], strings'[r] = None
               PROVE  Removing(k, r)'
    <3>1. \A k \in Kinds : sets'[k] \subseteq Refs
      BY <1>1, <1>3, <1>9
    <3> QED BY <3>1 DEF Backed
  <2>1. CASE strings[r] = None /\ r \in sets[k]
    <3>1. PICK y \in Contexts : handler[y].pc = "srem" /\ handler[y].kind = k /\ handler[y].ref = r
      BY <2>1 DEF Orderly, Backed, Removing
    <3>2. y # x
      <4> SUFFICES ASSUME y = x PROVE FALSE
        OBVIOUS
      <4>1. RemoveMember(x)
        BY <3>1 DEF Writes, SetKey, AddMember, Write, DelKey
      <4> QED BY <1>1, <3>1, <4>1 DEF RemoveMember
    <3> QED BY <1>6, <3>1, <3>2 DEF Removing
  <2>2. CASE strings[r] = None /\ r \notin sets[k]
    <3>1. AddMember(x) /\ r = h.ref
      BY <1>9, <2>2
    <3>2. h.pc = "sadd" /\ strings[h.ref] # None
      BY <3>1 DEF AddMember, Orderly, Written
    <3> QED BY <2>2, <3>1, <3>2
  <2>3. CASE strings[r] # None
    <3>1. DelKey(x) /\ r = h.ref /\ r \in sets[k]
      BY <1>8, <2>3 DEF DelKey
    <3>2. k = h.kind
      BY <1>3, <3>1 DEF OwnRefs, Orderly, Owned
    <3>3. g.pc = "srem" /\ g.kind = h.kind /\ g.ref = h.ref
      BY <1>5, <2>3, <3>1 DEF Replies
    <3> QED BY <1>6, <3>1, <3>2, <3>3 DEF Removing
  <2> QED BY <2>1, <2>2, <2>3
<1> QED BY <1>7, <1>10, <1>11, <1>12 DEF Orderly

\* In a run in which no command has failed so far, the collections are in order.
Order == mishaps = 0 => Orderly

\* Mishaps are only ever counted up.
LEMMA MishapsStay ==
  ASSUME Types, [Next]_vars, mishaps' = 0
  PROVE  mishaps = 0
<1>1. mishaps \in Nat
  BY MishapsAssumption DEF Types, TypeOK
<1>2. mishaps' = mishaps \/ mishaps' = mishaps + 1
  BY DEF Next, Request, Post, Put, Delete, Proceed, ListMembers, GetMember, GetDependency,
         CountDomains, SearchDuplicates, SetKey, AddMember, ReadOld, Write, Invalidate,
         ReadDoomed, SearchDependents, DelKey, RemoveMember, Expire, Mishap, vars
<1> QED BY <1>1, <1>2

\* Every step keeps the order.
LEMMA OrderStep == OwnRefs /\ Types /\ Order /\ [Next]_vars => Order'
<1> SUFFICES ASSUME OwnRefs, Types, Order, [Next]_vars, mishaps' = 0 PROVE Orderly'
  BY DEF Order
<1>1. StepKinds
  BY TypesStep, NextKinds
<1>2. mishaps = 0
  BY MishapsStay
<1>3. Orderly
  BY <1>2 DEF Order
<1>4. CASE UNCHANGED <<strings, sets, handler>>
  BY <1>3, <1>4 DEF Orderly, Owned, Alone, Written, Backed, Removing, Closed
<1> QED BY <1>1, <1>3, <1>4, OrderlyBegins, OrderlyGoesOn, OrderlyWrites DEF StepKinds

\* The order holds in every run.
LEMMA OrderAlways == ASSUME OwnRefs PROVE Spec => []Order
<1>1. Init => Order
  BY OrderlyInit DEF Order
<1>2. Types /\ Order /\ [Next]_vars => Order'
  BY OrderStep
<1> QED BY <1>1, <1>2, TypesAlways, PTL DEF Spec

(***************************************************************************)
(* A collection names what is not stored only between the DEL and the SREM *)
(* of a delete, however many replicas create, update and delete at once.   *)
(***************************************************************************)
THEOREM DanglingEnds == ASSUME OwnRefs PROVE Spec => []DanglingIsTransient
<1>1. Order => DanglingIsTransient
  BY DEF Order, Orderly, Backed, Removing, DanglingIsTransient
<1> QED BY <1>1, OrderAlways, PTL

-----------------------------------------------------------------------------
(* A single replica, or no updates.                                        *)

SoleContext == \A x, y \in Contexts : x = y

\* A PUT that reads before the DELETE of another replica and writes after it
\* leaves an entity that no collection lists.
Calm == SoleContext \/ Puts = {}

Unput == Puts = {} => \A x \in Contexts : handler[x].verb # "PUT"

\* Nothing happens at the ref of a call but what the call does.
Emptied == \A x \in Contexts : handler[x].pc = "srem" => strings[handler[x].ref] = None
Reread ==
  \A x \in Contexts :
    LET h == handler[x]
    IN  h.pc = "write" => strings[h.ref] # None /\ strings[h.ref].kind = h.kind

Inserting(r) == \E x \in Contexts : handler[x].pc = "sadd" /\ handler[x].ref = r
Listings == \A r \in Refs : strings[r] # None => r \in sets[strings[r].kind] \/ Inserting(r)

Tracked == Unput /\ Emptied /\ Reread /\ Listings

LEMMA TrackedInit == Init => Tracked
BY DEF Init, Idle, Call, Tracked, Unput, Emptied, Reread, Listings

\* A step that begins or goes on with a call.
LEMMA TrackedMoves ==
  ASSUME Types, Tracked, NEW x \in Contexts, Begins(x) \/ GoesOn(x)
  PROVE  Tracked'
<1>1. PICK g : /\ Moved(x, g) /\ g.pc \notin {"sadd", "srem"}
               /\ g.pc = "write" => strings[g.ref] # None /\ strings[g.ref].kind = g.kind
               /\ g.verb = "PUT" => Puts # {} \/ g.verb = handler[x].verb
  BY DEF Begins, GoesOn
<1>2. /\ handler'[x] = g /\ UNCHANGED <<strings, sets>>
      /\ \A y \in Contexts : y # x => handler'[y] = handler[y]
  BY <1>1, OthersStay DEF Moved
<1>3. handler[x].pc # "sadd"
  BY DEF Begins, GoesOn, Closed, Replies
<1>4. Unput'
  BY <1>1, <1>2 DEF Tracked, Unput
<1>5. Emptied' /\ Reread'
  BY <1>1, <1>2 DEF Tracked, Emptied, Reread
<1>6. Listings'
  BY <1>2, <1>3 DEF Tracked, Listings, Inserting
<1> QED BY <1>4, <1>5, <1>6 DEF Tracked

\* A write.
LEMMA TrackedWrites ==
  ASSUME OwnRefs, Calm, Types, Orderly, Tracked, NEW x \in Contexts, Writes(x)
  PROVE  Tracked'
<1> DEFINE h == handler[x]
<1>1. h \in Handler /\ Staged(h) /\ strings \in [Refs -> Entity \cup {None}] /\ sets \in [Kinds -> SUBSET Refs]
  BY OpenCall
<1>2. ~Closed(x) /\ h.pc \in {"set", "sadd", "write", "del", "srem"} /\ h.pc \notin Replies
  BY DEF Writes, SetKey, AddMember, Write, DelKey, RemoveMember, Closed, Replies
<1>3. h.ref \in Refs /\ h.kind \in Kinds /\ h.ref \in Generated[h.kind]
  BY <1>1, <1>2 DEF Staged, Orderly, Owned
<1>4. h.pc \in {"set", "write"} => h.body \in Entity /\ h.body.kind = h.kind
  BY <1>1, <1>2 DEF Staged
<1>5. \A r \in Refs : strings[r] # None => strings[r].kind \in Kinds
  BY <1>1 DEF Entity
\* Where there are others, nobody updates.
<1>6. ASSUME NEW y \in Contexts, y # x
      PROVE  h.pc # "write" /\ handler[y].pc # "write"
  <2>1. handler[y].verb # "PUT" /\ h.verb # "PUT"
    BY <1>6 DEF Calm, SoleContext, Tracked, Unput
  <2> QED BY <2>1 DEF Types, Staged
<1>7. PICK g : /\ Become(x, g) /\ g.pc \in Replies \cup {"sadd", "srem"}
               /\ g.verb = h.verb
  <2>1. /\ \A pc : At(h, pc).pc = pc /\ At(h, pc).verb = h.verb
        /\ \A pc : Reply(h, pc).pc = pc /\ Reply(h, pc).verb = h.verb
    BY DEF At, Reply, Call
  <2>2. \/ \E pc \in {"sadd", "srem"} : Become(x, At(h, pc))
        \/ \E pc \in {"created", "updated", "notFound", "deleted"} : Become(x, Reply(h, pc))
    BY DEF Writes, SetKey, AddMember, Write, DelKey, RemoveMember
  <2> HIDE DEF h
  <2> QED BY <2>1, <2>2 DEF Replies
<1>8. handler'[x] = g /\ \A y \in Contexts : y # x => handler'[y] = handler[y]
  BY <1>7, OthersStay
<1>9. Unput'
  BY <1>7, <1>8 DEF Tracked, Unput
<1>10. CASE SetKey(x)
  <2>1. /\ h.pc = "set" /\ h.verb = "POST" /\ strings' = [strings EXCEPT ![h.ref] = h.body]
        /\ sets' = sets /\ handler'[x].pc = "sadd" /\ handler'[x].ref = h.ref
    BY <1>1, <1>10, OthersStay DEF SetKey, At, Call, Staged
  <2>2. \A y \in Contexts : y # x => handler[y].ref # h.ref
    BY <1>2, <2>1 DEF Orderly, Alone
  <2> HIDE DEF h
  <2>3. \A r \in Refs : r # h.ref => strings'[r] = strings[r]
    BY <1>1, <2>1
  <2>4. Emptied' /\ Reread'
    <3> SUFFICES ASSUME NEW y \in Contexts
                 PROVE  /\ handler'[y].pc = "srem" => strings'[handler'[y].ref] = None
                        /\ handler'[y].pc # "write"
      BY DEF Emptied, Reread
    <3>1. CASE y # x
      <4>1. handler[y].pc = "srem" => handler[y].ref \in Refs /\ strings[handler[y].ref] = None
        BY DEF Tracked, Emptied, Types, Staged, Replies
      <4> QED BY <1>6, <1>8, <2>2, <2>3, <3>1, <4>1
    <3>2. CASE y = x
      BY <2>1, <3>2
    <3> QED BY <3>1, <3>2
  <2>5. Listings'
    <3> SUFFICES ASSUME NEW r \in Refs, strings'[r] # None
                 PROVE  r \in sets'[strings'[r].kind] \/ Inserting(r)'
      BY DEF Listings
    <3>1. CASE r = h.ref
      BY <2>1, <3>1 DEF Inserting
    <3>2. CASE r # h.ref
      <4>1. r \in sets[strings[r].kind] \/ Inserting(r)
        BY <2>3, <3>2 DEF Tracked, Listings
      <4>2. Inserting(r) => Inserting(r)'
        BY <1>8, <2>1 DEF Inserting, h
      <4> QED BY <2>1, <2>3, <3>2, <4>1, <4>2
    <3> QED BY <3>1, <3>2
  <2> QED BY <1>9, <2>4, <2>5 DEF Tracked
<1>11. CASE AddMember(x)
  <2>1. /\ h.pc = "sadd" /\ sets' = [sets EXCEPT ![h.kind] = @ \cup {h.ref}] /\ strings' = strings
        /\ handler'[x].pc = "created"
    BY <1>11, OthersStay DEF AddMember, Reply, Call
  <2>2. strings[h.ref] # None => strings[h.ref].kind = h.kind
    BY <1>3, <1>5 DEF OwnRefs, Orderly, Owned
  <2>3. Emptied' /\ Reread'
    BY <1>8, <2>1 DEF Tracked, Emptied, Reread
  <2>4. \A r \in Refs : Inserting(r) => Inserting(r)' \/ r = h.ref
    BY <1>8 DEF Inserting
  <2> HIDE DEF h
  <2>5. Listings'
    <3> SUFFICES ASSUME NEW r \in Refs, strings[r] # None
                 PROVE  r \in sets'[strings[r].kind] \/ Inserting(r)'
      BY <2>1 DEF Listings
    <3>1. r \in sets[strings[r].kind] \/ Inserting(r)' \/ r = h.ref
      BY <2>4 DEF Tracked, Listings
    <3>2. strings[r].kind \in Kinds
      BY <1>5
    <3> QED BY <1>1, <1>3, <2>1, <2>2, <3>1, <3>2
  <2> QED BY <1>9, <2>3, <2>5 DEF Tracked
<1>12. CASE Write(x)
  <2>1. /\ h.pc = "write" /\ strings' = [strings EXCEPT ![h.ref] = h.body] /\ sets' = sets
        /\ handler'[x].pc = "updated"
    BY <1>12, OthersStay DEF Write, Reply, Call
  <2>2. \A y \in Contexts : y = x
    BY <1>6, <2>1
  <2>3. strings[h.ref] # None /\ strings[h.ref].kind = h.kind
    BY <2>1 DEF Tracked, Reread
  <2>4. \A r \in Refs : strings[r] # None => r \in sets[strings[r].kind]
    BY <2>1, <2>2 DEF Tracked, Listings, Inserting
  <2>5. Emptied' /\ Reread'
    BY <2>1, <2>2 DEF Emptied, Reread
  <2> HIDE DEF h
  <2>6. \A r \in Refs : strings'[r] # None => r \in sets'[strings'[r].kind]
    BY <1>1, <1>3, <1>4, <2>1, <2>3, <2>4
  <2> QED BY <1>9, <2>5, <2>6 DEF Tracked, Listings
<1>13. CASE DelKey(x)
  <2>1. /\ h.pc = "del" /\ strings' = [strings EXCEPT ![h.ref] = None] /\ sets' = sets
        /\ \/ handler'[x].pc = "srem" /\ handler'[x].ref = h.ref
           \/ handler'[x].pc = "notFound"
    BY <1>13, OthersStay DEF DelKey, At, Reply, Call
  <2>2. \A r \in Refs : Inserting(r) => Inserting(r)'
    BY <1>8, <2>1 DEF Inserting
  <2> HIDE DEF h
  <2>3. /\ strings'[h.ref] = None
        /\ \A r \in Refs : strings'[r] = strings[r] \/ strings'[r] = None
    BY <1>1, <1>3, <2>1
  <2>4. Emptied' /\ Reread'
    <3> SUFFICES ASSUME NEW y \in Contexts
                 PROVE  /\ handler'[y].pc = "srem" => strings'[handler'[y].ref] = None
                        /\ handler'[y].pc # "write"
      BY DEF Emptied, Reread
    <3>1. CASE y # x
      <4>1. handler[y].pc = "srem" => handler[y].ref \in Refs /\ strings[handler[y].ref] = None
        BY DEF Tracked, Emptied, Types, Staged, Replies
      <4> QED BY <1>6, <1>8, <2>3, <3>1, <4>1
    <3>2. CASE y = x
      BY <2>1, <2>3, <3>2
    <3> QED BY <3>1, <3>2
  <2>5. Listings'
    <3> SUFFICES ASSUME NEW r \in Refs, strings'[r] # None
                 PROVE  r \in sets'[strings'[r].kind] \/ Inserting(r)'
      BY DEF Listings
    <3>1. strings'[r] = strings[r]
      BY <2>3
    <3>2. r \in sets[strings[r].kind] \/ Inserting(r)
      BY <3>1 DEF Tracked, Listings
    <3> QED BY <2>1, <2>2, <3>1, <3>2
  <2> QED BY <1>9, <2>4, <2>5 DEF Tracked
<1>14. CASE RemoveMember(x)
  <2>1. /\ h.pc = "srem" /\ sets' = [sets EXCEPT ![h.kind] = @ \ {h.ref}] /\ strings' = strings
        /\ handler'[x].pc \in {"deleted", "notFound"}
    BY <1>14, OthersStay DEF RemoveMember, Reply, Call
  <2>2. strings[h.ref] = None
    BY <2>1 DEF Tracked, Emptied
  <2>3. \A r \in Refs : Inserting(r) => Inserting(r)'
    BY <1>8, <2>1 DEF Inserting
  <2>4. Emptied' /\ Reread'
    BY <1>8, <2>1 DEF Tracked, Emptied, Reread
  <2> HIDE DEF h
  <2>5. Listings'
    <3> SUFFICES ASSUME NEW r \in Refs, strings[r] # None
                 PROVE  r \in sets'[strings[r].kind] \/ Inserting(r)'
      BY <2>1 DEF Listings
    <3>1. r # h.ref /\ (r \in sets[strings[r].kind] \/ Inserting(r)) /\ strings[r].kind \in Kinds
      BY <1>5, <2>2 DEF Tracked, Listings
    <3> QED BY <1>1, <1>3, <2>1, <2>3, <3>1
  <2> QED BY <1>9, <2>4, <2>5 DEF Tracked
<1> QED BY <1>10, <1>11, <1>12, <1>13, <1>14 DEF Writes

Track == mishaps = 0 => Orderly /\ Tracked

\* Every step keeps track.
LEMMA TrackStep == OwnRefs /\ Calm /\ Types /\ Track /\ [Next]_vars => Track'
<1> SUFFICES ASSUME OwnRefs, Calm, Types, Track, [Next]_vars, mishaps' = 0
             PROVE  Orderly' /\ Tracked'
  BY DEF Track
<1>1. StepKinds
  BY TypesStep, NextKinds
<1>2. Orderly'
  BY OrderStep DEF Order, Track
<1>3. Orderly /\ Tracked
  BY MishapsStay DEF Track
<1>4. CASE UNCHANGED <<strings, sets, handler>>
  <2>1. strings' = strings /\ sets' = sets /\ handler' = handler
    BY <1>4
  <2> QED BY <1>2, <1>3, <2>1 DEF Tracked, Unput, Emptied, Reread, Listings, Inserting
<1> QED BY <1>1, <1>2, <1>3, <1>4, TrackedMoves, TrackedWrites DEF StepKinds

(***************************************************************************)
(* With one replica, or with any number of them that create and delete but *)
(* do not update, what the collections list is, between calls, exactly     *)
(* what is stored, each entity in the collection of its kind.              *)
(***************************************************************************)
THEOREM ListsMatch == ASSUME OwnRefs, Calm PROVE Spec => []ListsMatchKeys
<1>1. Init => Track
  BY TrackedInit, OrderlyInit DEF Track
<1>2. Types /\ Track /\ [Next]_vars => Track'
  BY TrackStep
<1>3. Types /\ Track => ListsMatchKeys
  <2> SUFFICES ASSUME Types, Track, Quiet
               PROVE  /\ \A k \in Kinds : sets[k] = Listed(k)
                      /\ \A r \in Refs : strings[r] # None => r \in sets[strings[r].kind]
    BY DEF ListsMatchKeys
  <2>1. /\ Orderly /\ Tracked
        /\ \A x \in Contexts : handler[x].pc \notin {"sadd", "srem"}
    BY DEF Track, Quiet, Closed, Replies
  <2>2. /\ \A r \in Refs : strings[r] # None => strings[r].kind \in Kinds
        /\ \A k \in Kinds : sets[k] \subseteq Refs
    BY DEF Types, TypeOK, Entity
  <2>3. \A r \in Refs : strings[r] # None => r \in sets[strings[r].kind]
    BY <2>1 DEF Tracked, Listings, Inserting
  <2>4. ASSUME NEW k \in Kinds, NEW r \in sets[k] PROVE strings[r] # None /\ strings[r].kind = k
    <3>1. strings[r] # None /\ r \in Refs
      BY <2>1, <2>2 DEF Orderly, Backed, Removing
    <3>2. r \in Generated[k] \cap Generated[strings[r].kind]
      BY <2>1, <3>1 DEF Orderly, Owned
    <3> QED BY <2>2, <3>1, <3>2 DEF OwnRefs
  <2>5. \A k \in Kinds : sets[k] = Listed(k)
    BY <2>2, <2>3, <2>4 DEF Listed
  <2> QED BY <2>3, <2>5
<1> QED BY <1>1, <1>2, <1>3, TypesAlways, PTL DEF Spec

-----------------------------------------------------------------------------
(* Any number of replicas, with failures: the data source as Accounts      *)
(* takes it to be.                                                         *)

\* A call has a ref of its own collection to write.
Owns(h) ==
  h.pc \notin Replies /\ (h.verb \in {"POST", "DELETE"} \/ h.pc = "write")
    => h.ref \in Generated[h.kind]

\* What one step of x is to the data source, and what it is if x fails.
Drives(x) == Store!Write(x) \/ UNCHANGED <<strings, sets, Seconds>>
Breaks(x) == Drives(x) \/ Store!Break(x)

Twofold == {"sadd", "srem", "write"}

LEMMA SecondIs ==
  ASSUME NEW h
  PROVE  /\ h.pc = "sadd" => Second(h) = [cmd |-> "SADD", ref |-> h.ref]
         /\ h.pc = "srem" => Second(h) = [cmd |-> "SREM", ref |-> h.ref]
         /\ h.pc = "write" => Second(h) = [cmd |-> "SET", ref |-> h.ref]
         /\ h.pc \notin Twofold => Second(h) = None
BY DEF Second, Twofold

LEMMA SecondsAfter ==
  ASSUME Types, NEW x \in Contexts, NEW g, Become(x, g)
  PROVE  /\ Seconds[x] = Second(handler[x])
         /\ Seconds' = [Seconds EXCEPT ![x] = Second(g)]
<1>1. handler' = [handler EXCEPT ![x] = g] /\ handler \in [Contexts -> Handler]
  BY DEF Become, Types, TypeOK
<1>2. \A y \in Contexts : handler'[y] = IF y = x THEN g ELSE handler[y]
  BY <1>1
<1>3. Seconds' = [y \in Contexts |-> Second(handler'[y])]
  BY DEF Seconds, Second
<1>4. [Seconds EXCEPT ![x] = Second(g)] =
        [y \in Contexts |-> IF y = x THEN Second(g) ELSE Second(handler[y])]
  BY DEF Seconds
<1>5. Seconds[x] = Second(handler[x])
  BY DEF Seconds
<1> HIDE DEF Seconds
<1> QED BY <1>2, <1>3, <1>4, <1>5

\* A ref that was generated for a collection is at home there.
LEMMA HomeIs ==
  ASSUME OwnRefs, NEW k \in Kinds, NEW r \in Generated[k]
  PROVE  Home[r] = k /\ r \in Refs
<1>1. r \in Refs
  BY GeneratedAssumption
<1>2. \A l \in Kinds : r \in Generated[l] => l = k
  BY DEF OwnRefs
<1>3. (CHOOSE l \in Kinds : r \in Generated[l]) = k
  BY <1>2
<1> QED BY <1>1, <1>3 DEF Home

\* A step that writes nothing awaits nothing, unless a PUT has read its entity.
LEMMA MovesDrive ==
  ASSUME Types, NEW x \in Contexts, NEW g, Moved(x, g), handler[x].pc \notin Twofold,
         g.pc \notin {"sadd", "srem"},
         g.pc = "write" => g.ref \in Refs /\ strings[g.ref] # None
  PROVE  Drives(x)
<1>1. Seconds[x] = None /\ Seconds' = [Seconds EXCEPT ![x] = Second(g)]
  BY SecondIs, SecondsAfter DEF Moved
<1>2. CASE g.pc = "write"
  <2>1. Store!Read(x, g.ref)
    BY <1>1, <1>2, SecondIs DEF Store!Read, Store!Await, Moved
  <2> QED BY <1>2, <2>1 DEF Drives, Store!Write
<1>3. CASE g.pc # "write"
  <2>1. Second(g) = None
    BY <1>3, SecondIs DEF Twofold
  <2>2. Seconds' = Seconds
    BY <1>1, <2>1 DEF Seconds
  <2> QED BY <2>2 DEF Drives, Moved
<1> QED BY <1>2, <1>3

\* What Owned needs of one step: calls that own their refs, and entities and
\* listings at home.
LEMMA OwnedStays ==
  ASSUME Types, Owned, NEW x \in Contexts, NEW g, Become(x, g), Owns(g),
         \A r \in Refs : strings'[r] # None =>
           strings'[r] = strings[r] \/ r \in Generated[strings'[r].kind],
         \A k \in Kinds : sets'[k] \subseteq sets[k] \cup Generated[k]
  PROVE  Owned'
<1>1. handler'[x] = g /\ \A y \in Contexts : y # x => handler'[y] = handler[y]
  BY OthersStay
<1>2. \A y \in Contexts : Owns(handler[y])
  BY DEF Owned, Owns, Closed
<1>3. \A y \in Contexts : Owns(handler'[y])
  <2> SUFFICES ASSUME NEW y \in Contexts PROVE Owns(handler'[y])
    OBVIOUS
  <2>1. CASE y = x
    BY <1>1, <2>1
  <2>2. CASE y # x
    BY <1>1, <1>2, <2>2
  <2> QED BY <2>1, <2>2
<1>4. \A r \in Refs : strings'[r] # None => r \in Generated[strings'[r].kind]
  <2> SUFFICES ASSUME NEW r \in Refs, strings'[r] # None PROVE r \in Generated[strings'[r].kind]
    OBVIOUS
  <2>1. CASE strings'[r] = strings[r]
    <3>1. r \in Generated[strings[r].kind]
      BY <2>1 DEF Owned
    <3> QED BY <2>1, <3>1
  <2> QED BY <2>1
<1>5. \A k \in Kinds : sets'[k] \subseteq Generated[k]
  BY DEF Owned
<1> QED BY <1>3, <1>4, <1>5 DEF Owned, Owns, Closed

\* A step that writes nothing keeps what is owned.
LEMMA OwnedMoves ==
  ASSUME Types, Owned, NEW x \in Contexts, NEW g, Moved(x, g), Owns(g)
  PROVE  Owned'
<1>1. strings' = strings /\ sets' = sets
  BY DEF Moved
<1>2. /\ \A r \in Refs : strings'[r] # None =>
           strings'[r] = strings[r] \/ r \in Generated[strings'[r].kind]
      /\ \A k \in Kinds : sets'[k] \subseteq sets[k] \cup Generated[k]
  BY <1>1
<1> QED BY <1>2, OwnedStays DEF Moved

\* A new call.
LEMMA BeginDrives ==
  ASSUME Types, Owned, NEW x \in Contexts, Begins(x)
  PROVE  Drives(x) /\ Owned'
<1>1. PICK g \in Handler :
        /\ Moved(x, g) /\ g.pc \notin {"sadd", "srem", "write"}
        /\ \/ g.pc \in Replies
           \/ g.verb \in {"POST", "DELETE"} /\ g.ref \in Generated[g.kind]
           \/ g.verb = "PUT"
  BY DEF Begins, Refusals, Replies
<1>2. handler[x].pc \notin Twofold
  BY DEF Begins, Closed, Replies, Twofold
<1>3. Owns(g)
  BY <1>1 DEF Owns
<1> QED BY <1>1, <1>2, <1>3, MovesDrive, OwnedMoves

\* A call that goes on, or is replied to.
LEMMA GoingDrives ==
  ASSUME Types, Owned, NEW x \in Contexts, GoesOn(x)
  PROVE  Drives(x) /\ Owned'
<1> DEFINE h == handler[x]
<1>1. PICK g \in Handler :
        /\ Moved(x, g) /\ Staged(g) /\ g.pc \notin {"sadd", "srem"}
        /\ \/ g.pc \in Replies
           \/ g.verb = h.verb /\ g.kind = h.kind /\ g.ref = h.ref
        /\ g.pc = "write" => strings[g.ref] # None /\ strings[g.ref].kind = g.kind
  BY DEF GoesOn, Refusals, Replies
<1>2. h.pc \notin Twofold /\ h.pc \notin Replies
  BY DEF GoesOn, Closed, Twofold
<1>3. g.pc \notin Replies => g.ref \in Refs
  BY <1>1 DEF Staged
<1>4. Owns(g)
  <2> SUFFICES ASSUME g.pc \notin Replies, g.verb \in {"POST", "DELETE"} \/ g.pc = "write"
               PROVE  g.ref \in Generated[g.kind]
    BY DEF Owns
  <2>1. CASE g.pc = "write"
    <3>1. g.ref \in Generated[strings[g.ref].kind] /\ strings[g.ref].kind = g.kind
      BY <1>1, <1>3, <2>1 DEF Owned
    <3> QED BY <3>1
  <2>2. CASE g.pc # "write"
    BY <1>1, <1>2, <2>2 DEF Owned, Closed
  <2> QED BY <2>1, <2>2
<1>5. g.pc = "write" => g.ref \in Refs /\ strings[g.ref] # None
  BY <1>1, <1>3 DEF Replies
<1> QED BY <1>1, <1>2, <1>4, <1>5, MovesDrive, OwnedMoves

\* A key that is set, by a call that goes on to SADD or is over, or deleted.
LEMMA KeyDrives ==
  ASSUME OwnRefs, Types, Owned, NEW x \in Contexts, NEW g, NEW e, Become(x, g), Owns(g),
         strings' = [strings EXCEPT ![handler[x].ref] = e], sets' = sets,
         \/ /\ handler[x].pc = "set" /\ e = handler[x].body
            /\ (g.pc = "sadd" /\ g.ref = handler[x].ref) \/ g.pc \notin Twofold
         \/ handler[x].pc = "write" /\ e = handler[x].body /\ g.pc \notin Twofold
         \/ /\ handler[x].pc = "del" /\ e = None
            /\ \/ g.pc = "srem" /\ g.ref = handler[x].ref /\ strings[handler[x].ref] # None
               \/ g.pc \notin Twofold
  PROVE  /\ Breaks(x) /\ Owned'
         /\ handler[x].pc = "write" \/ g.pc \in Twofold => Drives(x)
<1> DEFINE h == handler[x]
           r == h.ref
<1>1. h.pc \in {"set", "write", "del"} /\ h.pc \notin Replies
  BY DEF Replies
<1>2. h \in Handler /\ Staged(h) /\ strings \in [Refs -> Entity \cup {None}]
  BY DEF Types, TypeOK
<1>3. /\ r \in Refs /\ h.kind \in Kinds
      /\ h.pc = "set" => h.verb = "POST"
      /\ h.pc = "del" => h.verb = "DELETE"
      /\ h.pc \in {"set", "write"} => h.body \in Entity /\ h.body.kind = h.kind
  BY <1>1, <1>2 DEF Staged
<1>4. r \in Generated[h.kind]
  BY <1>1, <1>3 DEF Owned, Closed
<1>5. h.pc \in {"set", "write"} => h.body \in Fits[r]
  BY <1>3, <1>4 DEF Fits, Entity
<1>6. /\ Seconds[x] = Second(h) /\ Seconds' = [Seconds EXCEPT ![x] = Second(g)]
      /\ Seconds \in [Contexts -> {Second(handler[y]) : y \in Contexts}]
  BY SecondsAfter DEF Seconds
<1>7. Breaks(x) /\ (h.pc = "write" \/ g.pc \in Twofold => Drives(x))
  <2>1. CASE h.pc = "set" /\ g.pc = "sadd" /\ g.ref = r
    <3>1. Store!Await(x, "SADD", r)
      BY <1>6, <2>1, SecondIs DEF Store!Await, Twofold
    <3>2. Store!Insert(x, r)
      BY <1>1, <1>5, <2>1, <3>1 DEF Store!Insert, Store!Put
    <3> QED BY <1>3, <3>2 DEF Breaks, Drives, Store!Write
  <2>2. CASE h.pc \in {"set", "del"} /\ g.pc \notin Twofold
    <3>1. Second(h) = None /\ Second(g) = None
      BY <2>2, SecondIs DEF Twofold
    <3>2. Seconds[x] = None /\ Seconds' = Seconds
      BY <1>6, <3>1
    <3>3. e \in Fits[r] \cup {None}
      BY <1>5, <2>2
    <3>4. Store!Half(x, r)
      BY <3>2, <3>3 DEF Store!Half, Store!Put
    <3> QED BY <1>3, <2>2, <3>4 DEF Breaks, Store!Break
  <2>3. CASE h.pc = "write" /\ g.pc \notin Twofold
    <3>1. /\ Seconds[x] = [cmd |-> "SET", ref |-> r]
          /\ Seconds' = [Seconds EXCEPT ![x] = None]
      BY <1>6, <2>3, SecondIs
    <3>2. Store!Awaits(x, {"SET"}) /\ Store!Settle(x) /\ Seconds[x].ref = r
      BY <1>3, <3>1 DEF Store!Awaits, Store!Settle
    <3>3. e \in Fits[r]
      BY <1>5, <2>3
    <3>4. Store!Update(x)
      BY <3>2, <3>3 DEF Store!Update, Store!Put
    <3> QED BY <3>4 DEF Breaks, Drives, Store!Write
  <2>4. CASE h.pc = "del" /\ g.pc = "srem" /\ g.ref = r /\ strings[r] # None
    <3>1. Store!Await(x, "SREM", r)
      BY <1>6, <2>4, SecondIs DEF Store!Await, Twofold
    <3>2. Store!Remove(x, r)
      BY <2>4, <3>1 DEF Store!Remove, Store!Put
    <3> QED BY <1>3, <3>2 DEF Breaks, Drives, Store!Write
  <2> QED BY <2>1, <2>2, <2>3, <2>4
<1>8. \A q \in Refs : strings'[q] # None =>
        strings'[q] = strings[q] \/ q \in Generated[strings'[q].kind]
  <2> SUFFICES ASSUME NEW q \in Refs, strings'[q] # None, strings'[q] # strings[q]
               PROVE  q \in Generated[strings'[q].kind]
    OBVIOUS
  <2>1. q = r /\ strings'[q] = e
    BY <1>2, <1>3
  <2>2. e = h.body /\ h.pc \in {"set", "write"}
    BY <2>1
  <2>3. strings'[q].kind = h.kind
    BY <1>3, <2>1, <2>2
  <2> QED BY <1>4, <2>1, <2>3
<1>9. \A k \in Kinds : sets'[k] \subseteq sets[k] \cup Generated[k]
  OBVIOUS
<1> QED BY <1>7, <1>8, <1>9, OwnedStays

\* A ref that is listed or no longer, by a call that is over.
LEMMA MemberDrives ==
  ASSUME OwnRefs, Types, Owned, NEW x \in Contexts, NEW g, Become(x, g), g.pc \in Replies,
         strings' = strings,
         \/ /\ handler[x].pc = "sadd"
            /\ sets' = [sets EXCEPT ![handler[x].kind] = @ \cup {handler[x].ref}]
         \/ /\ handler[x].pc = "srem"
            /\ sets' = [sets EXCEPT ![handler[x].kind] = @ \ {handler[x].ref}]
  PROVE  Drives(x) /\ Owned'
<1> DEFINE h == handler[x]
           r == h.ref
<1>1. h.pc \in {"sadd", "srem"} /\ h.pc \notin Replies
  BY DEF Replies
<1>2. h \in Handler /\ Staged(h) /\ sets \in [Kinds -> SUBSET Refs]
  BY DEF Types, TypeOK
<1>3. /\ r \in Refs /\ h.kind \in Kinds /\ h.verb \in {"POST", "DELETE"}
  BY <1>1, <1>2 DEF Staged
<1>4. r \in Generated[h.kind]
  BY <1>1, <1>3 DEF Owned, Closed
<1>5. Home[r] = h.kind
  BY <1>3, <1>4, HomeIs
<1>6. Second(g) = None
  BY SecondIs DEF Twofold, Replies
<1>7. Seconds' = [Seconds EXCEPT ![x] = None]
  BY <1>6, SecondsAfter
<1>8. Drives(x)
  <2>1. CASE h.pc = "sadd"
    <3>1. Seconds[x] = [cmd |-> "SADD", ref |-> r]
      BY <2>1, SecondIs, SecondsAfter
    <3>2. /\ Store!Awaits(x, {"SADD", "SREM"}) /\ Store!Settle(x)
          /\ Seconds[x].ref = r /\ Seconds[x].cmd = "SADD"
      BY <1>3, <1>7, <3>1 DEF Store!Awaits, Store!Settle
    <3>3. sets' = [sets EXCEPT ![Home[r]] = @ \cup {r}]
      BY <1>5, <2>1
    <3> HIDE DEF r
    <3>4. Store!Finish(x)
      BY <3>2, <3>3 DEF Store!Finish
    <3> QED BY <3>4 DEF Drives, Store!Write
  <2>2. CASE h.pc = "srem"
    <3>1. Seconds[x] = [cmd |-> "SREM", ref |-> r]
      BY <2>2, SecondIs, SecondsAfter
    <3>2. /\ Store!Awaits(x, {"SADD", "SREM"}) /\ Store!Settle(x)
          /\ Seconds[x].ref = r /\ Seconds[x].cmd = "SREM"
      BY <1>3, <1>7, <3>1 DEF Store!Awaits, Store!Settle
    <3>3. sets' = [sets EXCEPT ![Home[r]] = @ \ {r}]
      BY <1>5, <2>2
    <3> HIDE DEF r
    <3>4. Store!Finish(x)
      BY <3>2, <3>3 DEF Store!Finish
    <3> QED BY <3>4 DEF Drives, Store!Write
  <2> QED BY <1>1, <2>1, <2>2
<1>9. \A k \in Kinds : sets'[k] \subseteq sets[k] \cup Generated[k]
  BY <1>2, <1>3, <1>4
<1>10. Owns(g)
  BY DEF Owns
<1> QED BY <1>8, <1>9, <1>10, OwnedStays

\* The replies end what a call awaits.
LEMMA RepliesEnd ==
  \A h, pc : pc \in Replies =>
    /\ Reply(h, pc).pc = pc /\ Reply(h, pc).pc \notin Twofold
    /\ Owns(Reply(h, pc))
BY DEF Reply, Call, Twofold, Replies, Owns

\* A write that is carried out and answered.
LEMMA WriteDrives ==
  ASSUME OwnRefs, Types, Owned, NEW x \in Contexts, Writes(x)
  PROVE  Drives(x) /\ Owned'
<1> DEFINE h == handler[x]
<1>1. h.pc \notin Replies => h.ref \in Refs /\ h.kind \in Kinds
  BY DEF Types, TypeOK, Staged
<1>2. CASE SetKey(x)
  <2> DEFINE g == At(h, "sadd")
  <2>1. g.pc = "sadd" /\ g.ref = h.ref /\ g.kind = h.kind /\ g.verb = h.verb
    BY DEF At, Call
  <2>2. /\ h.pc = "set" /\ Become(x, g) /\ sets' = sets
        /\ strings' = [strings EXCEPT ![h.ref] = h.body]
    BY <1>2 DEF SetKey
  <2>3. Owns(g)
    BY <2>1, <2>2 DEF Owns, Owned, Closed, Types, Staged, Replies
  <2> HIDE DEF g
  <2> QED BY <2>1, <2>2, <2>3, KeyDrives DEF Twofold
<1>3. CASE Write(x)
  <2>1. /\ h.pc = "write" /\ Become(x, Reply(h, "updated")) /\ sets' = sets
        /\ strings' = [strings EXCEPT ![h.ref] = h.body]
    BY <1>3 DEF Write
  <2>2. Reply(h, "updated").pc \notin Twofold /\ Owns(Reply(h, "updated"))
    BY RepliesEnd DEF Replies
  <2> QED BY <2>1, <2>2, KeyDrives
<1>4. CASE DelKey(x) /\ strings[h.ref] # None
  <2> DEFINE g == At(h, "srem")
  <2>1. g.pc = "srem" /\ g.ref = h.ref /\ g.kind = h.kind /\ g.verb = h.verb
    BY DEF At, Call
  <2>2. /\ h.pc = "del" /\ Become(x, g) /\ sets' = sets
        /\ strings' = [strings EXCEPT ![h.ref] = None]
    BY <1>4 DEF DelKey
  <2>3. Owns(g)
    BY <2>1, <2>2 DEF Owns, Owned, Closed, Types, Staged, Replies
  <2> HIDE DEF g
  <2> QED BY <1>4, <2>1, <2>2, <2>3, KeyDrives DEF Twofold
<1>5. CASE DelKey(x) /\ strings[h.ref] = None
  <2>1. h.pc = "del" /\ h.pc \notin Replies /\ sets' = sets
    BY <1>5 DEF DelKey, Replies
  <2>2. strings' = [strings EXCEPT ![h.ref] = None] /\ Become(x, Reply(h, "notFound"))
    BY <1>5 DEF DelKey
  <2>3. strings \in [Refs -> Entity \cup {None}] /\ h.ref \in Refs
    BY <1>1, <2>1 DEF Types, TypeOK
  <2>4. strings' = strings
    BY <1>5, <2>2, <2>3
  <2>5. Reply(h, "notFound").pc = "notFound" /\ Owns(Reply(h, "notFound"))
    BY RepliesEnd DEF Replies
  <2>6. Moved(x, Reply(h, "notFound")) /\ h.pc \notin Twofold
    BY <2>1, <2>2, <2>4 DEF Moved, Twofold
  <2> QED BY <2>5, <2>6, MovesDrive, OwnedMoves
<1>6. CASE AddMember(x)
  <2>1. /\ h.pc = "sadd" /\ Become(x, Reply(h, "created")) /\ strings' = strings
        /\ sets' = [sets EXCEPT ![h.kind] = @ \cup {h.ref}]
    BY <1>6 DEF AddMember
  <2>2. Reply(h, "created").pc \in Replies
    BY RepliesEnd DEF Replies
  <2> QED BY <2>1, <2>2, MemberDrives
<1>7. CASE RemoveMember(x)
  <2>1. PICK pc \in {"deleted", "notFound"} : Become(x, Reply(h, pc))
    BY <1>7 DEF RemoveMember
  <2>2. /\ h.pc = "srem" /\ strings' = strings
        /\ sets' = [sets EXCEPT ![h.kind] = @ \ {h.ref}]
    BY <1>7 DEF RemoveMember
  <2>3. Reply(h, pc).pc \in Replies
    BY RepliesEnd DEF Replies
  <2> QED BY <2>1, <2>2, <2>3, MemberDrives
<1> QED BY <1>2, <1>3, <1>4, <1>5, <1>6, <1>7 DEF Writes

\* A call that ends without another command: nothing more is to follow.
LEMMA EndsDrive ==
  ASSUME Types, Owned, NEW x \in Contexts, NEW g, Moved(x, g), g.pc \in Replies
  PROVE  Breaks(x) /\ Owned'
<1>1. Second(g) = None /\ Owns(g)
  BY SecondIs DEF Twofold, Replies, Owns
<1>2. /\ Seconds[x] = Second(handler[x]) /\ Seconds' = [Seconds EXCEPT ![x] = None]
  BY <1>1, SecondsAfter DEF Moved
<1>3. CASE handler[x].pc \in Twofold
  <2>1. handler[x].ref \in Refs
    BY <1>3 DEF Types, Staged, Twofold, Replies
  <2>2. Second(handler[x]) \in [cmd : {"SADD", "SREM", "SET"}, ref : Refs]
    BY <1>3, <2>1, SecondIs DEF Twofold
  <2>3. Store!Lose(x)
    BY <1>2, <2>2 DEF Store!Lose, Store!Command, Store!Settle, Moved
  <2> QED BY <1>1, <2>3, OwnedMoves DEF Breaks, Store!Break
<1>4. CASE handler[x].pc \notin Twofold
  BY <1>1, <1>4, MovesDrive, OwnedMoves DEF Breaks, Replies
<1> QED BY <1>3, <1>4

\* A write that fails, before or after Redis has carried it out.
LEMMA WriteFailsDrives ==
  ASSUME OwnRefs, Types, Owned, NEW x \in Contexts, WriteFails(x)
  PROVE  Breaks(x) /\ Owned'
<1> DEFINE h == handler[x]
           g == Reply(h, "failed")
<1>1. g.pc \in Replies /\ g.pc \notin Twofold /\ Owns(g)
  BY RepliesEnd DEF Replies
<1>2. Become(x, g)
  BY DEF WriteFails
<1> HIDE DEF g
<1>3. CASE strings' = strings /\ sets' = sets
  BY <1>1, <1>2, <1>3, EndsDrive DEF Moved
<1>4. CASE strings' # strings
  <2>1. /\ h.pc \in {"set", "write", "del"} /\ sets' = sets
        /\ \/ h.pc \in {"set", "write"} /\ strings' = [strings EXCEPT ![h.ref] = h.body]
           \/ h.pc = "del" /\ strings' = [strings EXCEPT ![h.ref] = None]
    BY <1>4 DEF WriteFails
  <2> QED BY <1>1, <1>2, <2>1, KeyDrives
<1>5. CASE sets' # sets
  <2>1. /\ strings' = strings
        /\ \/ h.pc = "sadd" /\ sets' = [sets EXCEPT ![h.kind] = @ \cup {h.ref}]
           \/ h.pc = "srem" /\ sets' = [sets EXCEPT ![h.kind] = @ \ {h.ref}]
    BY <1>5 DEF WriteFails
  <2> QED BY <1>1, <1>2, <2>1, MemberDrives DEF Breaks
<1> QED BY <1>3, <1>4, <1>5

\* Whatever fails.
LEMMA MishapDrives ==
  ASSUME OwnRefs, Types, Owned, NEW x \in Contexts,
         FindFails(x) \/ GetFails(x) \/ WriteFails(x) \/ Restart(x)
  PROVE  Breaks(x) /\ Owned'
<1> DEFINE h == handler[x]
<1>1. h \in Handler /\ Staged(h)
  BY DEF Types, TypeOK
<1>2. CASE FindFails(x)
  <2> DEFINE g == [h EXCEPT !.listed = TRUE, !.todo = {}, !.hits = {}, !.broken = FALSE]
  <2>1. h.pc \in Finds /\ Moved(x, g)
    BY <1>2 DEF FindFails, Moved
  <2>2. g.pc = h.pc /\ g.verb = h.verb /\ g.kind = h.kind /\ g.ref = h.ref
    BY <1>1 DEF Handler
  <2> HIDE DEF g
  <2>3. h.pc \notin Twofold \cup Replies
    BY <2>1 DEF Finds, Twofold, Replies
  <2>4. Owns(g)
    BY <2>2, <2>3 DEF Owned, Owns, Closed, Twofold
  <2> QED BY <2>1, <2>2, <2>3, <2>4, MovesDrive, OwnedMoves DEF Breaks, Twofold
<1>3. CASE GetFails(x)
  <2>1. h.pc \in {"dependency", "read", "invalidate"} /\ h.pc \notin Twofold \cup Replies
    BY <1>3 DEF GetFails, Twofold, Replies
  <2>2. \/ \E pc \in {"unfulfilled", "invalid", "failed"} : Moved(x, Reply(h, pc))
        \/ h.pc = "invalidate" /\ \E pc \in {"searchDependents", "read"} : Moved(x, At(h, pc))
    BY <1>1, <1>3, <2>1 DEF GetFails, Moved, Staged
  <2>3. ASSUME NEW pc \in {"unfulfilled", "invalid", "failed"}, Moved(x, Reply(h, pc))
        PROVE  Breaks(x) /\ Owned'
    BY <2>3, RepliesEnd, EndsDrive DEF Replies
  <2>4. ASSUME NEW pc \in {"searchDependents", "read"}, Moved(x, At(h, pc)), h.pc = "invalidate"
        PROVE  Breaks(x) /\ Owned'
    <3> DEFINE g == At(h, pc)
    <3>1. g.pc = pc /\ g.verb = h.verb /\ g.kind = h.kind /\ g.ref = h.ref
      BY DEF At, Call
    <3>2. Moved(x, g)
      BY <2>4
    <3> HIDE DEF g
    <3>3. Owns(g)
      BY <2>1, <3>1 DEF Owned, Owns, Closed
    <3> QED BY <2>1, <3>1, <3>2, <3>3, MovesDrive, OwnedMoves DEF Breaks
  <2> QED BY <2>2, <2>3, <2>4
<1>4. CASE Restart(x)
  <2>1. Moved(x, Idle) /\ Idle.pc \in Replies
    BY <1>4 DEF Restart, Moved, Idle, Call, Replies
  <2> QED BY <2>1, EndsDrive
<1> QED BY <1>2, <1>3, <1>4, WriteFailsDrives

\* What no call does leaves the data source alone.
LEMMA IdleDrives ==
  ASSUME Owned, UNCHANGED <<strings, sets, handler>>
  PROVE  UNCHANGED <<strings, sets, Seconds>> /\ Owned'
BY DEF Owned, Closed, Seconds, Second

\* Every step is one of the data source or none, and breaks nothing off
\* unless something fails.
LEMMA StepDrives ==
  ASSUME OwnRefs, Types, Types', Owned, [Next]_vars
  PROVE  /\ [Store!Next]_<<strings, sets, Seconds>> /\ Owned'
         /\ mishaps' = mishaps => Unbroken
<1> DEFINE Goal == /\ [Store!Next]_<<strings, sets, Seconds>>
                   /\ mishaps' = mishaps => Unbroken
<1>1. ASSUME NEW x \in Contexts, Drives(x) PROVE Goal
  BY <1>1 DEF Drives, Unbroken, Store!Next
<1>2. ASSUME NEW x \in Contexts, Breaks(x), mishaps' # mishaps PROVE Goal
  BY <1>1, <1>2 DEF Breaks, Store!Next
<1>3. CASE UNCHANGED <<strings, sets, handler>>
  BY <1>3, IdleDrives DEF Unbroken
<1> HIDE DEF Goal
<1>4. ASSUME NEW x \in Contexts, Request(x) PROVE Goal /\ Owned'
  BY <1>1, <1>4, RequestBegins, BeginDrives
<1>5. ASSUME NEW x \in Contexts, Proceed(x) PROVE Goal /\ Owned'
  BY <1>1, <1>5, ProceedKinds, GoingDrives, WriteDrives
<1>6. CASE Mishap
  <2>1. PICK x \in Contexts : FindFails(x) \/ GetFails(x) \/ WriteFails(x) \/ Restart(x)
    BY <1>6 DEF Mishap
  <2>2. mishaps \in Nat /\ mishaps' = mishaps + 1
    BY <1>6, MishapsAssumption DEF Mishap, Types, TypeOK
  <2>3. mishaps' # mishaps
    BY <2>2
  <2>4. Breaks(x) /\ Owned'
    BY <2>1, MishapDrives
  <2> QED BY <1>2, <2>3, <2>4 DEF Goal
<1>7. CASE (\E x \in Contexts, kind \in Kinds, key \in Keys : Expire(x, kind, key)) \/ UNCHANGED vars
  <2>1. UNCHANGED <<strings, sets, handler>>
    BY <1>7 DEF Expire, vars
  <2> QED BY <1>3, <2>1, IdleDrives DEF Goal
<1> QED BY <1>3, <1>4, <1>5, <1>6, <1>7 DEF Next, Goal

(***************************************************************************)
(* However many replicas create, update and delete at once, whatever       *)
(* command of theirs fails and whichever of them restarts in the middle of *)
(* a call, the REST side does to the data source only what module          *)
(* EntityStore allows, and leaves nothing undone there unless something    *)
(* fails: the theorems of Accounts about the lookups of the SIP side are   *)
(* about a data source that this code writes.                              *)
(***************************************************************************)
THEOREM StoreImplemented == ASSUME OwnRefs PROVE Spec => ImplementsEntityStore
<1>1. Init => Owned /\ Store!Init
  <2> SUFFICES ASSUME Init PROVE Owned /\ Store!Init
    OBVIOUS
  <2>1. Owned
    BY OrderlyInit DEF Orderly
  <2>2. \A x \in Contexts : Second(handler[x]) = None
    BY SecondIs DEF Init, Idle, Call, Twofold
  <2> QED BY <2>1, <2>2 DEF Init, Store!Init, Seconds
<1>2. Types /\ Types' /\ Owned /\ [Next]_vars
        => /\ [Store!Next]_<<strings, sets, Seconds>> /\ Owned'
           /\ [mishaps' = mishaps => Unbroken]_vars
  BY StepDrives
<1> QED BY <1>1, <1>2, TypesAlways, PTL DEF Spec, ImplementsEntityStore, Store!Spec
=============================================================================
