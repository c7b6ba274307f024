------------------------- MODULE DataApiConsistency --------------------------
(***************************************************************************)
(* Proofs that one REST context keeps what is stored consistent: no two    *)
(* entities of a kind with the same key, and nothing that depends on what  *)
(* is gone, under the conditions on the requests that its checks leave to  *)
(* the clients.                                                            *)
(***************************************************************************)
EXTENDS DataApiProofs, FiniteSetTheorems

\* A number names a gateway and a domain a number, gateways and peers nothing.
FitPosts ==
  \A p \in Posts :
    /\ IsFiniteSet(p[1].needs)
    /\ p[1].kind \in {"gateways", "peers"} => p[1].needs = {}
    /\ p[1].kind = "numbers" => p[1].needs \subseteq Generated["gateways"]
    /\ p[1].kind = "domains" => p[1].needs \subseteq Generated["numbers"]

\* A PUT may rename a gateway, a number or a peer.
Renamed == {"gateways", "numbers", "peers"}

\* What updateFromJSON leaves to its clients: a PUT changes nothing of what an
\* entity needs, and takes no key that anybody else asks for.
GentlePuts ==
  \A p \in Puts :
    /\ p[1].kind \in {"gateways", "peers"} => p[1].needs = {}
    /\ p[1].kind \in {"agents", "domains"} =>
         \/ p[1].needs = {}
         \/ \A q \in Posts : q[1].kind = p[1].kind /\ q[1].key = p[1].key
                               => q[1].needs = p[1].needs
    /\ p[1].kind \in Renamed =>
         /\ \A q \in Posts : q[1].kind = p[1].kind => q[1].key # p[1].key
         /\ \A q \in Puts : q[1].kind = p[1].kind /\ q[1].key = p[1].key => q[2] = p[2]

Requested == OwnRefs /\ SoleContext /\ FitPosts /\ GentlePuts

-----------------------------------------------------------------------------
(* The invariant.                                                          *)

\* Every entity was posted, with what it needs, and keeps its key or has one
\* that only a PUT to its own ref gives.
Origin(e, r) ==
  \E p \in Posts :
    /\ p[1].kind = e.kind /\ p[1].needs = e.needs
    /\ \/ p[1].key = e.key
       \/ e.kind \in Renamed
          /\ \E q \in Puts : q[1].kind = e.kind /\ q[1].key = e.key /\ q[2] = r

Here(r) == strings[r] # None

Kept ==
  /\ \A r \in Refs : Here(r) => Origin(strings[r], r)
  /\ \A r, q \in Refs : Here(r) /\ Here(q) /\ SameKey(strings[r], strings[q]) => r = q
  /\ \A r \in Refs : Here(r) => Met(strings[r])

\* A cache says that a key is free only if it is, or is being inserted.
Remembered ==
  \A x \in Contexts, k \in Kinds \ {"agents"}, i \in Keys :
    cache[x][k][i] = "absent" =>
      \A r \in Refs : Here(r) /\ strings[r].kind = k /\ strings[r].key = i =>
        handler[x].pc = "sadd" /\ handler[x].ref = r

\* What depends on the entity that a DELETE is about.
Dependent(h, e) ==
  e.kind = DependentKind(h.kind) /\ NameOf(h.kind, h.ref, h.body) \in e.needs

\* What a call has found out so far is so.
Creating(h) ==
  h.pc \notin Replies /\ h.verb = "POST" =>
    /\ \E p \in Posts : p[1] = h.body
    /\ h.pc = "dependency" => h.body.kind # "agents"
    /\ h.pc = "searchDomains" => h.body.kind = "agents"
    /\ h.pc # "sadd" => strings[h.ref] = None
    /\ h.pc = "sadd" => strings[h.ref] = h.body
    /\ h.pc = "searchDomains" =>
         \A r \in h.hits : Here(r) /\ strings[r].kind = "domains" /\ strings[r].key \in h.body.needs
    /\ h.pc \in {"searchDuplicates", "set"} => Met(h.body)
    /\ h.pc = "searchDuplicates" /\ h.listed =>
         \A r \in Refs : Here(r) /\ SameKey(strings[r], h.body) => r \in h.todo \cup h.hits
    /\ h.pc = "set" => \A r \in Refs : Here(r) => ~SameKey(strings[r], h.body)

Updating(h) ==
  /\ h.pc = "read" /\ h.verb = "PUT" => \E p \in Puts : p[1] = h.body /\ p[2] = h.ref
  /\ h.pc = "write" =>
       LET old == strings[h.ref]
       IN /\ old # None
          /\ Rewritable(old, h.body) /\ h.body.needs = old.needs
          /\ h.body.kind \in Renamed =>
               \E p \in Puts : /\ p[1].kind = h.body.kind /\ p[1].key = h.body.key
                               /\ p[2] = h.ref

Deleting(h) ==
  /\ h.pc \in {"searchDependents", "del"} /\ h.kind = "domains" => strings[h.ref] = h.body
  /\ h.pc = "searchDependents" /\ h.listed =>
       \A r \in Refs : Here(r) /\ Dependent(h, strings[r]) => r \in h.todo \cup h.hits
  /\ h.pc = "del" /\ h.kind \in Searched =>
       \A r \in Refs : Here(r) => ~Dependent(h, strings[r])

Checked(h) == Creating(h) /\ Updating(h) /\ Deleting(h)

Consistent == Kept /\ Remembered /\ \A x \in Contexts : Checked(handler[x])
Consistency == mishaps = 0 => Consistent

\* What the steps below start from.
Sound == Requested /\ Types /\ Orderly /\ Tracked /\ Consistent

-----------------------------------------------------------------------------
(* Steps that write nothing to Redis.                                      *)

\* A call that is replied to has nothing left to be right about.
LEMMA CheckedReply ==
  ASSUME NEW h, NEW pc \in Replies
  PROVE  Checked(Reply(h, pc))
<1>1. Reply(h, pc).pc \in Replies
  BY DEF Reply, Call
<1> QED BY <1>1 DEF Checked, Creating, Updating, Deleting, Replies

\* A creation that goes on to another command.
LEMMA CheckedCreate ==
  ASSUME NEW e, NEW r,
         NEW pc \in {"dependency", "searchDomains", "searchDuplicates", "set"},
         \E p \in Posts : p[1] = e,
         pc = "dependency" => e.kind # "agents",
         pc = "searchDomains" => e.kind = "agents",
         strings[r] = None,
         pc \in {"searchDuplicates", "set"} => Met(e),
         pc = "set" => \A q \in Refs : Here(q) => ~SameKey(strings[q], e)
  PROVE  Checked(Call("POST", e.kind, r, e, pc))
<1> DEFINE g == Call("POST", e.kind, r, e, pc)
<1>1. /\ g.pc = pc /\ g.verb = "POST" /\ g.ref = r /\ g.body = e
      /\ g.listed = FALSE /\ g.hits = {}
  BY DEF Call
<1> HIDE DEF g
<1>2. Creating(g)
  BY <1>1 DEF Creating
<1>3. Updating(g) /\ Deleting(g)
  BY <1>1 DEF Updating, Deleting
<1> QED BY <1>2, <1>3 DEF Checked, g

\* What is remembered as free is free, while nothing is being inserted.
LEMMA AbsentIsFree ==
  ASSUME Sound, NEW x \in Contexts, handler[x].pc # "sadd",
         NEW k \in Kinds \ {"agents"}, NEW i \in Keys, cache[x][k][i] = "absent",
         NEW r \in Refs, Here(r)
  PROVE  ~(strings[r].kind = k /\ strings[r].key = i)
BY DEF Sound, Consistent, Remembered

\* The cache, if it answers at all, answers right.
LEMMA CheckedDuplicates ==
  ASSUME Sound, NEW x \in Contexts, handler[x].pc # "sadd",
         NEW h \in Handler, Staged(h), h.pc \in Finds \cup Commands, h.verb = "POST",
         \E p \in Posts : p[1] = h.body, strings[h.ref] = None, Met(h.body)
  PROVE  Checked(CheckDuplicates(x, h))
<1>1. h.pc \notin Replies
  BY DEF Finds, Commands, Replies
<1>2. h.kind \in Kinds /\ h.body \in Entity /\ h.body.kind = h.kind /\ h.body.key \in Keys
  BY <1>1 DEF Staged, Entity
<1>3. /\ At(h, "set") = Call("POST", h.body.kind, h.ref, h.body, "set")
      /\ At(h, "searchDuplicates") = Call("POST", h.body.kind, h.ref, h.body, "searchDuplicates")
  BY <1>2 DEF At
<1> DEFINE memory == IF h.kind = "agents" THEN "empty" ELSE cache[x][h.kind][h.body.key]
<1>4. memory \in Memory
  BY <1>2, OpenCall DEF Memory, Sound
<1>5. CASE memory = "exists"
  <2>1. CheckDuplicates(x, h) = Reply(h, "exists")
    BY <1>5 DEF CheckDuplicates
  <2> QED BY <2>1, CheckedReply DEF Replies
<1>6. CASE memory = "empty"
  <2>1. CheckDuplicates(x, h) = At(h, "searchDuplicates")
    BY <1>6 DEF CheckDuplicates
  <2> QED BY <1>3, <2>1, CheckedCreate
<1>7. CASE memory = "absent"
  <2>1. CheckDuplicates(x, h) = At(h, "set")
    BY <1>7 DEF CheckDuplicates
  <2>2. h.kind \in Kinds \ {"agents"} /\ cache[x][h.kind][h.body.key] = "absent"
    BY <1>2, <1>7
  <2>3. \A q \in Refs : Here(q) => ~(strings[q].kind = h.kind /\ strings[q].key = h.body.key)
    BY <1>2, <2>2, AbsentIsFree
  <2>4. \A q \in Refs : Here(q) => ~SameKey(strings[q], h.body)
    BY <1>2, <2>3 DEF SameKey
  <2> QED BY <1>3, <2>1, <2>4, CheckedCreate
<1> QED BY <1>4, <1>5, <1>6, <1>7 DEF Memory

\* What is kept is kept as long as nothing is written.
LEMMA KeptStays ==
  ASSUME Kept, UNCHANGED <<strings, sets>>
  PROVE  Kept'
<1>1. strings' = strings /\ sets' = sets
  OBVIOUS
<1>2. Listed("domains")' = Listed("domains")
  BY <1>1 DEF Listed
<1> QED BY <1>1, <1>2 DEF Kept, Met, Here, Origin

\* What has been found out so far stays so.
LEMMA CheckedStays ==
  ASSUME NEW g, Checked(g), NEW x, handler'[x] = g, UNCHANGED <<strings, sets>>
  PROVE  Checked(handler[x])'
<1>1. strings' = strings /\ sets' = sets
  OBVIOUS
<1>2. Listed("domains")' = Listed("domains")
  BY <1>1 DEF Listed
<1>3. Creating(handler[x])'
  BY <1>1, <1>2 DEF Checked, Creating, Met, Here
<1>4. Updating(handler[x])'
  BY <1>1 DEF Checked, Updating
<1>5. Deleting(handler[x])'
  BY <1>1 DEF Checked, Deleting, Dependent, Here
<1> QED BY <1>3, <1>4, <1>5 DEF Checked

\* A step of the only context that writes nothing.
LEMMA Moves ==
  ASSUME Sound, NEW x \in Contexts, handler[x].pc # "sadd",
         NEW g, Become(x, g), Checked(g), UNCHANGED <<strings, sets>>,
         \A k \in Kinds \ {"agents"}, i \in Keys :
           cache'[x][k][i] = "absent" =>
             \A r \in Refs : Here(r) => ~(strings[r].kind = k /\ strings[r].key = i)
  PROVE  Consistent'
<1>1. handler'[x] = g /\ \A y \in Contexts : y = x
  BY OthersStay DEF Sound, Requested, SoleContext
<1>2. Kept'
  BY KeptStays DEF Sound, Consistent
<1>3. Remembered'
  <2> SUFFICES ASSUME NEW k \in Kinds \ {"agents"}, NEW i \in Keys, cache'[x][k][i] = "absent",
                      NEW r \in Refs, strings'[r] # None, strings'[r].kind = k, strings'[r].key = i
               PROVE  FALSE
    BY <1>1 DEF Remembered, Here
  <2> QED BY DEF Here
<1>4. \A y \in Contexts : Checked(handler[y])'
  BY <1>1, CheckedStays
<1> QED BY <1>2, <1>3, <1>4 DEF Consistent

\* The same with a cache that learns nothing.
LEMMA PlainMoves ==
  ASSUME Sound, NEW x \in Contexts, handler[x].pc # "sadd",
         NEW g, Become(x, g), Checked(g), UNCHANGED <<strings, sets, cache>>
  PROVE  Consistent'
<1>1. \A k \in Kinds \ {"agents"}, i \in Keys :
        cache'[x][k][i] = "absent" =>
          \A r \in Refs : Here(r) => ~(strings[r].kind = k /\ strings[r].key = i)
  BY AbsentIsFree
<1> QED BY <1>1, Moves

\* A call that begins has nothing to be wrong about.
LEMMA ConsistentRequest ==
  ASSUME Sound, NEW x \in Contexts, Request(x)
  PROVE  Consistent'
<1>1. Closed(x) /\ handler[x].pc # "sadd"
  BY DEF Request, Post, Put, Delete, Closed, Replies
<1>2. ASSUME NEW p \in Posts, Post(x, p[1], p[2]) PROVE Consistent'
  <2> DEFINE e == p[1]
  <2>1. e \in Entity /\ e.kind \in Kinds /\ p[2] = None
    BY RequestsAssumption DEF Entity, Sound, Requested, OwnRefs
  <2>2. PICK r \in Refs : Become(x, Begin(x, e, r)) /\ strings[r] = None
    BY <1>2, <2>1 DEF Post, Begin, Fresh
  <2> DEFINE h == Call("POST", e.kind, r, e, "dependency")
  <2>3. /\ h \in Handler /\ Staged(h) /\ h.pc \in Finds \cup Commands /\ h.verb = "POST"
        /\ h.kind = e.kind /\ h.ref = r /\ h.body = e
        /\ At(h, "searchDomains") = Call("POST", e.kind, r, e, "searchDomains")
    BY <2>1 DEF Call, At, Handler, Staged, Entity, Finds, Commands, Replies
  <2>4. Checked(Begin(x, e, r))
    <3>1. CASE e.kind = "agents"
      <4>1. Begin(x, e, r) = Call("POST", e.kind, r, e, "searchDomains")
        BY <2>3, <3>1 DEF Begin
      <4> HIDE DEF e, h
      <4> QED BY <2>2, <3>1, <4>1, CheckedCreate DEF e
    <3>2. CASE e.kind \in {"numbers", "domains"} /\ e.needs # {}
      <4>1. Begin(x, e, r) = h
        BY <3>2 DEF Begin
      <4> QED BY <2>2, <3>2, <4>1, CheckedCreate
    <3>3. CASE e.kind # "agents" /\ ~(e.kind \in {"numbers", "domains"} /\ e.needs # {})
      <4>1. Begin(x, e, r) = CheckDuplicates(x, h)
        BY <3>3 DEF Begin
      <4>2. e.needs = {}
        BY <2>1, <3>3 DEF Sound, Requested, FitPosts, Kinds
      <4>3. Met(e)
        BY <4>2 DEF Met
      <4> HIDE DEF e, h
      <4> QED BY <1>1, <2>2, <2>3, <4>1, <4>3, CheckedDuplicates DEF e
    <3> QED BY <3>1, <3>2, <3>3
  <2>5. UNCHANGED <<strings, sets, cache>>
    BY <1>2 DEF Post
  <2> QED BY <1>1, <2>2, <2>4, <2>5, PlainMoves
<1>3. ASSUME NEW p \in Puts, Put(x, p[1], p[2]) PROVE Consistent'
  <2> DEFINE g == Call("PUT", p[1].kind, p[2], p[1], "read")
  <2>1. Become(x, g) /\ UNCHANGED <<strings, sets, cache>>
    BY <1>3 DEF Put
  <2>2. g.pc = "read" /\ g.verb = "PUT" /\ g.ref = p[2] /\ g.body = p[1]
    BY DEF Call
  <2> HIDE DEF g
  <2>3. Checked(g)
    BY <2>2 DEF Checked, Creating, Updating, Deleting
  <2> QED BY <1>1, <2>1, <2>3, PlainMoves
<1>4. ASSUME NEW d \in Deletes, Delete(x, d[1], d[2]) PROVE Consistent'
  <2> DEFINE pc == CASE d[1] = "peers" -> "del" [] d[1] = "agents" -> "read" [] OTHER -> "invalidate"
             g == Call("DELETE", d[1], d[2], None, pc)
  <2>1. Become(x, g) /\ UNCHANGED <<strings, sets, cache>>
    BY <1>4 DEF Delete
  <2>2. /\ g.pc \in {"del", "read", "invalidate"} /\ g.verb = "DELETE" /\ g.kind = d[1]
        /\ g.pc = "del" => d[1] = "peers"
    BY DEF Call
  <2> HIDE DEF g
  <2>3. Checked(g)
    BY <2>2 DEF Checked, Creating, Updating, Deleting, Searched
  <2> QED BY <1>1, <2>1, <2>3, PlainMoves
<1> QED BY <1>2, <1>3, <1>4 DEF Request

\* Everything that is stored is listed, while nothing is being inserted.
LEMMA StoredIsListed ==
  ASSUME Sound, NEW x \in Contexts, handler[x].pc # "sadd", NEW r \in Refs, Here(r)
  PROVE  strings[r].kind \in Kinds /\ r \in sets[strings[r].kind]
<1>1. strings[r] \in Entity
  BY OpenCall, NoneAssumption DEF Sound, Here
<1>2. \A y \in Contexts : y = x
  BY DEF Sound, Requested, SoleContext
<1> QED BY <1>1, <1>2 DEF Sound, Tracked, Listings, Inserting, Here, Entity

\* A search begins with everything that it could find.
LEMMA ConsistentListMembers ==
  ASSUME Sound, NEW x \in Contexts, ListMembers(x)
  PROVE  Consistent'
<1> DEFINE h == handler[x]
           t == sets[Collection(h)]
           g == [h EXCEPT !.listed = TRUE, !.todo = t]
<1>1. /\ h \in Handler /\ Staged(h) /\ h.pc \in Finds /\ h.pc # "sadd" /\ Checked(h)
      /\ Become(x, g) /\ UNCHANGED <<strings, sets, cache>>
  BY OpenCall DEF Sound, ListMembers, Finds, Consistent
<1>2. /\ g.pc = h.pc /\ g.verb = h.verb /\ g.kind = h.kind /\ g.ref = h.ref /\ g.body = h.body
      /\ g.hits = h.hits /\ g.todo = t
  BY <1>1 DEF Handler
<1>3. h.pc = "searchDuplicates" =>
        \A r \in Refs : Here(r) /\ SameKey(strings[r], h.body) => r \in t
  BY <1>1, StoredIsListed DEF SameKey, Collection, Staged, Replies
<1>4. h.pc = "searchDependents" =>
        \A r \in Refs : Here(r) /\ Dependent(h, strings[r]) => r \in t
  BY <1>1, StoredIsListed DEF Dependent, Collection
<1> HIDE DEF g, t, h
<1>5. \A e : Dependent(g, e) <=> Dependent(h, e)
  BY <1>2 DEF Dependent
<1>6. Checked(g)
  <2>1. Creating(g)
    BY <1>1, <1>2, <1>3 DEF Checked, Creating
  <2>2. Updating(g)
    BY <1>1, <1>2 DEF Checked, Updating, Finds
  <2>3. Deleting(g)
    BY <1>1, <1>2, <1>4, <1>5 DEF Checked, Deleting
  <2> QED BY <2>1, <2>2, <2>3 DEF Checked
<1> QED BY <1>1, <1>6, PlainMoves DEF h

\* It takes them one by one, and keeps those that it looks for.
LEMMA ConsistentGetMember ==
  ASSUME Sound, NEW x \in Contexts, NEW r \in Refs, GetMember(x, r)
  PROVE  Consistent'
<1> DEFINE h == handler[x]
           t == h.todo \ {r}
           b == h.broken \/ strings[r] = None
           s == IF strings[r] # None /\ Hit(h, strings[r]) THEN h.hits \cup {r} ELSE h.hits
           g == [h EXCEPT !.todo = t, !.broken = b, !.hits = s]
<1>1. /\ h \in Handler /\ Staged(h) /\ h.pc \in Finds /\ h.pc # "sadd" /\ Checked(h)
      /\ Become(x, g) /\ UNCHANGED <<strings, sets, cache>>
  BY OpenCall DEF Sound, GetMember, Finds, Consistent
<1>2. /\ g.pc = h.pc /\ g.verb = h.verb /\ g.kind = h.kind /\ g.ref = h.ref /\ g.body = h.body
      /\ g.hits = s /\ g.todo = t /\ g.listed = h.listed
  BY <1>1 DEF Handler
<1>3. h.pc = "searchDomains" =>
        \A q \in s : q \in h.hits \/ (Here(q) /\ strings[q].kind = "domains" /\ strings[q].key \in h.body.needs)
  BY DEF Hit, Collection, Here
<1>4. h.pc = "searchDuplicates" =>
        \A q \in Refs : Here(q) /\ SameKey(strings[q], h.body) /\ q \in h.todo \cup h.hits => q \in t \cup s
  <2> SUFFICES ASSUME h.pc = "searchDuplicates", NEW q \in Refs, Here(q), SameKey(strings[q], h.body),
                      q \in h.todo \cup h.hits
               PROVE  q \in t \cup s
    OBVIOUS
  <2>1. h.body.kind = h.kind
    BY <1>1 DEF Staged, Replies
  <2>2. Hit(h, strings[q])
    BY <2>1 DEF Hit, Collection, SameKey
  <2> QED BY <2>2 DEF Here
<1>5. h.pc = "searchDependents" =>
        \A q \in Refs : Here(q) /\ Dependent(h, strings[q]) /\ q \in h.todo \cup h.hits => q \in t \cup s
  <2> SUFFICES ASSUME h.pc = "searchDependents", NEW q \in Refs, Here(q), Dependent(h, strings[q]),
                      q \in h.todo \cup h.hits
               PROVE  q \in t \cup s
    OBVIOUS
  <2>1. Hit(h, strings[q])
    BY DEF Hit, Collection, Dependent
  <2> QED BY <2>1 DEF Here
<1> HIDE DEF g, t, s, b, h
<1>6. \A e : Dependent(g, e) <=> Dependent(h, e)
  BY <1>2 DEF Dependent
<1>7. Checked(g)
  <2>1. Creating(g)
    BY <1>1, <1>2, <1>3, <1>4 DEF Checked, Creating
  <2>2. Updating(g)
    BY <1>1, <1>2 DEF Checked, Updating, Finds
  <2>3. Deleting(g)
    BY <1>1, <1>2, <1>5, <1>6 DEF Checked, Deleting
  <2> QED BY <2>1, <2>2, <2>3 DEF Checked
<1> QED BY <1>1, <1>7, PlainMoves DEF h

\* A dependency that is there is there.
LEMMA ConsistentGetDependency ==
  ASSUME Sound, NEW x \in Contexts, GetDependency(x)
  PROVE  Consistent'
<1> DEFINE h == handler[x]
<1>1. /\ h \in Handler /\ Staged(h) /\ h.pc = "dependency" /\ h.verb = "POST" /\ Checked(h)
      /\ UNCHANGED <<strings, sets, cache>>
  BY OpenCall DEF Sound, GetDependency, Consistent, Staged
<1>2. /\ \E p \in Posts : p[1] = h.body
      /\ strings[h.ref] = None /\ h.body.kind # "agents"
  BY <1>1 DEF Checked, Creating, Replies
<1>3. CASE \A n \in h.body.needs : strings[n] # None
  <2>1. Met(h.body)
    BY <1>2, <1>3 DEF Met
  <2>2. Become(x, CheckDuplicates(x, h)) /\ h.pc # "sadd" /\ h.pc \in Finds \cup Commands
    BY <1>1, <1>3 DEF GetDependency, Commands
  <2>3. Checked(CheckDuplicates(x, h))
    BY <1>1, <1>2, <2>1, <2>2, CheckedDuplicates
  <2> QED BY <1>1, <2>2, <2>3, PlainMoves
<1>4. CASE ~(\A n \in h.body.needs : strings[n] # None)
  <2>1. Become(x, Reply(h, "unfulfilled")) /\ h.pc # "sadd"
    BY <1>1, <1>4 DEF GetDependency
  <2>2. Checked(Reply(h, "unfulfilled"))
    BY CheckedReply DEF Replies
  <2> QED BY <1>1, <2>1, <2>2, PlainMoves
<1> QED BY <1>3, <1>4

\* As many domains as an agent names, none of them twice, are all of them.
LEMMA CountedDomains ==
  ASSUME Sound, NEW x \in Contexts, handler[x].pc = "searchDomains",
         Cardinality(handler[x].hits) = Cardinality(handler[x].body.needs)
  PROVE  Met(handler[x].body)
<1> DEFINE h == handler[x]
           needs == h.body.needs
           f == [r \in h.hits |-> strings[r].key]
<1>1. h \in Handler /\ Staged(h) /\ Checked(h) /\ h.verb = "POST"
  BY OpenCall DEF Sound, Consistent, Staged
<1>2. /\ h.hits \subseteq Refs /\ h.body.kind = "agents"
      /\ \A r \in h.hits : Here(r) /\ strings[r].kind = "domains" /\ strings[r].key \in needs
  BY <1>1 DEF Handler, Checked, Creating, Replies
<1>3. IsFiniteSet(needs)
  BY <1>1 DEF Sound, Requested, FitPosts, Checked, Creating, Replies
<1>4. f \in [h.hits -> needs]
  BY <1>2
<1>5. \A r, q \in h.hits : f[r] = f[q] => r = q
  <2> SUFFICES ASSUME NEW r \in h.hits, NEW q \in h.hits, strings[r].key = strings[q].key
               PROVE  r = q
    OBVIOUS
  <2>1. SameKey(strings[r], strings[q])
    BY <1>2 DEF SameKey
  <2> QED BY <1>2, <2>1 DEF Sound, Consistent, Kept
<1>6. f \in Injection(h.hits, needs)
  BY <1>4, <1>5 DEF Injection, IsInjective
<1>7. f \in Surjection(h.hits, needs)
  BY <1>3, <1>6, FS_Injection
<1>8. \A n \in needs : \E r \in h.hits : f[r] = n
  BY <1>7 DEF Surjection
<1>9. \A r \in h.hits : r \in Listed("domains")
  BY <1>2, StoredIsListed DEF Listed, Here
<1> QED BY <1>2, <1>8, <1>9 DEF Met

\* So is a count of them.
LEMMA ConsistentCountDomains ==
  ASSUME Sound, NEW x \in Contexts, CountDomains(x)
  PROVE  Consistent'
<1> DEFINE h == handler[x]
<1>1. /\ h \in Handler /\ Staged(h) /\ h.pc = "searchDomains" /\ h.verb = "POST" /\ Checked(h)
      /\ UNCHANGED <<strings, sets, cache>>
  BY OpenCall DEF Sound, CountDomains, Found, Consistent, Staged
<1>2. (\E p \in Posts : p[1] = h.body) /\ strings[h.ref] = None
  BY <1>1 DEF Checked, Creating, Replies
<1>3. CASE Cardinality(h.hits) = Cardinality(h.body.needs)
  <2>1. Met(h.body)
    BY <1>1, <1>3, CountedDomains
  <2>2. Become(x, CheckDuplicates(x, h)) /\ h.pc # "sadd" /\ h.pc \in Finds \cup Commands
    BY <1>1, <1>3 DEF CountDomains, Finds
  <2>3. Checked(CheckDuplicates(x, h))
    BY <1>1, <1>2, <2>1, <2>2, CheckedDuplicates
  <2> QED BY <1>1, <2>2, <2>3, PlainMoves
<1>4. CASE Cardinality(h.hits) # Cardinality(h.body.needs)
  <2>1. Become(x, Reply(h, "unfulfilled")) /\ h.pc # "sadd"
    BY <1>1, <1>4 DEF CountDomains
  <2>2. Checked(Reply(h, "unfulfilled"))
    BY CheckedReply DEF Replies
  <2> QED BY <1>1, <2>1, <2>2, PlainMoves
<1> QED BY <1>3, <1>4

\* What a cache holds after it was told.
LEMMA Told ==
  ASSUME Types, NEW x \in Contexts, NEW kind \in Kinds, NEW key \in Keys, NEW memory \in Memory,
         Remember(x, kind, key, memory),
         NEW k \in Kinds \ {"agents"}, NEW i \in Keys
  PROVE  cache'[x][k][i] = IF k = kind /\ i = key THEN memory ELSE cache[x][k][i]
<1>1. cache \in [Contexts -> [Kinds -> [Keys -> Memory]]]
  BY OpenCall
<1>2. CASE kind = "agents"
  BY <1>2 DEF Remember
<1>3. CASE kind # "agents"
  <2>1. cache' = [cache EXCEPT ![x][kind][key] = memory]
    BY <1>3 DEF Remember
  <2>2. cache'[x] = [cache[x] EXCEPT ![kind][key] = memory]
    BY <1>1, <2>1
  <2>3. cache[x] \in [Kinds -> [Keys -> Memory]]
    BY <1>1
  <2>4. CASE k = kind
    <3>1. cache'[x][k] = [cache[x][k] EXCEPT ![key] = memory]
      BY <2>2, <2>3, <2>4
    <3>2. cache[x][k] \in [Keys -> Memory]
      BY <2>3
    <3> QED BY <2>4, <3>1, <3>2
  <2>5. CASE k # kind
    BY <2>2, <2>3, <2>5
  <2> QED BY <2>4, <2>5
<1> QED BY <1>2, <1>3

\* A search that went through finds a key free only if it is.
LEMMA ConsistentSearchDuplicates ==
  ASSUME Sound, NEW x \in Contexts, SearchDuplicates(x)
  PROVE  Consistent'
<1> DEFINE h == handler[x]
           throws == h.broken /\ h.kind # "agents"
<1>1. /\ h \in Handler /\ Staged(h) /\ h.pc = "searchDuplicates" /\ h.verb = "POST" /\ Checked(h)
      /\ h.listed /\ h.todo = {} /\ UNCHANGED <<strings, sets>>
  BY OpenCall DEF Sound, SearchDuplicates, Found, Consistent, Staged
<1>2. h.kind \in Kinds /\ h.body.kind = h.kind /\ h.body.key \in Keys /\ h.pc # "sadd"
  BY <1>1 DEF Staged, Replies, Entity
<1>3. /\ \E p \in Posts : p[1] = h.body
      /\ strings[h.ref] = None
      /\ Met(h.body)
      /\ \A r \in Refs : Here(r) /\ SameKey(strings[r], h.body) => r \in h.hits
  BY <1>1 DEF Checked, Creating, Replies
<1>4. CASE ~throws /\ h.hits = {}
  <2>1. Become(x, At(h, "set"))
    BY <1>4 DEF SearchDuplicates
  <2>2. At(h, "set") = Call("POST", h.body.kind, h.ref, h.body, "set")
    BY <1>1, <1>2 DEF At
  <2>3. \A r \in Refs : Here(r) => ~SameKey(strings[r], h.body)
    BY <1>3, <1>4
  <2>4. Checked(At(h, "set"))
    BY <1>3, <2>2, <2>3, CheckedCreate
  <2>5. UNCHANGED cache \/ Remember(x, h.kind, h.body.key, "absent")
    BY <1>4 DEF SearchDuplicates
  <2>6. ASSUME NEW k \in Kinds \ {"agents"}, NEW i \in Keys, cache'[x][k][i] = "absent",
               NEW r \in Refs, Here(r)
        PROVE  ~(strings[r].kind = k /\ strings[r].key = i)
    <3>1. CASE cache[x][k][i] = "absent"
      BY <1>2, <2>6, <3>1, AbsentIsFree
    <3>2. CASE cache[x][k][i] # "absent"
      <4>1. k = h.kind /\ i = h.body.key
        BY <1>2, <2>5, <2>6, <3>2, Told DEF Sound, Memory
      <4> QED BY <1>2, <2>3, <2>6, <4>1 DEF SameKey
    <3> QED BY <3>1, <3>2
  <2> QED BY <1>1, <1>2, <2>1, <2>4, <2>6, Moves
<1>5. CASE throws \/ h.hits # {}
  <2>1. PICK pc \in {"failed", "exists"} : Become(x, Reply(h, pc))
    BY <1>5 DEF SearchDuplicates
  <2>2. Checked(Reply(h, pc))
    BY CheckedReply DEF Replies
  <2>3. UNCHANGED cache \/ Remember(x, h.kind, h.body.key, "exists")
    BY <1>5 DEF SearchDuplicates
  <2>4. ASSUME NEW k \in Kinds \ {"agents"}, NEW i \in Keys, cache'[x][k][i] = "absent"
        PROVE  cache[x][k][i] = "absent"
    BY <1>2, <2>3, <2>4, Told DEF Sound, Memory
  <2>5. \A k \in Kinds \ {"agents"}, i \in Keys :
          cache'[x][k][i] = "absent" =>
            \A r \in Refs : Here(r) => ~(strings[r].kind = k /\ strings[r].key = i)
    BY <1>2, <2>4, AbsentIsFree
  <2> QED BY <1>1, <1>2, <2>1, <2>2, <2>5, Moves
<1> QED BY <1>4, <1>5

\* The merge of an update needs what the entity needed before.
LEMMA MergeNeeds ==
  ASSUME Sound, NEW r \in Refs, Here(r), NEW p \in Puts, Rewritable(strings[r], p[1])
  PROVE  Merge(strings[r], p[1]).needs = strings[r].needs
<1> DEFINE old == strings[r]
           new == p[1]
<1>1. old \in Entity /\ new \in Entity /\ old.kind = new.kind /\ old.kind \in Kinds
  <2>1. old \in Entity /\ new \in Entity
    BY NoneAssumption, RequestsAssumption DEF Sound, Types, TypeOK, Here
  <2> QED BY <2>1 DEF Rewritable, Entity
<1>2. CASE new.needs = {}
  BY <1>1, <1>2 DEF Merge, Entity
<1>3. CASE new.needs # {}
  <2>1. new.kind \notin {"gateways", "peers"}
    BY <1>3 DEF Sound, Requested, GentlePuts
  <2>2. CASE new.kind = "numbers"
    BY <1>1, <1>3, <2>2 DEF Merge, Rewritable
  <2>3. CASE new.kind \in {"agents", "domains"}
    <3>1. PICK q \in Posts : q[1].kind = old.kind /\ q[1].needs = old.needs /\ q[1].key = old.key
      BY <1>1, <2>3 DEF Sound, Consistent, Kept, Origin, Renamed
    <3>2. old.key = new.key
      BY <1>1, <2>3 DEF Rewritable
    <3>3. new.needs = old.needs
      BY <1>1, <1>3, <2>3, <3>1, <3>2 DEF Sound, Requested, GentlePuts
    <3> QED BY <1>3, <3>3 DEF Merge
  <2> QED BY <1>1, <2>1, <2>2, <2>3 DEF Kinds
<1> QED BY <1>2, <1>3

\* An update of what was there is one that its clients may ask for.
LEMMA ConsistentReadOld ==
  ASSUME Sound, NEW x \in Contexts, ReadOld(x)
  PROVE  Consistent'
<1> DEFINE h == handler[x]
           old == strings[h.ref]
           b == Merge(old, h.body)
           g == [At(h, "write") EXCEPT !.body = b]
<1>1. /\ h \in Handler /\ Staged(h) /\ h.pc = "read" /\ h.verb = "PUT" /\ Checked(h)
      /\ UNCHANGED <<strings, sets, cache>> /\ h.pc # "sadd"
  BY OpenCall DEF Sound, ReadOld, Consistent
<1>2. h.ref \in Refs /\ h.body \in Entity
  BY <1>1 DEF Staged, Replies
<1>3. PICK p \in Puts : p[1] = h.body /\ p[2] = h.ref
  BY <1>1 DEF Checked, Updating
<1>4. CASE old # None /\ Rewritable(old, h.body)
  <2>1. Become(x, g)
    BY <1>4 DEF ReadOld
  <2>2. g.pc = "write" /\ g.verb = "PUT" /\ g.ref = h.ref /\ g.body = b
    BY <1>1 DEF At, Call
  <2>3. b.needs = old.needs
    BY <1>2, <1>3, <1>4, MergeNeeds DEF Here
  <2>4. b.kind = h.body.kind /\ b.key = h.body.key
    BY <1>2 DEF Merge, Entity
  <2> HIDE DEF g, b
  <2>5. Rewritable(old, b)
    BY <1>4, <2>3, <2>4 DEF Rewritable
  <2>6. Updating(g)
    BY <1>3, <1>4, <2>2, <2>3, <2>4, <2>5 DEF Updating
  <2>7. Checked(g)
    BY <2>2, <2>6 DEF Checked, Creating, Deleting
  <2> QED BY <1>1, <2>1, <2>7, PlainMoves
<1>5. CASE ~(old # None /\ Rewritable(old, h.body))
  <2>1. Become(x, Reply(h, "invalid"))
    BY <1>5 DEF ReadOld
  <2>2. Checked(Reply(h, "invalid"))
    BY CheckedReply DEF Replies
  <2> QED BY <1>1, <2>1, <2>2, PlainMoves
<1> QED BY <1>4, <1>5

\* What is about to be deleted is forgotten.
LEMMA ConsistentInvalidate ==
  ASSUME Sound, NEW x \in Contexts, Invalidate(x)
  PROVE  Consistent'
<1> DEFINE h == handler[x]
           e == strings[h.ref]
           pc == IF h.kind = "numbers" THEN "searchDependents" ELSE "read"
<1>1. /\ h \in Handler /\ Staged(h) /\ h.pc = "invalidate" /\ h.verb = "DELETE"
      /\ UNCHANGED <<strings, sets>> /\ h.pc # "sadd" /\ h.kind \in Kinds /\ h.ref \in Refs
  BY OpenCall DEF Sound, Invalidate, Staged, Replies
<1>2. Become(x, Reply(h, "failed")) \/ Become(x, At(h, pc))
  BY DEF Invalidate
<1>3. Checked(Reply(h, "failed"))
  BY CheckedReply DEF Replies
<1>4. Checked(At(h, pc))
  <2> DEFINE g == At(h, pc)
  <2>1. /\ g.pc \in {"searchDependents", "read"} /\ g.verb = "DELETE" /\ g.listed = FALSE
        /\ g.pc = "searchDependents" => g.kind = "numbers"
    BY <1>1 DEF At, Call
  <2> HIDE DEF g
  <2>2. Checked(g)
    BY <2>1 DEF Checked, Creating, Updating, Deleting
  <2> QED BY <2>2 DEF g
<1>5. UNCHANGED cache \/ (e # None /\ Remember(x, h.kind, e.key, "empty"))
  BY DEF Invalidate
<1>6. e # None => e.key \in Keys
  BY <1>1, OpenCall DEF Sound, Entity
<1>7. ASSUME NEW k \in Kinds \ {"agents"}, NEW i \in Keys, cache'[x][k][i] = "absent"
      PROVE  cache[x][k][i] = "absent"
  BY <1>1, <1>5, <1>6, <1>7, Told DEF Sound, Memory
<1>8. \A k \in Kinds \ {"agents"}, i \in Keys :
        cache'[x][k][i] = "absent" =>
          \A r \in Refs : Here(r) => ~(strings[r].kind = k /\ strings[r].key = i)
  BY <1>1, <1>7, AbsentIsFree
<1> HIDE DEF pc
<1> QED BY <1>1, <1>2, <1>3, <1>4, <1>8, Moves

\* A delete knows what it is about to delete.
LEMMA ConsistentReadDoomed ==
  ASSUME Sound, NEW x \in Contexts, ReadDoomed(x)
  PROVE  Consistent'
<1> DEFINE h == handler[x]
           e == strings[h.ref]
           pc == IF h.kind = "agents" THEN "del" ELSE "searchDependents"
           g == [At(h, pc) EXCEPT !.body = e]
<1>1. /\ h.pc = "read" /\ h.verb = "DELETE" /\ UNCHANGED <<strings, sets, cache>> /\ h.pc # "sadd"
  BY DEF ReadDoomed
<1>2. \/ Become(x, Reply(h, "notFound")) \/ Become(x, Reply(h, "failed"))
      \/ Become(x, g)
  BY DEF ReadDoomed
<1>3. Checked(Reply(h, "notFound")) /\ Checked(Reply(h, "failed"))
  BY CheckedReply DEF Replies
<1>4. /\ g.pc \in {"del", "searchDependents"} /\ g.verb = "DELETE" /\ g.kind = h.kind /\ g.ref = h.ref
      /\ g.body = e /\ g.listed = FALSE /\ (g.pc = "del" => g.kind = "agents")
  BY <1>1 DEF At, Call
<1> HIDE DEF g
<1>5. Checked(g)
  BY <1>4 DEF Checked, Creating, Updating, Deleting, Searched
<1> QED BY <1>1, <1>2, <1>3, <1>5, PlainMoves

\* And nothing that it finds depends on that.
LEMMA ConsistentSearchDependents ==
  ASSUME Sound, NEW x \in Contexts, SearchDependents(x)
  PROVE  Consistent'
<1> DEFINE h == handler[x]
<1>1. /\ h \in Handler /\ Staged(h) /\ h.pc = "searchDependents" /\ h.verb = "DELETE" /\ Checked(h)
      /\ h.listed /\ h.todo = {} /\ UNCHANGED <<strings, sets, cache>> /\ h.pc # "sadd"
  BY OpenCall DEF Sound, SearchDependents, Found, Consistent, Staged
<1>2. CASE h.hits = {}
  <2> DEFINE g == At(h, "del")
  <2>1. Become(x, g)
    BY <1>2 DEF SearchDependents
  <2>2. /\ g.pc = "del" /\ g.verb = "DELETE" /\ g.kind = h.kind /\ g.ref = h.ref /\ g.body = h.body
    BY <1>1 DEF At, Call
  <2> HIDE DEF g
  <2>3. \A f : Dependent(g, f) <=> Dependent(h, f)
    BY <2>2 DEF Dependent
  <2>4. /\ h.kind = "domains" => strings[h.ref] = h.body
        /\ \A r \in Refs : Here(r) => ~Dependent(h, strings[r])
    BY <1>1, <1>2 DEF Checked, Deleting
  <2>5. Checked(g)
    BY <2>2, <2>3, <2>4 DEF Checked, Creating, Updating, Deleting
  <2> QED BY <1>1, <2>1, <2>5, PlainMoves
<1>3. CASE h.hits # {}
  <2>1. Become(x, Reply(h, "dependents"))
    BY <1>3 DEF SearchDependents
  <2>2. Checked(Reply(h, "dependents"))
    BY CheckedReply DEF Replies
  <2> QED BY <1>1, <2>1, <2>2, PlainMoves
<1> QED BY <1>2, <1>3

-----------------------------------------------------------------------------
(* Steps that write.                                                       *)

\* What an entity names, by its kind.
LEMMA Names ==
  ASSUME Sound, NEW e \in Entity, \E p \in Posts : p[1].kind = e.kind /\ p[1].needs = e.needs
  PROVE  /\ e.kind \in {"gateways", "peers"} => e.needs = {}
         /\ e.kind = "numbers" => e.needs \subseteq Generated["gateways"]
         /\ e.kind = "domains" => e.needs \subseteq Generated["numbers"]
         /\ e.kind # "agents" => e.needs \subseteq Refs
<1>1. \A k \in Kinds : Generated[k] \subseteq Refs
  BY GeneratedAssumption
<1>2. /\ e.kind \in {"gateways", "peers"} => e.needs = {}
      /\ e.kind = "numbers" => e.needs \subseteq Generated["gateways"]
      /\ e.kind = "domains" => e.needs \subseteq Generated["numbers"]
  BY DEF Sound, Requested, FitPosts
<1> QED BY <1>1, <1>2 DEF Kinds, Entity

\* Met in the next state.
MetNext(e) ==
  \A n \in e.needs :
    IF e.kind = "agents"
      THEN \E r \in Refs : /\ r \in sets'["domains"] /\ strings'[r] # None
                           /\ strings'[r].kind = "domains" /\ strings'[r].key = n
      ELSE strings'[n] # None

\* What has to be shown of what a step leaves stored.
LEMMA KeptNext ==
  ASSUME sets' \in [Kinds -> SUBSET Refs],
         \A r \in Refs : strings'[r] # None => Origin(strings'[r], r) /\ MetNext(strings'[r]),
         \A r, q \in Refs : strings'[r] # None /\ strings'[q] # None /\ SameKey(strings'[r], strings'[q])
                              => r = q
  PROVE  Kept'
<1>1. (\A r \in Refs : Here(r) => Origin(strings[r], r))'
  BY DEF Here, Origin
<1>2. (\A r, q \in Refs : Here(r) /\ Here(q) /\ SameKey(strings[r], strings[q]) => r = q)'
  BY DEF Here, SameKey
<1>3. (\A r \in Refs : Here(r) => Met(strings[r]))'
  <2> SUFFICES ASSUME NEW r \in Refs, strings'[r] # None PROVE Met(strings[r])'
    BY DEF Here
  <2>1. \A n \in strings'[r].needs :
          IF strings'[r].kind = "agents"
            THEN \E q \in Listed("domains")' : strings'[q].key = n
            ELSE strings'[n] # None
    BY DEF MetNext, Listed
  <2> QED BY <2>1 DEF Met
<1> QED BY <1>1, <1>2, <1>3 DEF Kept

\* What an entity needs stays there when nothing goes.
LEMMA MetGrows ==
  ASSUME Types, NEW e \in Entity, Met(e), e.kind # "agents" => e.needs \subseteq Refs,
         \A r \in Refs : Here(r) =>
           /\ strings'[r] # None /\ strings'[r].kind = strings[r].kind
           /\ strings[r].kind = "domains" => strings'[r].key = strings[r].key,
         \A k \in Kinds : sets[k] \subseteq sets'[k]
  PROVE  MetNext(e)
<1> SUFFICES ASSUME NEW n \in e.needs
             PROVE  IF e.kind = "agents"
                      THEN \E r \in Refs : /\ r \in sets'["domains"] /\ strings'[r] # None
                                           /\ strings'[r].kind = "domains" /\ strings'[r].key = n
                      ELSE strings'[n] # None
  BY DEF MetNext
<1>1. CASE e.kind = "agents"
  <2>1. PICK r \in Listed("domains") : strings[r].key = n
    BY <1>1 DEF Met
  <2>2. r \in Refs /\ r \in sets["domains"] /\ Here(r) /\ strings[r].kind = "domains"
    BY <2>1 DEF Listed, Types, TypeOK, Here, Kinds
  <2> QED BY <1>1, <2>1, <2>2 DEF Kinds
<1>2. CASE e.kind # "agents"
  BY <1>2 DEF Met, Here
<1> QED BY <1>1, <1>2

\* An entity that is stored is as it should be.
LEMMA Stored ==
  ASSUME Sound, NEW r \in Refs, Here(r)
  PROVE  /\ strings[r] \in Entity /\ Met(strings[r]) /\ Origin(strings[r], r)
         /\ r \in Generated[strings[r].kind]
         /\ strings[r].kind # "agents" => strings[r].needs \subseteq Refs
<1>1. strings[r] \in Entity
  BY NoneAssumption DEF Sound, Types, TypeOK, Here
<1>2. Met(strings[r]) /\ Origin(strings[r], r) /\ r \in Generated[strings[r].kind]
  BY DEF Sound, Consistent, Kept, Orderly, Owned, Here
<1>3. \E p \in Posts : p[1].kind = strings[r].kind /\ p[1].needs = strings[r].needs
  BY <1>2 DEF Origin
<1> QED BY <1>1, <1>2, <1>3, Names

\* An insert stores what has what it needs and a key of its own.
LEMMA ConsistentSetKey ==
  ASSUME Sound, NEW x \in Contexts, SetKey(x)
  PROVE  Consistent'
<1> DEFINE h == handler[x]
           e == h.body
           g == At(h, "sadd")
<1>1. /\ h \in Handler /\ Staged(h) /\ h.pc = "set" /\ h.verb = "POST" /\ Checked(h)
      /\ h.ref \in Refs /\ e \in Entity
      /\ strings \in [Refs -> Entity \cup {None}]
      /\ sets \in [Kinds -> SUBSET Refs]
      /\ strings' = [strings EXCEPT ![h.ref] = e] /\ sets' = sets /\ cache' = cache
  BY OpenCall DEF Sound, SetKey, Consistent, Staged, Replies
<1>2. /\ \E p \in Posts : p[1] = e
      /\ strings[h.ref] = None /\ Met(e)
      /\ \A r \in Refs : Here(r) => ~SameKey(strings[r], e)
  BY <1>1 DEF Checked, Creating, Replies
<1>3. handler'[x] = g /\ \A y \in Contexts : y = x
  BY OthersStay DEF SetKey, Sound, Requested, SoleContext
<1>4. g.pc = "sadd" /\ g.verb = "POST" /\ g.ref = h.ref /\ g.body = e
  BY <1>1 DEF At, Call
<1> HIDE DEF g, e, h
<1>5. \A r \in Refs : strings'[r] = IF r = h.ref THEN e ELSE strings[r]
  BY <1>1
<1>6. e # None
  BY <1>1, NoneAssumption
<1>7. \A r \in Refs : Here(r) => strings'[r] = strings[r]
  BY <1>2, <1>5 DEF Here
<1>8. Kept'
  <2>1. ASSUME NEW r \in Refs, strings'[r] # None
        PROVE  Origin(strings'[r], r) /\ MetNext(strings'[r])
    <3>1. CASE r = h.ref
      <4>1. Origin(e, r)
        BY <1>2 DEF Origin
      <4>2. MetNext(e)
        BY <1>1, <1>2, <1>6, <1>7, Names, MetGrows DEF Here, Sound
      <4> QED BY <1>5, <3>1, <4>1, <4>2
    <3>2. CASE r # h.ref
      <4>1. Here(r) /\ strings'[r] = strings[r]
        BY <1>5, <2>1, <3>2 DEF Here
      <4>2. MetNext(strings[r])
        BY <1>1, <1>7, <4>1, Stored, MetGrows DEF Here, Sound
      <4> QED BY <4>1, <4>2, Stored
    <3> QED BY <3>1, <3>2
  <2>2. ASSUME NEW r \in Refs, NEW q \in Refs, strings'[r] # None, strings'[q] # None,
               SameKey(strings'[r], strings'[q])
        PROVE  r = q
    <3>1. SameKey(strings'[q], strings'[r])
      BY <2>2 DEF SameKey
    <3>2. CASE r # h.ref /\ q # h.ref
      BY <1>5, <2>2, <3>2 DEF Sound, Consistent, Kept, Here
    <3>3. CASE r = h.ref \/ q = h.ref
      BY <1>2, <1>5, <2>2, <3>1, <3>3 DEF Here
    <3> QED BY <3>2, <3>3
  <2> QED BY <1>1, <2>1, <2>2, KeptNext
<1>9. Remembered'
  <2> SUFFICES ASSUME NEW k \in Kinds \ {"agents"}, NEW i \in Keys, cache[x][k][i] = "absent",
                      NEW r \in Refs, strings'[r] # None, strings'[r].kind = k, strings'[r].key = i
               PROVE  r = h.ref
    BY <1>1, <1>3, <1>4 DEF Remembered, Here
  <2> SUFFICES ASSUME r # h.ref PROVE FALSE
    OBVIOUS
  <2>1. Here(r) /\ strings[r].kind = k /\ strings[r].key = i /\ handler[x].pc # "sadd"
    BY <1>1, <1>5 DEF Here, h
  <2> QED BY <2>1, AbsentIsFree
<1>10. Checked(handler[x])'
  <2>1. strings'[g.ref] = e
    BY <1>1, <1>4, <1>5
  <2>2. Creating(handler[x])'
    BY <1>2, <1>3, <1>4, <2>1 DEF Creating
  <2>3. Updating(handler[x])' /\ Deleting(handler[x])'
    BY <1>3, <1>4 DEF Updating, Deleting
  <2> QED BY <2>2, <2>3 DEF Checked
<1> QED BY <1>3, <1>8, <1>9, <1>10 DEF Consistent

\* Once it is listed, it is remembered as taken.
LEMMA ConsistentAddMember ==
  ASSUME Sound, NEW x \in Contexts, AddMember(x)
  PROVE  Consistent'
<1> DEFINE h == handler[x]
           e == h.body
<1>1. /\ h \in Handler /\ Staged(h) /\ h.pc = "sadd" /\ h.verb = "POST" /\ Checked(h)
      /\ h.ref \in Refs /\ h.kind \in Kinds /\ e \in Entity /\ e.kind = h.kind /\ e.key \in Keys
      /\ sets \in [Kinds -> SUBSET Refs]
      /\ sets' = [sets EXCEPT ![h.kind] = @ \cup {h.ref}] /\ strings' = strings
      /\ Remember(x, h.kind, e.key, "exists")
  BY OpenCall DEF Sound, AddMember, Consistent, Staged, Replies, Entity
<1>2. strings[h.ref] = e
  BY <1>1 DEF Checked, Creating, Replies
<1>3. handler'[x] = Reply(h, "created") /\ \A y \in Contexts : y = x
  BY OthersStay DEF AddMember, Sound, Requested, SoleContext
<1>4. handler'[x].pc = "created"
  BY <1>3 DEF Reply, Call
<1> HIDE DEF e, h
<1>5. Kept'
  <2>1. ASSUME NEW r \in Refs, strings'[r] # None
        PROVE  Origin(strings'[r], r) /\ MetNext(strings'[r])
    <3>1. Here(r) /\ strings'[r] = strings[r]
      BY <1>1, <2>1 DEF Here
    <3>2. \A k \in Kinds : sets[k] \subseteq sets'[k]
      BY <1>1
    <3>3. MetNext(strings[r])
      BY <1>1, <3>1, <3>2, Stored, MetGrows DEF Here, Sound
    <3> QED BY <3>1, <3>3, Stored
  <2>2. \A r, q \in Refs : strings'[r] # None /\ strings'[q] # None /\ SameKey(strings'[r], strings'[q])
                             => r = q
    BY <1>1 DEF Sound, Consistent, Kept, Here
  <2>3. sets' \in [Kinds -> SUBSET Refs]
    BY <1>1
  <2> QED BY <2>1, <2>2, <2>3, KeptNext
<1>6. Remembered'
  <2> SUFFICES ASSUME NEW k \in Kinds \ {"agents"}, NEW i \in Keys, cache'[x][k][i] = "absent",
                      NEW r \in Refs, strings'[r] # None, strings'[r].kind = k, strings'[r].key = i
               PROVE  FALSE
    BY <1>3 DEF Remembered, Here
  <2>1. cache[x][k][i] = "absent" /\ ~(k = h.kind /\ i = e.key)
    BY <1>1, Told DEF Sound, Memory
  <2>2. handler[x].ref = r
    BY <1>1, <2>1 DEF Sound, Consistent, Remembered, Here
  <2> QED BY <1>1, <1>2, <2>1, <2>2 DEF h
<1>7. Checked(handler[x])'
  BY <1>4 DEF Checked, Creating, Updating, Deleting, Replies
<1> QED BY <1>3, <1>5, <1>6, <1>7 DEF Consistent

\* A rename takes no key that anybody else has.
LEMMA RenamedAlone ==
  ASSUME Sound, NEW p \in Puts, p[1].kind \in Renamed, NEW q \in Refs, Here(q),
         strings[q].kind = p[1].kind, strings[q].key = p[1].key
  PROVE  q = p[2]
<1>1. PICK o \in Posts :
        /\ o[1].kind = strings[q].kind
        /\ \/ o[1].key = strings[q].key
           \/ \E u \in Puts : u[1].kind = strings[q].kind /\ u[1].key = strings[q].key /\ u[2] = q
  BY Stored DEF Origin
<1>2. /\ \A u \in Posts : u[1].kind = p[1].kind => u[1].key # p[1].key
      /\ \A u \in Puts : u[1].kind = p[1].kind /\ u[1].key = p[1].key => u[2] = p[2]
  BY DEF Sound, Requested, GentlePuts
<1> QED BY <1>1, <1>2

\* Nor does any update.
LEMMA WriteAlone ==
  ASSUME Sound, NEW x \in Contexts, handler[x].pc = "write",
         NEW r \in Refs, r # handler[x].ref, Here(r)
  PROVE  ~SameKey(strings[r], handler[x].body)
<1> DEFINE h == handler[x]
           e == h.body
           old == strings[h.ref]
<1>1. h \in Handler /\ Staged(h) /\ Checked(h) /\ h.ref \in Refs /\ e \in Entity /\ e.kind \in Kinds
  BY OpenCall DEF Sound, Consistent, Staged, Replies, Entity
<1>2. /\ old # None /\ Rewritable(old, e) /\ e.needs = old.needs
      /\ e.kind \in Renamed => \E p \in Puts : p[1].kind = e.kind /\ p[1].key = e.key /\ p[2] = h.ref
  BY <1>1 DEF Checked, Updating
<1> HIDE DEF e, h
<1> SUFFICES ASSUME SameKey(strings[r], e) PROVE FALSE
  BY DEF e, h
<1>3. strings[r].kind = e.kind /\ strings[r].key = e.key
  BY DEF SameKey
<1>4. CASE e.kind \in Renamed
  BY <1>2, <1>3, <1>4, RenamedAlone DEF h
<1>5. CASE e.kind \notin Renamed
  <2>1. old.kind = e.kind /\ e.key = old.key
    BY <1>1, <1>2, <1>5 DEF Rewritable, Renamed, Kinds
  <2>2. SameKey(strings[r], old)
    BY <1>2, <2>1 DEF SameKey
  <2>3. Here(h.ref)
    BY <1>2 DEF Here
  <2> QED BY <1>1, <2>2, <2>3 DEF Sound, Consistent, Kept, h
<1> QED BY <1>4, <1>5

\* An update leaves what the entity needs, and what others name it by.
LEMMA ConsistentWrite ==
  ASSUME Sound, NEW x \in Contexts, Write(x)
  PROVE  Consistent'
<1> DEFINE h == handler[x]
           e == h.body
           old == strings[h.ref]
<1>1. /\ h \in Handler /\ Staged(h) /\ h.pc = "write" /\ h.verb = "PUT" /\ Checked(h)
      /\ h.ref \in Refs /\ h.kind \in Kinds /\ e \in Entity /\ e.kind = h.kind /\ e.key \in Keys
      /\ strings \in [Refs -> Entity \cup {None}]
      /\ sets \in [Kinds -> SUBSET Refs]
      /\ strings' = [strings EXCEPT ![h.ref] = e] /\ sets' = sets
      /\ Remember(x, h.kind, e.key, "exists")
  BY OpenCall DEF Sound, Write, Consistent, Staged, Replies, Entity
<1>2. /\ old # None /\ Rewritable(old, e) /\ e.needs = old.needs
      /\ e.kind \in Renamed => \E p \in Puts : p[1].kind = e.kind /\ p[1].key = e.key /\ p[2] = h.ref
  BY <1>1 DEF Checked, Updating
<1>3. handler'[x] = Reply(h, "updated") /\ \A y \in Contexts : y = x
  BY OthersStay DEF Write, Sound, Requested, SoleContext
<1>4. handler'[x].pc = "updated"
  BY <1>3 DEF Reply, Call
<1>5. /\ Here(h.ref) /\ old \in Entity /\ Met(old) /\ Origin(old, h.ref) /\ old.kind = e.kind
      /\ e.kind # "agents" => e.needs \subseteq Refs
      /\ e.kind \in {"agents", "domains"} => e.key = old.key
  <2>1. Here(h.ref)
    BY <1>2 DEF Here
  <2> QED BY <1>1, <1>2, <2>1, Stored DEF Rewritable
<1> HIDE DEF e, h
<1>6. \A r \in Refs : strings'[r] = IF r = h.ref THEN e ELSE strings[r]
  BY <1>1
<1>7. e # None
  BY <1>1, NoneAssumption
<1>8. \A r \in Refs : Here(r) =>
        /\ strings'[r] # None /\ strings'[r].kind = strings[r].kind
        /\ strings[r].kind = "domains" => strings'[r].key = strings[r].key
  BY <1>5, <1>6, <1>7 DEF Here
<1>9. \A k \in Kinds : sets[k] \subseteq sets'[k]
  BY <1>1
<1>10. \A r \in Refs : r # h.ref /\ Here(r) => ~SameKey(strings[r], e)
  BY <1>1, WriteAlone DEF e, h
<1>11. Kept'
  <2>1. ASSUME NEW r \in Refs, strings'[r] # None
        PROVE  Origin(strings'[r], r) /\ MetNext(strings'[r])
    <3>1. CASE r = h.ref
      <4>1. Origin(e, r)
        <5>1. PICK p \in Posts : /\ p[1].kind = old.kind /\ p[1].needs = old.needs
                                 /\ p[1].key = old.key \/ old.kind \in Renamed
          BY <1>5 DEF Origin
        <5>2. CASE e.kind \in Renamed
          BY <1>2, <1>5, <3>1, <5>1, <5>2 DEF Origin
        <5>3. CASE e.kind \notin Renamed
          <6>1. e.key = old.key
            BY <1>1, <1>5, <5>3 DEF Renamed, Kinds
          <6> QED BY <1>2, <1>5, <5>1, <5>3, <6>1 DEF Origin
        <5> QED BY <5>2, <5>3
      <4>2. Met(e)
        BY <1>2, <1>5 DEF Met
      <4>3. MetNext(e)
        BY <1>1, <1>5, <1>8, <1>9, <4>2, MetGrows DEF Sound
      <4> QED BY <1>6, <3>1, <4>1, <4>3
    <3>2. CASE r # h.ref
      <4>1. Here(r) /\ strings'[r] = strings[r]
        BY <1>6, <2>1, <3>2 DEF Here
      <4>2. MetNext(strings[r])
        BY <1>8, <1>9, <4>1, Stored, MetGrows DEF Sound
      <4> QED BY <4>1, <4>2, Stored
    <3> QED BY <3>1, <3>2
  <2>2. ASSUME NEW r \in Refs, NEW q \in Refs, strings'[r] # None, strings'[q] # None,
               SameKey(strings'[r], strings'[q])
        PROVE  r = q
    <3>1. SameKey(strings'[q], strings'[r])
      BY <2>2 DEF SameKey
    <3>2. CASE r # h.ref /\ q # h.ref
      BY <1>6, <2>2, <3>2 DEF Sound, Consistent, Kept, Here
    <3>3. CASE r = h.ref \/ q = h.ref
      BY <1>6, <1>10, <2>2, <3>1, <3>3 DEF Here
    <3> QED BY <3>2, <3>3
  <2> QED BY <1>1, <2>1, <2>2, KeptNext
<1>12. Remembered'
  <2> SUFFICES ASSUME NEW k \in Kinds \ {"agents"}, NEW i \in Keys, cache'[x][k][i] = "absent",
                      NEW r \in Refs, strings'[r] # None, strings'[r].kind = k, strings'[r].key = i
               PROVE  FALSE
    BY <1>3 DEF Remembered, Here
  <2>1. cache[x][k][i] = "absent" /\ ~(k = h.kind /\ i = e.key)
    BY <1>1, Told DEF Sound, Memory
  <2>2. Here(r) /\ strings[r].kind = k /\ strings[r].key = i /\ handler[x].pc # "sadd"
    BY <1>1, <1>6, <2>1 DEF Here, h
  <2> QED BY <2>1, <2>2, AbsentIsFree
<1>13. Checked(handler[x])'
  BY <1>4 DEF Checked, Creating, Updating, Deleting, Replies
<1> QED BY <1>3, <1>11, <1>12, <1>13 DEF Consistent

\* A delete takes nothing that anything needs.
LEMMA ConsistentDelKey ==
  ASSUME Sound, NEW x \in Contexts, DelKey(x)
  PROVE  Consistent'
<1> DEFINE h == handler[x]
<1>1. /\ h \in Handler /\ Staged(h) /\ h.pc = "del" /\ h.verb = "DELETE" /\ Checked(h)
      /\ h.ref \in Refs /\ h.kind \in Kinds
      /\ strings \in [Refs -> Entity \cup {None}]
      /\ sets \in [Kinds -> SUBSET Refs]
      /\ strings' = [strings EXCEPT ![h.ref] = None] /\ sets' = sets /\ cache' = cache
  BY OpenCall DEF Sound, DelKey, Consistent, Staged, Replies
<1>2. /\ h.kind = "domains" => strings[h.ref] = h.body
      /\ h.kind \in Searched => \A r \in Refs : Here(r) => ~Dependent(h, strings[r])
      /\ h.ref \in Generated[h.kind]
  BY <1>1 DEF Checked, Deleting, Sound, Orderly, Owned, Closed, Replies
<1>3. handler'[x] \in {Reply(h, "notFound"), At(h, "srem")} /\ \A y \in Contexts : y = x
  BY OthersStay DEF DelKey, Sound, Requested, SoleContext
<1>4. handler'[x].pc \in {"notFound", "srem"} /\ handler'[x].verb = "DELETE"
  BY <1>1, <1>3 DEF Reply, At, Call
<1> HIDE DEF h
<1>5. \A r \in Refs : strings'[r] = IF r = h.ref THEN None ELSE strings[r]
  BY <1>1
<1>6. \A k, l \in Kinds : Generated[k] \cap Generated[l] # {} => k = l
  BY DEF Sound, Requested, OwnRefs
<1>7. ASSUME NEW r \in Refs, strings'[r] # None PROVE MetNext(strings'[r])
  <2> DEFINE e == strings[r]
  <2>1. Here(r) /\ strings'[r] = e /\ r # h.ref
    BY <1>5, <1>7 DEF Here
  <2>2. e \in Entity /\ e.kind \in Kinds /\ Met(e) /\ Origin(e, r)
    BY <2>1, Stored DEF Entity
  <2>3. h.kind \in Searched => ~Dependent(h, e)
    BY <1>2, <2>1
  <2>4. \E p \in Posts : p[1].kind = e.kind /\ p[1].needs = e.needs
    BY <2>2 DEF Origin
  <2> HIDE DEF e
  <2>5. /\ e.kind \in {"gateways", "peers"} => e.needs = {}
        /\ e.kind = "numbers" => e.needs \subseteq Generated["gateways"]
        /\ e.kind = "domains" => e.needs \subseteq Generated["numbers"]
        /\ e.kind # "agents" => e.needs \subseteq Refs
    BY <2>2, <2>4, Names
  <2>6. ASSUME NEW n \in e.needs, e.kind # "agents" PROVE strings'[n] # None
    <3>1. n \in Refs /\ strings[n] # None
      BY <2>2, <2>5, <2>6 DEF Met
    <3>2. n # h.ref
      <4> SUFFICES ASSUME n = h.ref PROVE FALSE
        OBVIOUS
      <4>1. CASE e.kind = "numbers"
        <5>1. h.kind = "gateways"
          BY <1>1, <1>2, <1>6, <2>5, <4>1 DEF Kinds
        <5> QED BY <2>3, <2>6, <4>1, <5>1 DEF Dependent, DependentKind, NameOf, Searched
      <4>2. CASE e.kind = "domains"
        <5>1. h.kind = "numbers"
          BY <1>1, <1>2, <1>6, <2>5, <4>2 DEF Kinds
        <5> QED BY <2>3, <2>6, <4>2, <5>1 DEF Dependent, DependentKind, NameOf, Searched
      <4> QED BY <2>2, <2>5, <2>6, <4>1, <4>2 DEF Kinds
    <3> QED BY <1>5, <3>1, <3>2
  <2>7. ASSUME NEW n \in e.needs, e.kind = "agents"
        PROVE  \E q \in Refs : /\ q \in sets'["domains"] /\ strings'[q] # None
                               /\ strings'[q].kind = "domains" /\ strings'[q].key = n
    <3>1. PICK q \in Listed("domains") : strings[q].key = n
      BY <2>2, <2>7 DEF Met
    <3>2. q \in Refs /\ q \in sets["domains"] /\ strings[q] # None /\ strings[q].kind = "domains"
      BY <1>1, <3>1 DEF Listed, Kinds
    <3>3. q # h.ref
      <4> SUFFICES ASSUME q = h.ref PROVE FALSE
        OBVIOUS
      <4>1. q \in Generated["domains"]
        BY <3>2, Stored DEF Here
      <4>2. h.kind = "domains"
        BY <1>1, <1>2, <1>6, <4>1 DEF Kinds
      <4>3. n = NameOf(h.kind, h.ref, h.body)
        BY <1>2, <3>1, <4>2 DEF NameOf
      <4> QED BY <2>3, <2>7, <4>2, <4>3 DEF Dependent, DependentKind, Searched
    <3> QED BY <1>1, <1>5, <3>1, <3>2, <3>3
  <2>8. MetNext(e)
    BY <2>6, <2>7 DEF MetNext
  <2> QED BY <2>1, <2>8
<1>8. Kept'
  <2>1. ASSUME NEW r \in Refs, strings'[r] # None PROVE Origin(strings'[r], r)
    BY <1>5, <2>1, Stored DEF Here
  <2>2. \A r, q \in Refs : strings'[r] # None /\ strings'[q] # None /\ SameKey(strings'[r], strings'[q])
                             => r = q
    BY <1>5 DEF Sound, Consistent, Kept, Here
  <2> QED BY <1>1, <1>7, <2>1, <2>2, KeptNext
<1>9. Remembered'
  <2> SUFFICES ASSUME NEW k \in Kinds \ {"agents"}, NEW i \in Keys, cache[x][k][i] = "absent",
                      NEW r \in Refs, strings'[r] # None, strings'[r].kind = k, strings'[r].key = i
               PROVE  FALSE
    BY <1>1, <1>3 DEF Remembered, Here
  <2>1. Here(r) /\ strings[r].kind = k /\ strings[r].key = i /\ handler[x].pc # "sadd"
    BY <1>1, <1>5 DEF Here, h
  <2> QED BY <2>1, AbsentIsFree
<1>10. Checked(handler[x])'
  BY <1>4 DEF Checked, Creating, Updating, Deleting, Replies
<1> QED BY <1>3, <1>8, <1>9, <1>10 DEF Consistent

\* Nor does it when it takes the ref, of what is no longer there, off its list.
LEMMA ConsistentRemoveMember ==
  ASSUME Sound, NEW x \in Contexts, RemoveMember(x)
  PROVE  Consistent'
<1> DEFINE h == handler[x]
<1>1. /\ h \in Handler /\ Staged(h) /\ h.pc = "srem" /\ h.ref \in Refs /\ h.kind \in Kinds
      /\ sets \in [Kinds -> SUBSET Refs]
      /\ sets' = [sets EXCEPT ![h.kind] = @ \ {h.ref}] /\ strings' = strings /\ cache' = cache
  BY OpenCall DEF Sound, RemoveMember, Staged, Replies
<1>2. strings[h.ref] = None
  BY <1>1 DEF Sound, Tracked, Emptied
<1>3. handler'[x] \in {Reply(h, "deleted"), Reply(h, "notFound")} /\ \A y \in Contexts : y = x
  BY OthersStay DEF RemoveMember, Sound, Requested, SoleContext
<1>4. handler'[x].pc \in {"deleted", "notFound"}
  BY <1>3 DEF Reply, Call
<1> HIDE DEF h
<1>5. Listed("domains")' = Listed("domains")
  <2>1. \A r \in Refs : strings[r] # None => (r \in sets'["domains"] <=> r \in sets["domains"])
    BY <1>1, <1>2 DEF Kinds
  <2>2. sets["domains"] \subseteq Refs /\ sets'["domains"] \subseteq Refs
    BY <1>1 DEF Kinds
  <2> QED BY <1>1, <2>1, <2>2 DEF Listed
<1>6. Kept'
  BY <1>1, <1>5 DEF Sound, Consistent, Kept, Met, Here, Origin
<1>7. Remembered'
  <2> SUFFICES ASSUME NEW k \in Kinds \ {"agents"}, NEW i \in Keys, cache[x][k][i] = "absent",
                      NEW r \in Refs, Here(r), strings[r].kind = k, strings[r].key = i
               PROVE  FALSE
    BY <1>1, <1>3 DEF Remembered, Here
  <2> QED BY <1>1, AbsentIsFree DEF h
<1>8. Checked(handler[x])'
  BY <1>4 DEF Checked, Creating, Updating, Deleting, Replies
<1> QED BY <1>3, <1>6, <1>7, <1>8 DEF Consistent

\* What expires in a cache says nothing any more.
LEMMA ConsistentExpire ==
  ASSUME Sound, NEW x \in Contexts, NEW kind \in Kinds, NEW key \in Keys, Expire(x, kind, key)
  PROVE  Consistent'
<1>1. /\ strings' = strings /\ sets' = sets /\ handler' = handler
      /\ Remember(x, kind, key, "empty") /\ \A y \in Contexts : y = x
  BY DEF Expire, Sound, Requested, SoleContext
<1>2. Kept'
  BY <1>1, KeptStays DEF Sound, Consistent
<1>3. Remembered'
  <2>1. \A k \in Kinds \ {"agents"}, i \in Keys :
          cache'[x][k][i] = "absent" => cache[x][k][i] = "absent"
    BY <1>1, Told DEF Sound, Memory
  <2> QED BY <1>1, <2>1 DEF Sound, Consistent, Remembered, Here
<1>4. Checked(handler[x])'
  BY <1>1, CheckedStays DEF Sound, Consistent
<1> QED BY <1>1, <1>2, <1>3, <1>4 DEF Consistent

-----------------------------------------------------------------------------
(* The theorems.                                                           *)

\* Nothing is stored, remembered or found out at first.
LEMMA ConsistentInit == Init => Consistent
<1> SUFFICES ASSUME Init PROVE Consistent
  OBVIOUS
<1>1. \A r \in Refs : ~Here(r)
  BY DEF Init, Here
<1>2. \A x \in Contexts, k \in Kinds, i \in Keys : cache[x][k][i] = "empty"
  BY DEF Init, NothingKnown
<1>3. \A x \in Contexts : handler[x].pc = "free"
  BY DEF Init, Idle, Call
<1>4. Kept
  BY <1>1 DEF Kept
<1>5. Remembered
  BY <1>2 DEF Remembered
<1>6. \A x \in Contexts : Checked(handler[x])
  BY <1>3 DEF Checked, Creating, Updating, Deleting, Replies
<1> QED BY <1>4, <1>5, <1>6 DEF Consistent

\* What an invariant of a single context starts from.
Invariant == Track /\ Consistency

\* Every step keeps things consistent, as long as no command fails.
LEMMA ConsistencyStep ==
  ASSUME Requested, Types, Invariant, [Next]_vars
  PROVE  Invariant'
<1>1. Track'
  BY TrackStep DEF Requested, Calm, Invariant
<1> SUFFICES ASSUME mishaps' = 0 PROVE Consistent'
  BY <1>1 DEF Invariant, Consistency
<1>2. mishaps = 0
  BY MishapsStay
<1>3. Sound
  BY <1>2 DEF Sound, Invariant, Track, Consistency
<1>4. ~Mishap
  BY <1>2 DEF Mishap
<1>5. ASSUME NEW x \in Contexts, Request(x) PROVE Consistent'
  BY <1>3, <1>5, ConsistentRequest
<1>6. ASSUME NEW x \in Contexts, Proceed(x) PROVE Consistent'
  BY <1>3, <1>6, ConsistentListMembers, ConsistentGetMember, ConsistentGetDependency,
     ConsistentCountDomains, ConsistentSearchDuplicates, ConsistentSetKey, ConsistentAddMember,
     ConsistentReadOld, ConsistentWrite, ConsistentInvalidate, ConsistentReadDoomed,
     ConsistentSearchDependents, ConsistentDelKey, ConsistentRemoveMember DEF Proceed
<1>7. ASSUME NEW x \in Contexts, NEW kind \in Kinds, NEW key \in Keys, Expire(x, kind, key)
      PROVE  Consistent'
  BY <1>3, <1>7, ConsistentExpire
<1>8. CASE UNCHANGED vars
  <2>1. strings' = strings /\ sets' = sets /\ cache' = cache /\ handler' = handler
    BY <1>8 DEF vars
  <2>2. Kept'
    BY <1>3, <2>1, KeptStays DEF Sound, Consistent
  <2>3. Remembered'
    BY <1>3, <2>1 DEF Sound, Consistent, Remembered, Here
  <2>4. \A x \in Contexts : Checked(handler[x])'
    BY <1>3, <2>1, CheckedStays DEF Sound, Consistent
  <2> QED BY <2>2, <2>3, <2>4 DEF Consistent
<1> QED BY <1>4, <1>5, <1>6, <1>7, <1>8 DEF Next

\* So things are consistent in every run.
LEMMA ConsistencyAlways == ASSUME Requested PROVE Spec => []Invariant
<1>1. Init => Invariant
  BY TrackedInit, OrderlyInit, ConsistentInit DEF Invariant, Track, Consistency
<1>2. Types /\ Invariant /\ [Next]_vars => Invariant'
  BY ConsistencyStep
<1> QED BY <1>1, <1>2, TypesAlways, PTL DEF Spec

(***************************************************************************)
(* With one replica, and as long as no command fails, what every call has  *)
(* found out so far is still so at each of its commands: that what it      *)
(* creates has what it needs and a key of its own, that an update leaves   *)
(* both alone, that nothing needs what it deletes; and a cache remembers   *)
(* that a key is free only as long as it is, or is being inserted.         *)
(***************************************************************************)
THEOREM ConsistencyHolds == ASSUME Requested PROVE Spec => []Consistency
<1>1. Invariant => Consistency
  BY DEF Invariant
<1> QED BY <1>1, ConsistencyAlways, PTL

(***************************************************************************)
(* With one replica, and as long as no command fails, no two listed        *)
(* entities of a kind have the same key, although an insert asks a cache   *)
(* whether its key is taken, or finds it out by commands of its own, and   *)
(* writes later: what the cache says is free is free.                      *)
(***************************************************************************)
THEOREM KeysUnique == ASSUME Requested PROVE Spec => []KeysAreUnique
<1>1. Types /\ Invariant => KeysAreUnique
  <2> SUFFICES ASSUME Types, Invariant, Quiet, NEW k \in Kinds, NEW r \in Listed(k), NEW q \in Listed(k),
                      SameKey(strings[r], strings[q])
               PROVE  r = q
    BY DEF KeysAreUnique
  <2>1. r \in Refs /\ q \in Refs /\ Here(r) /\ Here(q)
    BY DEF Types, TypeOK, Listed, Here
  <2> QED BY <2>1 DEF Invariant, Consistency, Quiet, Consistent, Kept
<1> QED BY <1>1, ConsistencyAlways, TypesAlways, PTL

(***************************************************************************)
(* And everything that is stored has what it needs, although creations     *)
(* check what they depend on, and deletions what depends on them, before   *)
(* they write.                                                             *)
(***************************************************************************)
THEOREM ReferencesKept == ASSUME Requested PROVE Spec => []ReferencesHold
<1>1. Invariant => ReferencesHold
  BY DEF Invariant, Consistency, Consistent, Kept, Here, Quiet, ReferencesHold
<1> QED BY <1>1, ConsistencyAlways, PTL

-----------------------------------------------------------------------------
(* One context implements Resources.                                       *)

\* What SREM is about to take off the list of its kind is on it.
Leaving == mishaps = 0 =>
  \A x \in Contexts : handler[x].pc = "srem" => handler[x].ref \in sets[handler[x].kind]

\* What DEL removes is of the kind that is deleted.
LEMMA Doomed ==
  ASSUME Sound, NEW x \in Contexts, handler[x].pc = "del", Here(handler[x].ref)
  PROVE  strings[handler[x].ref].kind = handler[x].kind
<1> DEFINE h == handler[x]
<1>1. h.ref \in Refs /\ h.kind \in Kinds /\ h.ref \in Generated[h.kind]
  BY OpenCall DEF Sound, Staged, Replies, Orderly, Owned, Closed
<1>2. strings[h.ref].kind \in Kinds /\ h.ref \in Generated[strings[h.ref].kind]
  BY <1>1, Stored DEF Entity
<1> QED BY <1>1, <1>2 DEF Sound, Requested, OwnRefs

\* It is on the list when DEL has removed it, and nothing else writes then.
LEMMA LeavingStep ==
  ASSUME Requested, Types, Invariant, Leaving, [Next]_vars
  PROVE  Leaving'
<1> SUFFICES ASSUME mishaps' = 0, NEW x \in Contexts, handler'[x].pc = "srem"
             PROVE  handler'[x].ref \in sets'[handler'[x].kind]
  BY DEF Leaving
<1>1. mishaps = 0 /\ StepKinds
  BY MishapsStay, TypesStep, NextKinds DEF Requested
<1>2. Sound /\ (handler[x].pc = "srem" => handler[x].ref \in sets[handler[x].kind])
  BY <1>1 DEF Sound, Invariant, Track, Consistency, Leaving
<1>3. \A y \in Contexts : y = x
  BY DEF Requested, SoleContext
<1>4. ~Begins(x) /\ ~GoesOn(x)
  BY OthersStay DEF Begins, GoesOn, Moved
<1>5. ~SetKey(x) /\ ~AddMember(x) /\ ~Write(x) /\ ~RemoveMember(x)
  BY OthersStay DEF SetKey, AddMember, Write, RemoveMember, At, Reply, Call
<1>6. CASE DelKey(x)
  <2>1. /\ handler[x].pc = "del" /\ Here(handler[x].ref) /\ sets' = sets
        /\ handler'[x].ref = handler[x].ref /\ handler'[x].kind = handler[x].kind
    BY <1>6, OthersStay DEF DelKey, At, Reply, Call, Here
  <2>2. handler[x].ref \in Refs
    BY <2>1, OpenCall DEF Staged, Replies
  <2> QED BY <1>2, <2>1, <2>2, Doomed, StoredIsListed
<1>7. CASE UNCHANGED <<strings, sets, handler>>
  BY <1>2, <1>7
<1> QED BY <1>1, <1>3, <1>4, <1>5, <1>6, <1>7 DEF StepKinds, Writes

\* What a step of x shows of its call.
LEMMA SeenStep ==
  ASSUME Types, NEW x \in Contexts, NEW g, Become(x, g)
  PROVE  /\ Calls[x] = Seen(handler[x])
         /\ Calls' = [Calls EXCEPT ![x] = Seen(g)]
<1>1. handler'[x] = g /\ \A y \in Contexts : y # x => handler'[y] = handler[y]
  BY OthersStay
<1>2. \A y \in Contexts : Seen(handler[y])' = Seen(handler'[y])
  BY DEF Seen, Outcome
<1> QED BY <1>1, <1>2 DEF Calls

\* What is told of a call by where it is.
LEMMA Outcomes ==
  ASSUME NEW pc \in Replies \cup Finds \cup Commands
  PROVE  /\ pc \in Refusals => Outcome(pc) = "refused"
         /\ pc \notin Replies \cup {"sadd", "srem"} => Outcome(pc) = "pending"
         /\ pc \in {"sadd", "srem"} => Outcome(pc) = "made"
         /\ pc \in {"created", "updated", "deleted"} => Outcome(pc) = "done"
         /\ pc \in Replies => Outcome(pc) \in {"none", "refused", "done"}
BY DEF Outcome, Replies, Refusals, Finds, Commands

\* A call that begins is a request, refused on the spot or not.
LEMMA PromiseBegins ==
  ASSUME Types, NEW x \in Contexts, Begins(x)
  PROVE  Promise!Request(x)
<1>1. PICK g \in Handler :
        /\ Become(x, g) /\ UNCHANGED strings
        /\ g.pc \notin (Replies \ Refusals) \cup {"sadd", "srem", "write"}
        /\ g.verb \in {"POST", "PUT", "DELETE"} /\ g.kind \in Kinds
  BY DEF Begins, Moved
<1>2. handler[x].pc \in Replies
  BY DEF Begins, Closed
<1>3. Outcome(handler[x].pc) \in {"none", "refused", "done"} /\ Outcome(g.pc) \in {"pending", "refused"}
  BY <1>1, <1>2, Outcomes DEF Handler
<1>4. Calls[x] = Seen(handler[x]) /\ Calls' = [Calls EXCEPT ![x] = Seen(g)]
  BY <1>1, SeenStep
<1>5. /\ Seen(handler[x]).outcome = Outcome(handler[x].pc)
      /\ Seen(g) = [verb |-> g.verb, kind |-> g.kind, outcome |-> Outcome(g.pc)]
  BY DEF Seen
<1> QED BY <1>1, <1>3, <1>4, <1>5 DEF Promise!Request, Promise!Kinds, Kinds

\* A call that goes on shows nothing, unless it is refused.
LEMMA PromiseGoesOn ==
  ASSUME Types, NEW x \in Contexts, GoesOn(x)
  PROVE  Promise!Refuse(x) \/ UNCHANGED <<strings, Calls>>
<1>1. PICK g \in Handler :
        /\ Become(x, g) /\ UNCHANGED strings
        /\ g.pc \notin (Replies \ Refusals) \cup {"sadd", "srem"}
        /\ g.verb = handler[x].verb /\ g.kind = handler[x].kind
  BY DEF GoesOn, Moved
<1>2. handler[x].pc \notin Replies \cup {"sadd", "srem"} /\ handler[x] \in Handler
  BY OpenCall DEF GoesOn, Closed
<1>3. Outcome(handler[x].pc) = "pending" /\ Outcome(g.pc) \in {"pending", "refused"}
  BY <1>1, <1>2, Outcomes DEF Handler
<1>4. /\ Calls[x] = Seen(handler[x])
      /\ Calls' = [Calls EXCEPT ![x] = Seen(g)]
  BY <1>1, SeenStep
<1>5. Seen(g) = [Seen(handler[x]) EXCEPT !.outcome = Outcome(g.pc)]
  BY <1>1 DEF Seen
<1>6. Calls' = [Calls EXCEPT ![x].outcome = Outcome(g.pc)]
  BY <1>4, <1>5
<1>7. CASE Outcome(g.pc) = "refused"
  <2>1. Calls[x].outcome = "pending"
    BY <1>3, <1>4 DEF Seen
  <2> QED BY <1>1, <1>6, <1>7, <2>1 DEF Promise!Refuse, Promise!Settle
<1>8. CASE Outcome(g.pc) = "pending"
  <2>1. Seen(g) = Seen(handler[x])
    BY <1>1, <1>3, <1>8 DEF Seen
  <2>2. Calls' = Calls
    BY <1>4, <2>1 DEF Calls
  <2> QED BY <1>1, <2>2
<1> QED BY <1>3, <1>7, <1>8

\* The write of a call settles it.
LEMMA Settles ==
  ASSUME Types, NEW x \in Contexts, handler[x].pc \in {"set", "write", "del"},
         NEW g, Become(x, g), g.verb = handler[x].verb, g.kind = handler[x].kind,
         g.pc \in Replies \cup Finds \cup Commands
  PROVE  /\ Promise!Settle(x, Outcome(g.pc))
         /\ Calls[x].verb = handler[x].verb /\ Calls[x].kind = handler[x].kind
<1>1. Outcome(handler[x].pc) = "pending"
  BY Outcomes DEF Commands, Replies
<1>2. /\ Calls[x] = Seen(handler[x])
      /\ Calls' = [Calls EXCEPT ![x] = Seen(g)]
  BY SeenStep
<1>3. Seen(g) = [Seen(handler[x]) EXCEPT !.outcome = Outcome(g.pc)]
  BY DEF Seen
<1>4. Calls' = [Calls EXCEPT ![x].outcome = Outcome(g.pc)]
  BY <1>2, <1>3
<1>5. Calls[x].outcome = "pending" /\ Calls[x].verb = handler[x].verb /\ Calls[x].kind = handler[x].kind
  BY <1>1, <1>2 DEF Seen
<1> QED BY <1>4, <1>5 DEF Promise!Settle

\* What is met is provided.
LEMMA Provides ==
  ASSUME Types, NEW e \in Entity, Met(e), e.kind # "agents" => e.needs \subseteq Refs
  PROVE  Promise!Provided(e)
<1> SUFFICES ASSUME NEW n \in e.needs PROVE \E r \in Promise!There : Promise!Means(e, n, r)
  BY DEF Promise!Provided
<1>1. CASE e.kind = "agents"
  <2>1. PICK r \in Listed("domains") : strings[r].key = n
    BY <1>1 DEF Met
  <2>2. r \in Promise!There /\ strings[r].kind = "domains"
    BY <2>1 DEF Listed, Types, TypeOK, Kinds, Promise!There
  <2> QED BY <1>1, <2>1, <2>2 DEF Promise!Means
<1>2. CASE e.kind # "agents"
  BY <1>2 DEF Met, Promise!There, Promise!Means
<1> QED BY <1>1, <1>2

\* The SET of an insert creates.
LEMMA PromiseSetKey ==
  ASSUME Sound, NEW x \in Contexts, SetKey(x)
  PROVE  Promise!Create(x, handler[x].ref)
<1> DEFINE h == handler[x]
           e == h.body
           r == h.ref
           g == At(h, "sadd")
<1>1. /\ h \in Handler /\ Staged(h) /\ h.pc = "set" /\ h.verb = "POST" /\ Checked(h)
      /\ r \in Refs /\ e \in Entity /\ e.kind = h.kind
      /\ strings \in [Refs -> Entity \cup {None}]
      /\ strings' = [strings EXCEPT ![r] = e] /\ Become(x, g)
  BY OpenCall DEF Sound, SetKey, Consistent, Staged, Replies
<1>2. /\ \E p \in Posts : p[1] = e
      /\ strings[r] = None /\ Met(e)
      /\ \A q \in Refs : Here(q) => ~SameKey(strings[q], e)
  BY <1>1 DEF Checked, Creating, Replies
<1>3. g.pc = "sadd" /\ g.verb = h.verb /\ g.kind = h.kind
  BY DEF At, Call
<1>4. Promise!Provided(e)
  BY <1>1, <1>2, Names, Provides DEF Sound
<1>5. ~Promise!Taken(e, r)
  BY <1>2 DEF Promise!Taken, Promise!There, Promise!Same, Here, SameKey
<1> HIDE DEF g, e, r, h
<1>6. Outcome(g.pc) = "made"
  BY <1>3 DEF Outcome
<1>7. Promise!Settle(x, "made") /\ Calls[x].verb = "POST" /\ Calls[x].kind = e.kind
  BY <1>1, <1>3, <1>6, Settles DEF Sound, Commands, h
<1>8. strings'[r] = e /\ strings' = [strings EXCEPT ![r] = strings'[r]]
  BY <1>1
<1>9. e \in Promise!Entity
  BY <1>1 DEF Promise!Entity, Promise!Kinds, Entity, Kinds
<1>10. Promise!Place(x, r)
  BY <1>4, <1>5, <1>7, <1>8, <1>9 DEF Promise!Place
<1>11. r \notin Promise!There
  BY <1>2 DEF Promise!There
<1> QED BY <1>7, <1>10, <1>11 DEF Promise!Create, Promise!Make, r, h

\* The SET of an update updates.
LEMMA PromiseWrite ==
  ASSUME Sound, NEW x \in Contexts, Write(x)
  PROVE  Promise!Update(x, handler[x].ref)
<1> DEFINE h == handler[x]
           e == h.body
           r == h.ref
           old == strings[r]
           g == Reply(h, "updated")
<1>1. /\ h \in Handler /\ Staged(h) /\ h.pc = "write" /\ h.verb = "PUT" /\ Checked(h)
      /\ r \in Refs /\ e \in Entity /\ e.kind = h.kind
      /\ strings \in [Refs -> Entity \cup {None}]
      /\ strings' = [strings EXCEPT ![r] = e] /\ Become(x, g)
  BY OpenCall DEF Sound, Write, Consistent, Staged, Replies
<1>2. old # None /\ Rewritable(old, e) /\ e.needs = old.needs
  BY <1>1 DEF Checked, Updating
<1>3. /\ Met(old) /\ old.kind = e.kind
      /\ old.kind = "domains" => e.key = old.key
      /\ old.kind # "agents" => old.needs \subseteq Refs
  BY <1>1, <1>2, Stored DEF Rewritable, Here
<1>4. g.pc = "updated" /\ g.verb = h.verb /\ g.kind = h.kind
  BY DEF Reply, Call
<1>5. Met(e)
  BY <1>2, <1>3 DEF Met
<1>6. Promise!Provided(e)
  BY <1>1, <1>2, <1>3, <1>5, Provides DEF Sound
<1>7. ~Promise!Taken(e, r)
  BY <1>1, WriteAlone DEF Promise!Taken, Promise!There, Promise!Same, Here, SameKey
<1> HIDE DEF g, e, r, h
<1>8. Outcome(g.pc) = "done"
  BY <1>4 DEF Outcome
<1>9. Promise!Settle(x, "done") /\ Calls[x].verb = "PUT" /\ Calls[x].kind = e.kind
  BY <1>1, <1>4, <1>8, Settles DEF Sound, Replies, h
<1>10. strings'[r] = e /\ strings' = [strings EXCEPT ![r] = strings'[r]]
  BY <1>1
<1>11. e \in Promise!Entity
  BY <1>1 DEF Promise!Entity, Promise!Kinds, Entity, Kinds
<1>12. Promise!Place(x, r)
  BY <1>6, <1>7, <1>9, <1>10, <1>11 DEF Promise!Place
<1>13. r \in Promise!There
  BY <1>1, <1>2 DEF Promise!There
<1> QED BY <1>3, <1>9, <1>10, <1>12, <1>13 DEF Promise!Update, Promise!Make, r, h

\* DEL deletes, or finds nothing to delete.
LEMMA PromiseDelKey ==
  ASSUME Sound, NEW x \in Contexts, DelKey(x)
  PROVE  Promise!Delete(x, handler[x].ref) \/ Promise!Refuse(x)
<1> DEFINE h == handler[x]
           r == h.ref
<1>1. /\ h \in Handler /\ Staged(h) /\ h.pc = "del" /\ h.verb = "DELETE" /\ Checked(h)
      /\ r \in Refs /\ h.kind \in Kinds
      /\ strings \in [Refs -> Entity \cup {None}]
      /\ strings' = [strings EXCEPT ![r] = None]
  BY OpenCall DEF Sound, DelKey, Consistent, Staged, Replies
<1>2. CASE strings[r] = None
  <2> DEFINE g == Reply(h, "notFound")
  <2>1. g.pc = "notFound" /\ g.verb = h.verb /\ g.kind = h.kind /\ Become(x, g)
    BY <1>2 DEF DelKey, Reply, Call
  <2> HIDE DEF g
  <2>2. Promise!Settle(x, Outcome(g.pc)) /\ Outcome(g.pc) = "refused"
    BY <1>1, <2>1, Settles DEF Outcome, Sound, Replies
  <2>3. strings' = strings
    BY <1>1, <1>2
  <2> QED BY <2>2, <2>3 DEF Promise!Refuse
<1>3. CASE strings[r] # None
  <2> DEFINE g == At(h, "srem")
  <2>1. g.pc = "srem" /\ g.verb = h.verb /\ g.kind = h.kind /\ Become(x, g)
    BY <1>3 DEF DelKey, At, Call
  <2> HIDE DEF g
  <2>2. Promise!Settle(x, "made") /\ Calls[x].verb = "DELETE" /\ Calls[x].kind = h.kind
    BY <1>1, <2>1, Settles DEF Outcome, Sound, Commands
  <2>3. /\ h.kind = "domains" => strings[r] = h.body
        /\ h.kind \in Searched => \A q \in Refs : Here(q) => ~Dependent(h, strings[q])
        /\ strings[r].kind = h.kind
    BY <1>1, <1>3, Doomed DEF Checked, Deleting, Here
  <2>4. ~Promise!Needed(r)
    <3> SUFFICES ASSUME NEW q \in Promise!There, NEW n \in strings[q].needs,
                        Promise!Means(strings[q], n, r)
                 PROVE  FALSE
      BY DEF Promise!Needed
    <3> DEFINE e == strings[q]
    <3>1. q \in Refs /\ Here(q)
      BY DEF Promise!There, Here
    <3>2. e \in Entity /\ e.kind \in Kinds /\ \E p \in Posts : p[1].kind = e.kind /\ p[1].needs = e.needs
      BY <3>1, Stored DEF Origin, Entity
    <3>3. /\ e.kind \in {"gateways", "peers"} => e.needs = {}
          /\ e.kind = "numbers" => e.needs \subseteq Generated["gateways"]
          /\ e.kind = "domains" => e.needs \subseteq Generated["numbers"]
      BY <3>2, Names
    <3>4. r \in Generated[h.kind]
      BY <1>1, <1>3, <2>3, Stored DEF Here
    <3>5. \A k, l \in Kinds : Generated[k] \cap Generated[l] # {} => k = l
      BY DEF Sound, Requested, OwnRefs
    <3>6. CASE e.kind = "agents"
      <4>1. h.kind = "domains" /\ h.body.key = n
        BY <2>3, <3>6 DEF Promise!Means
      <4> QED BY <2>3, <3>1, <3>6, <4>1 DEF Dependent, DependentKind, NameOf, Searched
    <3>7. CASE e.kind = "numbers"
      <4>1. n = r /\ h.kind = "gateways"
        BY <1>1, <3>3, <3>4, <3>5, <3>7 DEF Promise!Means, Kinds
      <4> QED BY <2>3, <3>1, <3>7, <4>1 DEF Dependent, DependentKind, NameOf, Searched
    <3>8. CASE e.kind = "domains"
      <4>1. n = r /\ h.kind = "numbers"
        BY <1>1, <3>3, <3>4, <3>5, <3>8 DEF Promise!Means, Kinds
      <4> QED BY <2>3, <3>1, <3>8, <4>1 DEF Dependent, DependentKind, NameOf, Searched
    <3> QED BY <3>2, <3>3, <3>6, <3>7, <3>8 DEF Kinds
  <2>5. r \in Promise!There
    BY <1>1, <1>3 DEF Promise!There
  <2> QED BY <1>1, <2>2, <2>3, <2>4, <2>5 DEF Promise!Delete, Promise!Make
<1> QED BY <1>2, <1>3

\* SADD and SREM answer what was made before.
LEMMA PromiseMembers ==
  ASSUME Sound, NEW x \in Contexts, AddMember(x) \/ RemoveMember(x),
         handler[x].pc = "srem" => handler[x].ref \in sets[handler[x].kind]
  PROVE  Promise!Answer(x)
<1> DEFINE h == handler[x]
<1>1. h.pc \in {"sadd", "srem"} /\ strings' = strings
  BY DEF AddMember, RemoveMember
<1>2. PICK pc \in {"created", "deleted"} : Become(x, Reply(h, pc))
  BY DEF AddMember, RemoveMember
<1>3. /\ Calls[x] = Seen(h)
      /\ Calls' = [Calls EXCEPT ![x] = Seen(Reply(h, pc))]
  BY <1>2, SeenStep DEF Sound
<1>4. Outcome(h.pc) = "made" /\ Outcome(pc) = "done"
  BY <1>1, <1>2 DEF Outcome
<1>5. Seen(Reply(h, pc)) = [Seen(h) EXCEPT !.outcome = "done"] /\ Seen(h).outcome = "made"
  BY <1>4 DEF Seen, Reply, Call
<1>6. Calls' = [Calls EXCEPT ![x].outcome = "done"]
  BY <1>3, <1>5
<1> QED BY <1>1, <1>3, <1>5, <1>6 DEF Promise!Answer

\* So every step is one of Resources, or shows nothing.
LEMMA PromiseStep ==
  ASSUME Requested, Types, Invariant, Leaving, [Next]_vars, mishaps' = 0
  PROVE  Promise!Next \/ UNCHANGED <<strings, Calls>>
<1>1. mishaps = 0 /\ StepKinds
  BY MishapsStay, TypesStep, NextKinds DEF Requested
<1>2. Sound /\ \A x \in Contexts : handler[x].pc = "srem" => handler[x].ref \in sets[handler[x].kind]
  BY <1>1 DEF Sound, Invariant, Track, Consistency, Leaving
<1>3. ASSUME NEW x \in Contexts, Begins(x) PROVE Promise!Next
  BY <1>3, PromiseBegins DEF Promise!Next
<1>4. ASSUME NEW x \in Contexts, GoesOn(x) PROVE Promise!Next \/ UNCHANGED <<strings, Calls>>
  BY <1>4, PromiseGoesOn DEF Promise!Next
<1>5. ASSUME NEW x \in Contexts, Writes(x) PROVE Promise!Next \/ UNCHANGED <<strings, Calls>>
  <2>1. handler[x].pc \in Commands
    BY <1>5 DEF Writes, SetKey, AddMember, Write, DelKey, RemoveMember, Commands
  <2>2. handler[x].ref \in Refs
    BY <2>1, OpenCall DEF Staged, Commands, Replies
  <2>3. CASE SetKey(x)
    BY <1>2, <2>2, <2>3, PromiseSetKey DEF Promise!Next
  <2>4. CASE Write(x)
    BY <1>2, <2>2, <2>4, PromiseWrite DEF Promise!Next
  <2>5. CASE DelKey(x)
    BY <1>2, <2>2, <2>5, PromiseDelKey DEF Promise!Next
  <2>6. CASE AddMember(x) \/ RemoveMember(x)
    BY <1>2, <2>6, PromiseMembers DEF Promise!Next
  <2> QED BY <1>5, <2>3, <2>4, <2>5, <2>6 DEF Writes
<1>6. CASE UNCHANGED <<strings, sets, handler>>
  BY <1>6 DEF Calls, Seen, Outcome
<1> QED BY <1>1, <1>3, <1>4, <1>5, <1>6 DEF StepKinds

(***************************************************************************)
(* One context implements Resources as long as no command fails: a call    *)
(* that is many commands to Redis happens at one of them, with its key     *)
(* free, what it needs there and what it removes needed by nothing at that *)
(* moment, and what is replied is what was done.                           *)
(***************************************************************************)
THEOREM ResourcesImplemented ==
  ASSUME Requested, MaxMishaps = 0
  PROVE  Spec => ImplementsResources
<1>1. Init => Promise!Init
  BY DEF Init, Promise!Init, Calls, Seen, Outcome, Idle, Call
<1>2. Init => Leaving
  BY DEF Init, Leaving, Idle, Call
<1>3. Types /\ Invariant /\ Leaving /\ [Next]_vars => Leaving'
  BY LeavingStep
<1>4. Types /\ Types' /\ Invariant /\ Leaving /\ [Next]_vars
        => [Promise!Next]_<<strings, Calls>>
  <2> SUFFICES ASSUME Types, Types', Invariant, Leaving, [Next]_vars
               PROVE  Promise!Next \/ UNCHANGED <<strings, Calls>>
    OBVIOUS
  <2>1. mishaps' = 0
    BY DEF Types, TypeOK
  <2> QED BY <2>1, PromiseStep
<1> QED BY <1>1, <1>2, <1>3, <1>4, ConsistencyAlways, TypesAlways, PTL
       DEF Spec, ImplementsResources, Promise!Spec
=============================================================================
