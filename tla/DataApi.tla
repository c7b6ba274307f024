------------------------------ MODULE DataApi -------------------------------
(***************************************************************************)
(* The REST API of scaipproxy creating, updating and deleting agents,      *)
(* peers, domains, numbers and gateways in Redis.                          *)
(*                                                                         *)
(* A REST context handles one call at a time; the contexts of different    *)
(* replicas interleave at every Redis command.  A call checks first what   *)
(* the entity depends on, or what depends on it, and whether its key is    *)
(* taken, by commands of their own, and writes afterwards.  Whether a key  *)
(* is taken is remembered in a cache per context and collection.           *)
(***************************************************************************)
EXTENDS Naturals, FiniteSets

CONSTANTS
  Contexts,    \* REST contexts, one per replica
  Refs,        \* metadata.ref values
  Keys,        \* domain URIs, telephone URLs, user names, gateway addresses
  None,
  Generated,   \* kind -> the refs that insert generates for it
  Posts,       \* <<entity, ref>> that clients POST; None asks for a new ref
  Puts,        \* <<entity, ref>> that clients PUT
  Deletes,     \* <<kind, ref>> that clients DELETE
  MaxMishaps   \* bound: commands that fail and restarts of a context

Kinds == {"gateways", "numbers", "domains", "agents", "peers"}

\* key is what identifies the entity among its kind.  An agent needs domains,
\* by their URI; a domain may need a number and a number needs a gateway, by ref.
Entity == [kind : Kinds, key : Keys, needs : SUBSET (Keys \cup Refs)]

ASSUME NoneAssumption == None \notin Entity \cup Refs \cup Kinds
ASSUME GeneratedAssumption == Generated \in [Kinds -> SUBSET Refs]
ASSUME RequestsAssumption ==
  /\ Posts \subseteq Entity \X (Refs \cup {None})
  /\ Puts \subseteq Entity \X Refs
  /\ Deletes \subseteq Kinds \X Refs
  /\ \A p \in Posts : p[1].kind = "numbers" => Cardinality(p[1].needs) = 1
  /\ \A p \in Posts : p[1].kind = "domains" => Cardinality(p[1].needs) <= 1
ASSUME MishapsAssumption == MaxMishaps \in Nat

VARIABLES
  strings,   \* Redis string keys: ref -> entity, or None
  sets,      \* Redis sets: collection -> refs
  cache,     \* context -> collection -> key -> what is remembered of it
  handler,   \* context -> the call it handles and where it is, or its reply
  mishaps    \* how many of the MaxMishaps have happened

vars == <<strings, sets, cache, handler, mishaps>>

-----------------------------------------------------------------------------
Replies == {"free", "created", "updated", "deleted", "exists", "unfulfilled",
            "dependents", "notFound", "invalid", "failed"}
Finds == {"searchDomains", "searchDuplicates", "searchDependents"}
Commands == {"dependency", "set", "sadd", "read", "write",
             "invalidate", "del", "srem"}

Handler == [pc : Replies \cup Finds \cup Commands,
            verb : {"POST", "PUT", "DELETE", "none"},
            kind : Kinds \cup {None}, ref : Refs \cup {None},
            body : Entity \cup {None}, listed : BOOLEAN,
            todo : SUBSET Refs, hits : SUBSET Refs, broken : BOOLEAN]

Memory == {"empty", "exists", "absent"}

Closed(x) == handler[x].pc \in Replies

TypeOK ==
  /\ strings \in [Refs -> Entity \cup {None}]
  /\ sets \in [Kinds -> SUBSET Refs]
  /\ cache \in [Contexts -> [Kinds -> [Keys -> Memory]]]
  /\ handler \in [Contexts -> Handler]
  /\ \A x \in Contexts : ~Closed(x) => handler[x].kind # None
  /\ mishaps \in 0 .. MaxMishaps

\* A record of a call that begins, that goes on at another command, and that
\* is replied to.
Call(verb, kind, ref, body, pc) ==
  [pc |-> pc, verb |-> verb, kind |-> kind, ref |-> ref, body |-> body,
   listed |-> FALSE, todo |-> {}, hits |-> {}, broken |-> FALSE]
At(h, pc)    == Call(h.verb, h.kind, h.ref, h.body, pc)
Reply(h, pc) == Call(h.verb, h.kind, None, h.body, pc)
Become(x, h) == handler' = [handler EXCEPT ![x] = h]

\* The cache of agents is kept by ref and never asked: it is left out.
Remember(x, kind, key, memory) ==
  cache' = IF kind = "agents" THEN cache
           ELSE [cache EXCEPT ![x][kind][key] = memory]

-----------------------------------------------------------------------------
(***************************************************************************)
(* find: an SMEMBERS, then a GET per reference.                            *)
(***************************************************************************)
DependentKind(kind) ==
  CASE kind = "gateways" -> "numbers"
    [] kind = "numbers"  -> "domains"
    [] kind = "domains"  -> "agents"

Collection(h) ==
  CASE h.pc = "searchDomains" -> "domains"
    [] h.pc = "searchDuplicates"   -> h.kind
    [] h.pc = "searchDependents"  -> DependentKind(h.kind)

\* existInAnotherDomain for agents, the key for the others.
SameKey(e, f) ==
  /\ e.kind = f.kind
  /\ e.key = f.key
  /\ e.kind = "agents" => e.needs \cap f.needs # {}

\* Mutant: dependents are looked for by ref alone.
NameOfRef(kind, ref, body) == ref

\* What the dependents of an entity name it by.
NameOf(kind, ref, body) == IF kind = "domains" THEN body.key ELSE ref

Hit(h, e) ==
  /\ e.kind = Collection(h)
  /\ CASE h.pc = "searchDomains" -> e.key \in h.body.needs
       [] h.pc = "searchDuplicates"   -> SameKey(e, h.body)
       [] h.pc = "searchDependents"  -> NameOf(h.kind, h.ref, h.body) \in e.needs

ListMembers(x) ==
  LET h == handler[x]
  IN /\ h.pc \in Finds /\ ~h.listed
     /\ Become(x, [h EXCEPT !.listed = TRUE, !.todo = sets[Collection(h)]])
     /\ UNCHANGED <<strings, sets, cache, mishaps>>

GetMember(x, r) ==
  LET h == handler[x]
      e == strings[r]
  IN /\ h.pc \in Finds /\ r \in h.todo
     /\ Become(x, [h EXCEPT !.todo = @ \ {r},
                            !.broken = @ \/ e = None,
                            !.hits = IF e # None /\ Hit(h, e) THEN @ \cup {r} ELSE @])
     /\ UNCHANGED <<strings, sets, cache, mishaps>>

Found(x, pc) == handler[x].pc = pc /\ handler[x].listed /\ handler[x].todo = {}

-----------------------------------------------------------------------------
(***************************************************************************)
(* POST: createFromJSON, which checks dependencies, then duplicates.       *)
(***************************************************************************)

\* The cache is asked first, except for agents, which never ask it.
CheckDuplicates(x, h) ==
  LET memory == IF h.kind = "agents" THEN "empty" ELSE cache[x][h.kind][h.body.key]
  IN CASE memory = "exists" -> Reply(h, "exists")
       [] memory = "absent" -> At(h, "set")
       [] memory = "empty"  -> At(h, "searchDuplicates")

\* insert generates a ref that is in use nowhere.
Fresh(r) ==
  /\ strings[r] = None
  /\ \A k \in Kinds : r \notin sets[k]
  /\ \A x \in Contexts : handler[x].ref # r

\* Nobody can name a ref that is being generated.
Known(r) ==
  \A x \in Contexts :
    ~(/\ handler[x].verb = "POST" /\ handler[x].ref = r
      /\ \E k \in Kinds : r \in Generated[k])

\* Mutant: insert generates no ref.
PostWithoutRef(x, e, given) ==
  /\ Closed(x)
  /\ LET h == Call("POST", e.kind, given, e, "dependency")
     IN Become(x, CASE e.kind = "agents" -> At(h, "searchDomains")
                    [] e.kind \in {"numbers", "domains"} /\ e.needs # {} -> h
                    [] OTHER -> CheckDuplicates(x, h))
  /\ UNCHANGED <<strings, sets, cache, mishaps>>

Post(x, e, given) ==
  /\ Closed(x)
  /\ \E r \in Refs :
       /\ IF given = None THEN r \in Generated[e.kind] /\ Fresh(r) ELSE r = given
       /\ LET h == Call("POST", e.kind, r, e, "dependency")
          IN Become(x, CASE e.kind = "agents" -> At(h, "searchDomains")
                         [] e.kind \in {"numbers", "domains"} /\ e.needs # {} -> h
                         [] OTHER -> CheckDuplicates(x, h))
  /\ UNCHANGED <<strings, sets, cache, mishaps>>

\* doesNumberExist, and the gateway of a number: a GET, of whatever kind.
GetDependency(x) ==
  LET h == handler[x]
  IN /\ h.pc = "dependency"
     /\ Become(x, IF \A n \in h.body.needs : strings[n] # None
                    THEN CheckDuplicates(x, h)
                    ELSE Reply(h, "unfulfilled"))
     /\ UNCHANGED <<strings, sets, cache, mishaps>>

\* doesDomainExist only counts.
CountDomains(x) ==
  LET h == handler[x]
  IN /\ Found(x, "searchDomains")
     /\ Become(x, IF Cardinality(h.hits) = Cardinality(h.body.needs)
                    THEN CheckDuplicates(x, h)
                    ELSE Reply(h, "unfulfilled"))
     /\ UNCHANGED <<strings, sets, cache, mishaps>>

\* A null among the entities makes the search throw, but not that for agents,
\* whose filter passes over it.  Gateways that are not found are not cached.
SearchDuplicates(x) ==
  LET h == handler[x]
      throws == h.broken /\ h.kind # "agents"
      memory == IF h.hits # {} THEN "exists" ELSE "absent"
  IN /\ Found(x, "searchDuplicates")
     /\ Become(x, CASE throws                     -> Reply(h, "failed")
                    [] ~throws /\ h.hits # {}     -> Reply(h, "exists")
                    [] OTHER                      -> At(h, "set"))
     /\ IF throws \/ (h.kind = "gateways" /\ h.hits = {})
          THEN UNCHANGED cache
          ELSE Remember(x, h.kind, h.body.key, memory)
     /\ UNCHANGED <<strings, sets, mishaps>>

SetKey(x) ==
  LET h == handler[x]
  IN /\ h.pc = "set"
     /\ strings' = [strings EXCEPT ![h.ref] = h.body]
     /\ Become(x, At(h, "sadd"))
     /\ UNCHANGED <<sets, cache, mishaps>>

\* Mutant: what was found out before the insert stays cached.
AddMemberUncached(x) ==
  LET h == handler[x]
  IN /\ h.pc = "sadd"
     /\ sets' = [sets EXCEPT ![h.kind] = @ \cup {h.ref}]
     /\ Become(x, Reply(h, "created"))
     /\ UNCHANGED <<strings, cache, mishaps>>

\* The response of insert is cached.
AddMember(x) ==
  LET h == handler[x]
  IN /\ h.pc = "sadd"
     /\ sets' = [sets EXCEPT ![h.kind] = @ \cup {h.ref}]
     /\ Remember(x, h.kind, h.body.key, "exists")
     /\ Become(x, Reply(h, "created"))
     /\ UNCHANGED <<strings, mishaps>>

-----------------------------------------------------------------------------
(***************************************************************************)
(* PUT: updateFromJSON, which checks neither dependencies nor duplicates.  *)
(***************************************************************************)
Put(x, e, r) ==
  /\ Closed(x) /\ Known(r)
  /\ Become(x, Call("PUT", e.kind, r, e, "read"))
  /\ UNCHANGED <<strings, sets, cache, mishaps>>

\* validateRO: a field that is an array may change, read-only or not.
Rewritable(old, new) ==
  /\ old.kind = new.kind
  /\ old.kind \in {"agents", "domains"} => old.key = new.key
  /\ old.kind = "numbers" => old.needs = new.needs

\* The merge keeps what the body does not mention.
Merge(old, new) == IF new.needs = {} THEN [new EXCEPT !.needs = old.needs] ELSE new

ReadOld(x) ==
  LET h == handler[x]
      old == strings[h.ref]
  IN /\ h.pc = "read" /\ h.verb = "PUT"
     /\ Become(x, IF old # None /\ Rewritable(old, h.body)
                    THEN [At(h, "write") EXCEPT !.body = Merge(old, h.body)]
                    ELSE Reply(h, "invalid"))
     /\ UNCHANGED <<strings, sets, cache, mishaps>>

Write(x) ==
  LET h == handler[x]
  IN /\ h.pc = "write"
     /\ strings' = [strings EXCEPT ![h.ref] = h.body]
     /\ Remember(x, h.kind, h.body.key, "exists")
     /\ Become(x, Reply(h, "updated"))
     /\ UNCHANGED <<sets, mishaps>>

-----------------------------------------------------------------------------
(***************************************************************************)
(* DELETE: what is in the cache is forgotten first, for peers under a key  *)
(* that is never there; then come the dependents, DEL and SREM.            *)
(***************************************************************************)
Delete(x, kind, r) ==
  /\ Closed(x) /\ Known(r)
  /\ Become(x, Call("DELETE", kind, r, None,
                    CASE kind = "peers"  -> "del"
                      [] kind = "agents" -> "read"
                      [] OTHER           -> "invalidate"))
  /\ UNCHANGED <<strings, sets, cache, mishaps>>

\* An entity of another kind lacks the fields that the key is made of, and the
\* handler throws; the address of a gateway is put together without them.
Misfit(h, e) == e.kind # h.kind /\ h.kind # "gateways"

\* APIBase.invalidate.
Invalidate(x) ==
  LET h == handler[x]
      e == strings[h.ref]
      on == At(h, IF h.kind = "numbers" THEN "searchDependents" ELSE "read")
  IN /\ h.pc = "invalidate"
     /\ Become(x, IF e # None /\ Misfit(h, e) THEN Reply(h, "failed") ELSE on)
     /\ IF e # None /\ e.kind = h.kind
          THEN Remember(x, h.kind, e.key, "empty")
          ELSE UNCHANGED cache
     /\ UNCHANGED <<strings, sets, mishaps>>

ReadDoomed(x) ==
  LET h == handler[x]
      e == strings[h.ref]
  IN /\ h.pc = "read" /\ h.verb = "DELETE"
     /\ Become(x,
          CASE e = None                      -> Reply(h, "notFound")
            [] e # None /\ Misfit(h, e)     -> Reply(h, "failed")
            [] OTHER -> [At(h, IF h.kind = "agents" THEN "del" ELSE "searchDependents")
                           EXCEPT !.body = e])
     /\ UNCHANGED <<strings, sets, cache, mishaps>>

SearchDependents(x) ==
  LET h == handler[x]
  IN /\ Found(x, "searchDependents")
     /\ Become(x, IF h.hits = {} THEN At(h, "del") ELSE Reply(h, "dependents"))
     /\ UNCHANGED <<strings, sets, cache, mishaps>>

\* Mutant: the ref stays in its collection.
DelKeyOnly(x) ==
  LET h == handler[x]
  IN /\ h.pc = "del"
     /\ strings' = [strings EXCEPT ![h.ref] = None]
     /\ Become(x, Reply(h, IF strings[h.ref] = None THEN "notFound" ELSE "deleted"))
     /\ UNCHANGED <<sets, cache, mishaps>>

DelKey(x) ==
  LET h == handler[x]
  IN /\ h.pc = "del"
     /\ strings' = [strings EXCEPT ![h.ref] = None]
     /\ Become(x, IF strings[h.ref] = None THEN Reply(h, "notFound") ELSE At(h, "srem"))
     /\ UNCHANGED <<sets, cache, mishaps>>

\* Mutant: SREM from the collection that was searched last.
RemoveMemberOfLast(x) ==
  LET h == handler[x]
      last == IF h.kind \in {"agents", "peers"} THEN h.kind ELSE DependentKind(h.kind)
  IN /\ h.pc = "srem"
     /\ sets' = [sets EXCEPT ![last] = @ \ {h.ref}]
     /\ Become(x, Reply(h, IF h.ref \in sets[last] THEN "deleted" ELSE "notFound"))
     /\ UNCHANGED <<strings, cache, mishaps>>

RemoveMember(x) ==
  LET h == handler[x]
  IN /\ h.pc = "srem"
     /\ sets' = [sets EXCEPT ![h.kind] = @ \ {h.ref}]
     /\ Become(x, Reply(h, IF h.ref \in sets[h.kind] THEN "deleted" ELSE "notFound"))
     /\ UNCHANGED <<strings, cache, mishaps>>

-----------------------------------------------------------------------------
(***************************************************************************)
(* A command fails, before or after Redis has carried it out.              *)
(***************************************************************************)

\* find answers status 500 with no data, and the caller takes the data.
FindFails(x) ==
  LET h == handler[x]
  IN /\ h.pc \in Finds
     /\ Become(x, [h EXCEPT !.listed = TRUE, !.todo = {}, !.hits = {}, !.broken = FALSE])
     /\ UNCHANGED <<strings, sets, cache>>

\* get answers status 500: no dependency, no entity; invalidate ignores it.
GetFails(x) ==
  LET h == handler[x]
  IN /\ h.pc \in {"dependency", "read", "invalidate"}
     /\ Become(x,
          CASE h.pc = "dependency"                    -> Reply(h, "unfulfilled")
            [] h.pc = "read" /\ h.verb = "PUT"        -> Reply(h, "invalid")
            [] h.pc = "read" /\ h.verb = "DELETE"     -> Reply(h, "failed")
            [] h.pc = "invalidate" /\ h.kind = "numbers" -> At(h, "searchDependents")
            [] h.pc = "invalidate" /\ h.kind # "numbers" -> At(h, "read"))
     /\ UNCHANGED <<strings, sets, cache>>

\* insert and update answer status 500, which is cached as well.
WriteFails(x) ==
  LET h == handler[x]
  IN /\ h.pc \in {"set", "sadd", "write", "del", "srem"}
     /\ strings' \in {strings} \cup
          CASE h.pc \in {"set", "write"} -> {[strings EXCEPT ![h.ref] = h.body]}
            [] h.pc = "del"              -> {[strings EXCEPT ![h.ref] = None]}
            [] OTHER                     -> {}
     /\ sets' \in {sets} \cup
          CASE h.pc = "sadd" -> {[sets EXCEPT ![h.kind] = @ \cup {h.ref}]}
            [] h.pc = "srem" -> {[sets EXCEPT ![h.kind] = @ \ {h.ref}]}
            [] OTHER         -> {}
     /\ IF h.pc \in {"set", "sadd", "write"}
          THEN Remember(x, h.kind, h.body.key, "absent")
          ELSE UNCHANGED cache
     /\ Become(x, Reply(h, "failed"))

Idle == Call("none", None, None, None, "free")
NothingKnown == [k \in Kinds |-> [i \in Keys |-> "empty"]]

Restart(x) ==
  /\ Become(x, Idle)
  /\ cache' = [cache EXCEPT ![x] = NothingKnown]
  /\ UNCHANGED <<strings, sets>>

Mishap ==
  /\ mishaps < MaxMishaps
  /\ mishaps' = mishaps + 1
  /\ \E x \in Contexts : FindFails(x) \/ GetFails(x) \/ WriteFails(x) \/ Restart(x)

\* Mutant: what was found never expires.
ExpireAbsent(x, kind, key) ==
  /\ cache[x][kind][key] = "absent"
  /\ Remember(x, kind, key, "empty")
  /\ UNCHANGED <<strings, sets, handler, mishaps>>

\* The five minutes of a cache entry have passed.
Expire(x, kind, key) ==
  /\ cache[x][kind][key] # "empty"
  /\ Remember(x, kind, key, "empty")
  /\ UNCHANGED <<strings, sets, handler, mishaps>>

-----------------------------------------------------------------------------
Init ==
  /\ strings = [r \in Refs |-> None]
  /\ sets = [k \in Kinds |-> {}]
  /\ cache = [x \in Contexts |-> NothingKnown]
  /\ handler = [x \in Contexts |-> Idle]
  /\ mishaps = 0

Request(x) ==
  \/ \E p \in Posts : Post(x, p[1], p[2])
  \/ \E p \in Puts : Put(x, p[1], p[2])
  \/ \E d \in Deletes : Delete(x, d[1], d[2])

Proceed(x) ==
  \/ ListMembers(x) \/ \E r \in Refs : GetMember(x, r)
  \/ GetDependency(x) \/ CountDomains(x) \/ SearchDuplicates(x)
  \/ SetKey(x) \/ AddMember(x)
  \/ ReadOld(x) \/ Write(x)
  \/ Invalidate(x) \/ ReadDoomed(x) \/ SearchDependents(x)
  \/ DelKey(x) \/ RemoveMember(x)

Next ==
  \/ \E x \in Contexts :
       \/ Request(x) \/ Proceed(x)
       \/ \E kind \in Kinds, key \in Keys : Expire(x, kind, key)
  \/ Mishap

Spec == Init /\ [][Next]_vars

(***************************************************************************)
(* Fairness.  A context goes on with its call, whose commands answer or    *)
(* fail within the timeout of Jedis, and cache entries expire.             *)
(***************************************************************************)
Fairness ==
  \A x \in Contexts :
    /\ WF_vars(Proceed(x))
    /\ \A kind \in Kinds, key \in Keys : WF_vars(Expire(x, kind, key))

FairSpec == Spec /\ Fairness

-----------------------------------------------------------------------------
Listed(kind) == {r \in sets[kind] : strings[r] # None /\ strings[r].kind = kind}

\* What an entity needs is there: a domain by that URI, a key by that ref.
Met(e) ==
  \A n \in e.needs :
    IF e.kind = "agents"
      THEN \E r \in Listed("domains") : strings[r].key = n
      ELSE strings[n] # None

Quiet == mishaps = 0 /\ \A x \in Contexts : Closed(x)

\* Between calls, if no command has failed, everything stored has what it needs.
ReferencesHold ==
  Quiet => \A r \in Refs : strings[r] # None => Met(strings[r])

\* ... no two listed entities have the same key ...
KeysAreUnique ==
  Quiet => \A k \in Kinds : \A r, q \in Listed(k) :
             SameKey(strings[r], strings[q]) => r = q

\* ... and the collections list what is stored.
ListsMatchKeys ==
  Quiet => /\ \A k \in Kinds : sets[k] = Listed(k)
           /\ \A r \in Refs : strings[r] # None => r \in sets[strings[r].kind]

\* A reference to nothing makes lookups throw.
DanglingIsTransient ==
  mishaps = 0 =>
    \A k \in Kinds : \A r \in sets[k] :
      strings[r] = None =>
        \E x \in Contexts : /\ handler[x].pc = "srem"
                            /\ handler[x].kind = k /\ handler[x].ref = r

(***************************************************************************)
(* One context, as long as no command fails, keeps what Resources          *)
(* promises: though a call is many commands, its first write is the moment *)
(* at which all of it happens, and what it replies is what it has done.    *)
(***************************************************************************)
Outcome(pc) ==
  CASE pc = "free"                                -> "none"
    [] pc \in {"sadd", "srem"}                    -> "made"
    [] pc \in {"created", "updated", "deleted"}   -> "done"
    [] pc \in {"exists", "unfulfilled", "dependents", "notFound",
               "invalid", "failed"}               -> "refused"
    [] OTHER                                      -> "pending"
Seen(h) == [verb |-> h.verb, kind |-> h.kind, outcome |-> Outcome(h.pc)]
Calls == [x \in Contexts |-> Seen(handler[x])]

Promise == INSTANCE Resources WITH stored <- strings, call <- Calls
ImplementsResources == Promise!Spec

(***************************************************************************)
(* Any number of contexts, failing or not, drive the data source the way   *)
(* the SIP lookups of module Accounts are checked and proved against; and  *)
(* as long as nothing fails, what they begin there they finish.            *)
(***************************************************************************)
Home == [r \in Refs |-> CHOOSE k \in Kinds : r \in Generated[k]]
Fits == [r \in Refs |-> [kind : {k \in Kinds : r \in Generated[k]},
                         key : Keys, needs : SUBSET (Keys \cup Refs)]]

Second(h) ==
  CASE h.pc = "sadd"  -> [cmd |-> "SADD", ref |-> h.ref]
    [] h.pc = "srem"  -> [cmd |-> "SREM", ref |-> h.ref]
    [] h.pc = "write" -> [cmd |-> "SET", ref |-> h.ref]
    [] OTHER          -> None

Seconds == [x \in Contexts |-> Second(handler[x])]

Store == INSTANCE EntityStore
           WITH Writers <- Contexts, Collections <- Kinds, pending <- Seconds
Unbroken == [\E x \in Contexts : Store!Write(x)]_<<strings, sets, Seconds>>
ImplementsEntityStore == Store!Spec /\ [][mishaps' = mishaps => Unbroken]_vars

(***************************************************************************)
(* A key that is refused as taken again and again is taken again and       *)
(* again: no cache refuses it for good after the entity is gone, whichever *)
(* replica or failure took it away.                                        *)
(***************************************************************************)
Refusal(e) ==
  \E x \in Contexts :
    handler[x].pc # "exists" /\ handler'[x].pc = "exists" /\ handler'[x].body = e

Held(e) == \E r \in Refs : strings[r] # None /\ SameKey(strings[r], e)

RefusalsHaveCause ==
  \A p \in Posts : []<><<Refusal(p[1])>>_vars => []<>Held(p[1])
=============================================================================
