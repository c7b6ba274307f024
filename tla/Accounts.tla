------------------------------ MODULE Accounts ------------------------------
(***************************************************************************)
(* How a SIP server of scaipproxy decides whether a digest login is that   *)
(* of a configured agent or peer (Registrar.isAuthorized), while the REST  *)
(* API of any replica creates, updates and deletes those entities in the   *)
(* Redis data source they share.                                           *)
(*                                                                         *)
(* Every Redis command is a step of its own.  An entity is a string key    *)
(* holding its JSON and a reference in the set of its collection, written  *)
(* and removed by two commands that nothing makes atomic.  A lookup is one *)
(* SMEMBERS, then one GET per reference, then local work.  The results are *)
(* kept in two Caffeine caches per Registrar with a time to live that no   *)
(* REST operation can cut short, since they belong to another JavaScript   *)
(* context or to another replica.                                          *)
(***************************************************************************)
EXTENDS Naturals, FiniteSets

CONSTANTS
  Servers,     \* Registrar instances, each with its own two caches
  Domains,     \* digest realms
  Users,       \* digest user names
  Secrets,     \* passwords
  AgentRefs,   \* metadata.ref values of agents
  PeerRefs,    \* metadata.ref values of peers
  None,        \* JavaScript null
  TTL,         \* ticks a cache entry lives (expireAfterWrite of 5 minutes)
  MaxLookup,   \* bound: ticks one lookup lasts at most (the Jedis timeout)
  Writers,     \* REST contexts, one call each at a time
  MaxMishaps   \* bound: failed finds, interrupted operations and restarts

ASSUME RefsAssumption   == AgentRefs \cap PeerRefs = {}
ASSUME NoneAssumption   == None \notin Secrets
ASSUME TimeAssumption   == TTL \in Nat \ {0} /\ MaxLookup \in Nat
ASSUME BoundsAssumption == MaxMishaps \in Nat

VARIABLES
  strings,     \* Redis string keys: ref -> entity, or None
  sets,        \* Redis sets: collection -> refs
  pending,     \* the second commands that REST contexts still have to send
  agentCache,  \* AgentsAPI.cache of each Registrar: <<domain, user>> -> entry
  peerCache,   \* PeersAPI.cache of each Registrar: user -> entry
  registrar,   \* what each Registrar is doing, or its last verdict
  mishaps,     \* how many of the MaxMishaps have happened
  gone,        \* history: ticks since some entity last held the login
  steady       \* history: ticks for which the login could not be missed

dbVars    == <<strings, sets, pending>>
cacheVars == <<agentCache, peerCache>>
history   == <<gone, steady>>
vars      == <<strings, sets, pending, agentCache, peerCache, registrar,
               mishaps, gone, steady>>

-----------------------------------------------------------------------------
Collections == {"agents", "peers"}
Refs        == AgentRefs \cup PeerRefs
Collection(r) == IF r \in AgentRefs THEN "agents" ELSE "peers"

\* What the lookups read of an Agent or a Peer: a peer has no domains.
Entity == [user : Users, domains : SUBSET Domains, secret : Secrets]

\* What the REST API stores: agents with domains, peers without.
Home == [r \in Refs |-> Collection(r)]
Fits == [r \in Refs |-> {e \in Entity : (e.domains # {}) = (r \in AgentRefs)}]

\* The Redis data source, as the REST API of any replica drives it.
Store == INSTANCE EntityStore

\* An Authorization header: realm, user name and the secret that the
\* digest response was computed from.
Login == [domain : Domains, user : Users, secret : Secrets]

Matches(c, e, l) == e.user = l.user /\ (c = "agents" => l.domain \in e.domains)

\* A login no data has been old enough to justify after this many ticks.
Window == (TTL - 1) + MaxLookup
Older(age) == IF age > Window THEN age ELSE age + 1

Entry  == [secret : Secrets \cup {None}, age : 0 .. (TTL - 1)]
Phases == {"idle", "agents", "peers", "granted", "refused", "failed"}
Lookup == [phase : Phases, login : Login \cup {None}, todo : SUBSET Refs,
           hit : Secrets \cup {None}, broken : BOOLEAN, age : 0 .. MaxLookup]
Busy(s) == registrar[s].phase \in Collections

TypeOK ==
  /\ strings \in [Refs -> Entity \cup {None}]
  /\ sets \in [Collections -> SUBSET Refs]
  /\ pending \in [Writers -> Store!Command \cup {None}]
  /\ agentCache \in [Servers -> [Domains \X Users -> Entry \cup {None}]]
  /\ peerCache \in [Servers -> [Users -> Entry \cup {None}]]
  /\ registrar \in [Servers -> Lookup]
  /\ \A s \in Servers : Busy(s) => registrar[s].login \in Login
  /\ mishaps \in 0 .. MaxMishaps
  /\ gone \in [Login -> 0 .. (Window + 1)]
  /\ steady \in [Login -> 0 .. (Window + 1)]

-----------------------------------------------------------------------------
(***************************************************************************)
(* History.  A login is known while some stored entity holds it, member of *)
(* its collection or not.  Suppliers are the entities a find would return  *)
(* that match it; it cannot be missed while there is one, all of them hold *)
(* its secret and no removal is under way or was left halfway.  A removal  *)
(* of some other entity is enough to miss it: a find that has the reference*)
(* already reads a key that is gone, or that was written anew meanwhile.   *)
(***************************************************************************)
Known(l) ==
  \E r \in Refs :
    /\ strings[r] # None
    /\ Matches(Collection(r), strings[r], l)
    /\ strings[r].secret = l.secret

Dangling == \E c \in Collections : \E r \in sets[c] : strings[r] = None

Suppliers(l) ==
  {r \in Refs : /\ r \in sets[Collection(r)]
                /\ strings[r] # None
                /\ Matches(Collection(r), strings[r], l)}

Removing == \E w \in Writers : Store!Awaits(w, {"SREM"})

Unmissable(l) ==
  /\ ~Dangling /\ ~Removing
  /\ Suppliers(l) # {}
  /\ \A r \in Suppliers(l) : strings[r].secret = l.secret

Observe ==
  /\ gone' = [l \in Login |-> IF Known(l)' THEN 0 ELSE gone[l]]
  /\ steady' = [l \in Login |->
                  IF Unmissable(l)' /\ Suppliers(l) \subseteq Suppliers(l)'
                    THEN steady[l] ELSE 0]

-----------------------------------------------------------------------------
(***************************************************************************)
(* The steps of the data source.                                           *)
(***************************************************************************)
Rest(w) ==
  /\ Store!Write(w)
  /\ UNCHANGED <<agentCache, peerCache, registrar, mishaps>>
  /\ Observe

Interrupt(w) ==
  /\ mishaps < MaxMishaps
  /\ mishaps' = mishaps + 1
  /\ Store!Break(w)
  /\ UNCHANGED <<agentCache, peerCache, registrar>>
  /\ Observe

-----------------------------------------------------------------------------
(***************************************************************************)
(* Registrar.isAuthorized.                                                 *)
(***************************************************************************)
Search(l, c, age) ==
  [phase |-> c, login |-> l, todo |-> sets[c], hit |-> None,
   broken |-> FALSE, age |-> age]

Verdict(l, phase) ==
  [phase |-> phase, login |-> l, todo |-> {}, hit |-> None,
   broken |-> FALSE, age |-> 0]

Idle == Verdict(None, "idle")

\* Mutant: a user that is not found is not told from one that matches.
JudgeTrusting(l, secret) ==
  Verdict(l, IF secret \in {None, l.secret} THEN "granted" ELSE "refused")

\* The digest computed from the stored secret equals the one in the header.
Judge(l, secret) ==
  Verdict(l, IF secret = l.secret THEN "granted" ELSE "refused")

\* getPeerByUsername: the cached response, found or not, or a search.
AskPeers(s, l, age) ==
  LET entry == peerCache[s][l.user]
  IN registrar' = [registrar EXCEPT ![s] =
       IF entry = None THEN Search(l, "peers", age) ELSE Judge(l, entry.secret)]

\* Mutant: expireAfterAccess, every hit renews the entry.
StartLookupRenewing(s, l) ==
  LET key == <<l.domain, l.user>>
      entry == agentCache[s][key]
  IN /\ registrar[s].phase = "idle"
     /\ registrar' = [registrar EXCEPT ![s] =
          IF entry = None THEN Search(l, "agents", 0)
                          ELSE Judge(l, entry.secret)]
     /\ agentCache' = IF entry = None THEN agentCache
                      ELSE [agentCache EXCEPT ![s][key].age = 0]
     /\ UNCHANGED <<strings, sets, pending, peerCache, mishaps, history>>

\* getUserFromAPI begins with getAgentByDomain: its cache, or SMEMBERS.
StartLookup(s, l) ==
  LET entry == agentCache[s][<<l.domain, l.user>>]
  IN /\ registrar[s].phase = "idle"
     /\ registrar' = [registrar EXCEPT ![s] =
          IF entry = None THEN Search(l, "agents", 0)
                          ELSE Judge(l, entry.secret)]
     /\ UNCHANGED <<strings, sets, pending, agentCache, peerCache, mishaps,
                    history>>

\* Mutant: a reference whose key is gone is read again and again.
GetEntityInsisting(s, r) ==
  LET g == registrar[s]
      e == strings[r]
  IN /\ Busy(s)
     /\ r \in g.todo
     /\ e # None
     /\ registrar' = [registrar EXCEPT ![s] =
          [g EXCEPT !.todo = @ \ {r},
                    !.hit = IF Matches(g.phase, e, g.login) THEN e.secret ELSE @]]
     /\ UNCHANGED <<strings, sets, pending, agentCache, peerCache, mishaps,
                    history>>

\* find: one GET.  The last match wins; past a null nothing is looked at.
GetEntity(s, r) ==
  LET g == registrar[s]
      e == strings[r]
      found == ~g.broken /\ e # None /\ Matches(g.phase, e, g.login)
  IN /\ Busy(s)
     /\ r \in g.todo
     /\ registrar' = [registrar EXCEPT ![s] =
          [g EXCEPT !.todo = @ \ {r},
                    !.broken = @ \/ e = None,
                    !.hit = IF found THEN e.secret ELSE @]]
     /\ UNCHANGED <<strings, sets, pending, agentCache, peerCache, mishaps,
                    history>>

\* The loop of getAgentByDomain: a match is cached even when a null entry
\* further on throws; an agent that is not found is not cached.
ConcludeAgents(s) ==
  LET g == registrar[s]
      key == <<g.login.domain, g.login.user>>
  IN /\ g.phase = "agents"
     /\ g.todo = {}
     /\ agentCache' = IF g.hit = None THEN agentCache
                      ELSE [agentCache EXCEPT ![s][key] =
                              [secret |-> g.hit, age |-> 0]]
     /\ \/ g.broken /\ registrar' = [registrar EXCEPT ![s] =
                                       Verdict(g.login, "failed")]
        \/ ~g.broken /\ g.hit # None
           /\ registrar' = [registrar EXCEPT ![s] = Judge(g.login, g.hit)]
        \/ ~g.broken /\ g.hit = None /\ AskPeers(s, g.login, g.age)
     /\ UNCHANGED <<strings, sets, pending, peerCache, mishaps, history>>

\* deepSearch of getPeerByUsername: found or not, the response is cached,
\* unless a null entry throws first.
ConcludePeers(s) ==
  LET g == registrar[s]
  IN /\ g.phase = "peers"
     /\ g.todo = {}
     /\ \/ /\ g.broken
           /\ registrar' = [registrar EXCEPT ![s] = Verdict(g.login, "failed")]
           /\ UNCHANGED peerCache
        \/ /\ ~g.broken
           /\ registrar' = [registrar EXCEPT ![s] = Judge(g.login, g.hit)]
           /\ peerCache' = [peerCache EXCEPT ![s][g.login.user] =
                              [secret |-> g.hit, age |-> 0]]
     /\ UNCHANGED <<strings, sets, pending, agentCache, mishaps, history>>

\* A Redis command of find fails.  find answers status 500 with no data,
\* which both lookups take for "no such user", and PeersAPI caches that.
FindFails(s) ==
  LET g == registrar[s]
  IN /\ mishaps < MaxMishaps
     /\ Busy(s)
     /\ g.todo # {}
     /\ mishaps' = mishaps + 1
     /\ steady' = [l \in Login |-> 0]
     /\ \/ g.phase = "agents" /\ AskPeers(s, g.login, g.age)
           /\ UNCHANGED peerCache
        \/ g.phase = "peers"
           /\ registrar' = [registrar EXCEPT ![s] = Verdict(g.login, "refused")]
           /\ peerCache' = [peerCache EXCEPT ![s][g.login.user] =
                              [secret |-> None, age |-> 0]]
     /\ UNCHANGED <<strings, sets, pending, agentCache, gone>>

\* The caller has taken the verdict.
Return(s) ==
  /\ registrar[s].phase \in {"granted", "refused", "failed"}
  /\ registrar' = [registrar EXCEPT ![s] = Idle]
  /\ UNCHANGED <<strings, sets, pending, agentCache, peerCache, mishaps,
                 history>>

\* The server process is restarted: its caches are empty again.
Restart(s) ==
  /\ mishaps < MaxMishaps
  /\ mishaps' = mishaps + 1
  /\ agentCache' = [agentCache EXCEPT ![s] = [k \in Domains \X Users |-> None]]
  /\ peerCache' = [peerCache EXCEPT ![s] = [u \in Users |-> None]]
  /\ registrar' = [registrar EXCEPT ![s] = Idle]
  /\ UNCHANGED <<strings, sets, pending, history>>

\* Mutants: entries that live one tick too long, or forever when negative.
ExpireLate(entry) ==
  IF entry = None \/ entry.age = TTL THEN None
  ELSE [entry EXCEPT !.age = @ + 1]

ExpireFoundOnly(entry) ==
  IF entry = None \/ entry.secret = None THEN entry
  ELSE IF entry.age + 1 = TTL THEN None
  ELSE [entry EXCEPT !.age = @ + 1]

\* Time passes: entries whose time to live has passed are gone.
Expire(entry) ==
  IF entry = None \/ entry.age + 1 = TTL THEN None
  ELSE [entry EXCEPT !.age = @ + 1]

Tick ==
  /\ \A s \in Servers : Busy(s) => registrar[s].age < MaxLookup
  /\ agentCache' = [s \in Servers |->
       [k \in Domains \X Users |-> Expire(agentCache[s][k])]]
  /\ peerCache' = [s \in Servers |-> [u \in Users |-> Expire(peerCache[s][u])]]
  /\ registrar' = [s \in Servers |->
       IF Busy(s) THEN [registrar[s] EXCEPT !.age = @ + 1] ELSE registrar[s]]
  /\ gone' = [l \in Login |-> IF Known(l) THEN 0 ELSE Older(gone[l])]
  /\ steady' = [l \in Login |-> IF Unmissable(l) THEN Older(steady[l]) ELSE 0]
  /\ UNCHANGED <<strings, sets, pending, mishaps>>

-----------------------------------------------------------------------------
Init ==
  /\ Store!Init
  /\ agentCache = [s \in Servers |-> [k \in Domains \X Users |-> None]]
  /\ peerCache = [s \in Servers |-> [u \in Users |-> None]]
  /\ registrar = [s \in Servers |-> Idle]
  /\ mishaps = 0
  /\ gone = [l \in Login |-> Window + 1]
  /\ steady = [l \in Login |-> 0]

Work(s) ==
  \/ \E r \in Refs : GetEntity(s, r)
  \/ ConcludeAgents(s)
  \/ ConcludePeers(s)
  \/ Return(s)

Next ==
  \/ \E w \in Writers : Rest(w) \/ Interrupt(w)
  \/ \E s \in Servers :
       \/ \E l \in Login : StartLookup(s, l)
       \/ Work(s) \/ FindFails(s) \/ Restart(s)
  \/ Tick

Spec == Init /\ [][Next]_vars

(***************************************************************************)
(* Fairness.  The server goes on with a lookup it has begun, time passes,  *)
(* and a device goes on sending its login (a registration is refreshed     *)
(* before it expires).  Nothing is assumed of the REST API or of mishaps.  *)
(***************************************************************************)
Fairness ==
  /\ WF_vars(Tick)
  /\ \A s \in Servers : WF_vars(Work(s))
  /\ \A s \in Servers, l \in Login : SF_vars(StartLookup(s, l))

FairSpec == Spec /\ Fairness

-----------------------------------------------------------------------------
Decides(s, phase) == registrar[s].phase # phase /\ registrar'[s].phase = phase

(***************************************************************************)
(* A login is granted only when some entity held it no longer ago than the *)
(* time to live of a cache entry plus the lookup that filled it: this      *)
(* bounds how long a deleted agent, or a changed password, goes on being   *)
(* accepted by caches that are never told of either.                       *)
(***************************************************************************)
GrantsAreRecent ==
  [][\A s \in Servers : Decides(s, "granted") =>
        gone'[registrar'[s].login] <= Window]_vars

(***************************************************************************)
(* A login that could not be missed for longer than that is never turned   *)
(* away: a negative answer in the cache, be it an honest one, one given by *)
(* a failed find, or one for a replaced entity, is forgotten in time.      *)
(***************************************************************************)
RefusalsAreRecent ==
  [][\A s \in Servers : Decides(s, "refused") \/ Decides(s, "failed") =>
        steady'[registrar'[s].login] <= Window]_vars

(***************************************************************************)
(* Abstractly, isAuthorized is the directory of module Directory: a lookup *)
(* under way is a question asked, and every verdict, cached or not, is one *)
(* that the last Window ticks justify.                                     *)
(***************************************************************************)
Answer == [s \in Servers |->
  [phase |-> IF Busy(s) THEN "asking" ELSE registrar[s].phase,
   login |-> registrar[s].login]]

Abstract == INSTANCE Directory WITH answer <- Answer
ImplementsDirectory == Abstract!Spec

(***************************************************************************)
(* Whatever secret a Registrar is about to compare a digest with, in a     *)
(* lookup under way or in a cache, was in the data source no longer ago    *)
(* than the lookup that read it plus the age of the cache entry.           *)
(***************************************************************************)
HeldNow == \A l \in Login : Known(l) => gone[l] = 0

OwnRefs ==
  /\ \A c \in Collections : \A r \in sets[c] : Collection(r) = c
  /\ \A s \in Servers : Busy(s) =>
       \A r \in registrar[s].todo : Collection(r) = registrar[s].phase

ReadRecently ==
  \A s \in Servers, l \in Login :
    LET g == registrar[s]
    IN /\ Busy(s)
       /\ g.login.user = l.user
       /\ g.phase = "agents" => g.login.domain = l.domain
       /\ g.hit = l.secret
       => gone[l] <= g.age

CachedRecently ==
  \A s \in Servers, l \in Login :
    \A entry \in {agentCache[s][<<l.domain, l.user>>], peerCache[s][l.user]} :
      entry # None /\ entry.secret = l.secret => gone[l] <= entry.age + MaxLookup

Evidence == HeldNow /\ OwnRefs /\ ReadRecently /\ CachedRecently

(***************************************************************************)
(* The dual, for refusals.  Take a login that could not be missed for      *)
(* longer than a lookup has run: what the lookup has read so far and what  *)
(* it still has to read lead to its secret, through the agents or, failing *)
(* them, through the peers.  And a cache entry that would refuse a login   *)
(* is older than the time for which it could not be missed, unless agents  *)
(* are there to be found before the peers are asked.                       *)
(***************************************************************************)
SteadyNow == \A l \in Login : steady[l] > 0 => Unmissable(l)

PeerSuppliers(l)  == Suppliers(l) \cap PeerRefs
AgentSuppliers(l) == Suppliers(l) \cap AgentRefs

\* The entry, if there is one, will not refuse a login that was steady long.
Tells(entry, l) ==
  entry # None /\ entry.secret # l.secret => steady[l] <= entry.age + MaxLookup

Concerns(g, l) ==
  g.login.user = l.user /\ (g.phase = "agents" => g.login.domain = l.domain)

Meets(s, g, l) ==
  /\ g.todo \subseteq sets[g.phase]
  /\ ~g.broken
  /\ g.hit \in {None, l.secret}
  /\ \/ g.hit = l.secret
     \/ g.todo \cap Suppliers(l) # {}
     \/ g.phase = "agents" /\ PeerSuppliers(l) # {} /\ Tells(peerCache[s][l.user], l)
     \/ g.phase = "peers" /\ l # g.login /\ AgentSuppliers(l) # {}

LookupsMeet ==
  \A s \in Servers, l \in Login :
    Busy(s) /\ Concerns(registrar[s], l) /\ steady[l] > registrar[s].age
      => Meets(s, registrar[s], l)

CachesTell ==
  \A s \in Servers, l \in Login :
    /\ Tells(agentCache[s][<<l.domain, l.user>>], l)
    /\ AgentSuppliers(l) # {} \/ Tells(peerCache[s][l.user], l)

Presence == SteadyNow /\ LookupsMeet /\ CachesTell

(***************************************************************************)
(* Every lookup comes to a verdict, whatever is deleted and inserted under *)
(* it and whichever commands fail.                                         *)
(***************************************************************************)
LookupsConclude == \A s \in Servers : Busy(s) ~> ~Busy(s)

(***************************************************************************)
(* From the time a login can no longer be missed, devices that use it are  *)
(* granted again and again: no stale or negative cache entry, and no race  *)
(* with the REST API, shuts them out for good.                             *)
(***************************************************************************)
Admission ==
  \A s \in Servers, l \in Login :
    <>[]Unmissable(l) => []<>(registrar[s] = Verdict(l, "granted"))
=============================================================================
