---------------------------- MODULE Configuration ----------------------------
(***************************************************************************)
(* How a JavaScript context comes by its configuration and its data        *)
(* source, when the data source is Redis.  Many modules of a context call  *)
(* config_util for themselves: each call reads the file and the            *)
(* environment, builds a RedisDataSource (which creates a default user and *)
(* stores a default configuration when it finds none), reads the stored    *)
(* configuration, trying again while Redis does not answer, and reads or   *)
(* generates the salt.  DSSelector builds one more RedisDataSource.        *)
(*                                                                         *)
(* The processes are the replicas of one Redis.  Lifecycle says when a     *)
(* context is loaded.                                                      *)
(***************************************************************************)
EXTENDS Integers, FiniteSets, Sequences

CONSTANTS
  Processes,
  Options,      \* the preferences: an array is the value of one preference
  BoolOptions,  \* those that config_from_env parses as a Boolean
  Values,
  False,        \* the value of such a variable that is not "true"
  None,
  Deployments,  \* what a process may be deployed with: its file and environment
  Default,      \* process -> what config_defaults computes there
  BindAddr,     \* the option spec.bindAddr: its default is the host's address
  Agenda,       \* what the modules of a context do as they load, in order
  MaxRetry,     \* process -> parameter max_retry
  Puts,         \* what PUT /system/config may store
  MaxMishaps    \* bound: outages of Redis, failed writes and crashes, together

Config == [Options -> Values \cup {None}]

\* A reference that insert generates: the context's own, and which it is.
UserRef == [owner : Processes \X Nat \X {"server", "rest"}, serial : Nat]

\* A salt names the module that generated it: its process, run, context and
\* place, counted from the end of the agenda.  <<>> is an empty one.
SaltValue == (Processes \X Nat \X {"server", "rest"} \X Nat) \cup {<<>>}

ASSUME NoneAssumption == None \notin Values \cup Config \cup UserRef \cup SaltValue
ASSUME OptionsAssumption == BoolOptions \subseteq Options /\ BindAddr \in Options
ASSUME DeploymentsAssumption == \A d \in Deployments : d.file \in Config /\ d.env \in Config
ASSUME DefaultAssumption == Default \in [Processes -> Config]
ASSUME AgendaAssumption == Agenda \in Seq({"config", "source"}) /\ Agenda # <<>>
ASSUME MaxRetryAssumption == MaxRetry \in [Processes -> Int]
ASSUME PutsAssumption == Puts \subseteq Config
ASSUME MaxMishapsAssumption == MaxMishaps \in Nat

VARIABLES
  redisUp,    \* whether Redis answers
  persisted,  \* the key 'config', or None
  userKeys,   \* the default users written as string keys
  users,      \* the members of the set 'users'
  saltFile,   \* process -> content of its .routr.salt, or None
  boots,      \* process -> how many times it has started
  deployed,   \* process -> what it was deployed with
  loader,     \* process -> the context it loads
  seen,       \* history: process -> the configurations its modules read
  changed,    \* history: process -> the options others stored anew since the first
  salts,      \* history: process -> the salts its modules ever read
  flaky,      \* history: Redis has failed
  mishaps     \* how many of the MaxMishaps have happened

redisVars == <<redisUp, persisted, userKeys, users, flaky, mishaps>>
readVars == <<seen, changed>>
configVars == <<redisVars, saltFile, boots, deployed, loader, readVars, salts>>

(***************************************************************************)
(* Merging.                                                                *)
(***************************************************************************)
Nothing == [o \in Options |-> None]
Merge(under, over) == [o \in Options |-> IF over[o] # None THEN over[o] ELSE under[o]]

\* A Boolean variable that is not true is as good as unset.
FromEnv(env) ==
  [o \in Options |-> IF o \in BoolOptions /\ env[o] = False THEN None ELSE env[o]]

FromFileAndEnv(p) == Merge(deployed[p].file, FromEnv(deployed[p].env))

Stored(c) == IF c = None THEN Nothing ELSE c

\* Mutant: as a comment in config_from_redis has it.
Effective_PersistedFirst(p) ==
  Merge(Default[p], Merge(FromFileAndEnv(p), Stored(persisted)))

Effective(p) == Merge(Default[p], Merge(Stored(persisted), FromFileAndEnv(p)))

\* Somebody stores a configuration, which the processes in readers did not:
\* those of them that have read one before take note of what it changes.
Note(readers) ==
  changed' = [p \in Processes |->
    IF p \in readers /\ seen[p] # {}
    THEN changed[p] \cup {o \in Options : Stored(persisted')[o] # Stored(persisted)[o]}
    ELSE changed[p]]

(***************************************************************************)
(* Loading a context.                                                      *)
(***************************************************************************)
Idle == [ctx |-> "none", agenda |-> <<>>, at |-> "idle", retries |-> 0,
         ref |-> None, mine |-> Nothing]

\* One more module to evaluate, or all done.
Onwards(p, agenda) ==
  [loader[p] EXCEPT !.agenda = agenda, !.retries = MaxRetry[p],
                    !.at = IF agenda = <<>> THEN "loaded" ELSE "find"]

Fresh(p, ctx) ==
  [ctx |-> ctx, agenda |-> Agenda, at |-> "find", retries |-> MaxRetry[p],
   ref |-> None, mine |-> Nothing]

\* The constructor looks for users.  A failed find is an empty one.
FindUsers(p) ==
  /\ loader[p].at = "find"
  /\ loader' = [loader EXCEPT ![p].at = IF redisUp /\ users # {} THEN "check" ELSE "create"]
  /\ UNCHANGED <<redisVars, saltFile, boots, deployed, readVars, salts>>

\* The default user is an object of the module: insert gives it a reference
\* the first time, and the object keeps it.
NewReference(p) ==
  LET owner == <<p, boots[p], loader[p].ctx>>
  IN  [owner |-> owner, serial |-> Cardinality({u \in userKeys : u.owner = owner})]

\* Mutant: a copy of the object for each insert.
Reference_EachTime(p) == NewReference(p)

Reference(p) == IF loader[p].ref # None THEN loader[p].ref ELSE NewReference(p)

\* Mutant: SADD before SET.
CreateDefaultUser_MemberFirst(p) ==
  /\ loader[p].at = "create"
  /\ loader' = [loader EXCEPT ![p].at = "check", ![p].ref = Reference(p)]
  /\ \/ /\ redisUp
        /\ users' = users \cup {Reference(p)}
        /\ \/ userKeys' = userKeys \cup {Reference(p)} /\ UNCHANGED <<flaky, mishaps>>
           \/ /\ mishaps < MaxMishaps
              /\ mishaps' = mishaps + 1
              /\ flaky' = TRUE
              /\ UNCHANGED userKeys
     \/ ~redisUp /\ UNCHANGED <<userKeys, users, flaky, mishaps>>
  /\ UNCHANGED <<redisUp, persisted, saltFile, boots, deployed, readVars, salts>>

CreateDefaultUser(p) ==
  /\ loader[p].at = "create"
  /\ loader' = [loader EXCEPT ![p].at = "check", ![p].ref = Reference(p)]
  /\ \/ /\ redisUp
        /\ userKeys' = userKeys \cup {Reference(p)}
        /\ \/ users' = users \cup {Reference(p)} /\ UNCHANGED <<flaky, mishaps>>
           \/ /\ mishaps < MaxMishaps      \* SET is done and SADD fails
              /\ mishaps' = mishaps + 1
              /\ flaky' = TRUE
              /\ UNCHANGED users
     \/ ~redisUp /\ UNCHANGED <<userKeys, users, flaky, mishaps>>
  /\ UNCHANGED <<redisUp, persisted, saltFile, boots, deployed, readVars, salts>>

\* What follows the constructor: reading the configuration, for which
\* config_from_redis built the data source, or the next module.
Constructed(p) ==
  IF Head(loader[p].agenda) = "config" THEN [loader[p] EXCEPT !.at = "read"]
  ELSE Onwards(p, Tail(loader[p].agenda))

\* The constructor looks for the configuration.  A failed get has data.
CheckConfig(p) ==
  /\ loader[p].at = "check"
  /\ loader' = [loader EXCEPT ![p] = IF redisUp /\ persisted = None
                                     THEN [loader[p] EXCEPT !.at = "save"]
                                     ELSE Constructed(p)]
  /\ UNCHANGED <<redisVars, saltFile, boots, deployed, readVars, salts>>

\* Mutant: the defaults merged in too.
Given_Merged(p) ==
  IF Head(loader[p].agenda) = "config" THEN Effective(p) ELSE loader[p].mine

\* The configuration the constructor was given: that of the file and the
\* environment in config_from_redis, the merged one in DSSelector.
Given(p) ==
  IF Head(loader[p].agenda) = "config" THEN FromFileAndEnv(p) ELSE loader[p].mine

CreateDefaultConfig(p) ==
  /\ loader[p].at = "save"
  /\ persisted' = IF redisUp THEN Given(p) ELSE persisted
  /\ Note(Processes \ {p})
  /\ loader' = [loader EXCEPT ![p] = Constructed(p)]
  /\ UNCHANGED <<redisUp, userKeys, users, flaky, mishaps, saltFile, boots, deployed, seen, salts>>

\* Mutant: a get that failed is taken for an absent configuration.
GetConfig_WhenDown(p) ==
  LET c == IF redisUp THEN Effective(p) ELSE Merge(Default[p], FromFileAndEnv(p))
  IN  /\ loader[p].at = "read"
      /\ loader' = [loader EXCEPT ![p].at = "salt", ![p].mine = c]
      /\ seen' = [seen EXCEPT ![p] = @ \cup {c}]
      /\ UNCHANGED <<redisVars, saltFile, boots, deployed, changed, salts>>

\* getConfig: an absent configuration will do.
GetConfig(p) ==
  /\ loader[p].at = "read"
  /\ redisUp
  /\ loader' = [loader EXCEPT ![p].at = "salt", ![p].mine = Effective(p)]
  /\ seen' = [seen EXCEPT ![p] = @ \cup {Effective(p)}]
  /\ UNCHANGED <<redisVars, saltFile, boots, deployed, changed, salts>>

\* Mutant: "<= 0", which takes -1 for none left.
GivesUp_WhenNotPositive(p) == loader[p].at = "read" /\ ~redisUp /\ loader[p].retries <= 0

\* No retries are left.  A negative count never comes to 0.
GivesUp(p) == loader[p].at = "read" /\ ~redisUp /\ loader[p].retries = 0

\* Redis did not answer: after a pause a new RedisDataSource is built.
Retry(p) ==
  /\ loader[p].at = "read"
  /\ ~redisUp
  /\ ~GivesUp(p)
  /\ loader' = [loader EXCEPT ![p].at = "find",
                              ![p].retries = IF @ > 0 THEN @ - 1 ELSE @]
  /\ UNCHANGED <<redisVars, saltFile, boots, deployed, readVars, salts>>

\* No two modules generate the same.
Generated(p) == <<p, boots[p], loader[p].ctx, Len(loader[p].agenda)>>

\* Mutant: the salt is generated and not written.
Salt_Unsaved(p) ==
  /\ loader[p].at = "salt"
  /\ salts' = [salts EXCEPT ![p] = @ \cup {IF saltFile[p] = None THEN Generated(p) ELSE saltFile[p]}]
  /\ loader' = [loader EXCEPT ![p] = Onwards(p, Tail(loader[p].agenda))]
  /\ UNCHANGED <<redisVars, saltFile, boots, deployed, readVars>>

\* The salt is that of the file, whatever it holds; without a file it is
\* generated and written.  (The variable SALT is not set, which would be used
\* as it is, and SALT_FILE, if set, names the same file in every run.)
Salt(p) ==
  /\ loader[p].at = "salt"
  /\ saltFile' = [saltFile EXCEPT ![p] = IF @ = None THEN Generated(p) ELSE @]
  /\ salts' = [salts EXCEPT ![p] = @ \cup {saltFile'[p]}]
  /\ loader' = [loader EXCEPT ![p] = Onwards(p, Tail(loader[p].agenda))]
  /\ UNCHANGED <<redisVars, boots, deployed, readVars>>

Load(p) ==
  \/ FindUsers(p)
  \/ CreateDefaultUser(p)
  \/ CheckConfig(p)
  \/ CreateDefaultConfig(p)
  \/ GetConfig(p)
  \/ Retry(p)
  \/ Salt(p)

(***************************************************************************)
(* Redis (external) and the REST API.                                      *)
(***************************************************************************)
SetConfig(c) ==
  /\ persisted' = IF redisUp THEN c ELSE persisted
  /\ Note(Processes)
  /\ UNCHANGED <<redisUp, userKeys, users, flaky, mishaps, saltFile, boots, deployed, loader, seen, salts>>

Outage ==
  /\ redisUp
  /\ mishaps < MaxMishaps
  /\ mishaps' = mishaps + 1
  /\ redisUp' = FALSE
  /\ flaky' = TRUE
  /\ UNCHANGED <<persisted, userKeys, users, saltFile, boots, deployed, loader, readVars, salts>>

Recover ==
  /\ ~redisUp
  /\ redisUp' = TRUE
  /\ UNCHANGED <<persisted, userKeys, users, flaky, mishaps, saltFile, boots, deployed, loader, readVars, salts>>

ConfigInit ==
  /\ redisUp = TRUE
  /\ persisted = None
  /\ userKeys = {}
  /\ users = {}
  /\ saltFile = [p \in Processes |-> None]
  /\ boots = [p \in Processes |-> 0]
  /\ deployed \in [Processes -> Deployments]
  /\ loader = [p \in Processes |-> Idle]
  /\ seen = [p \in Processes |-> {}]
  /\ changed = [p \in Processes |-> {}]
  /\ salts = [p \in Processes |-> {}]
  /\ flaky = FALSE
  /\ mishaps = 0
=============================================================================
