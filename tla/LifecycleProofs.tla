-------------------------- MODULE LifecycleProofs --------------------------
(***************************************************************************)
(* Proofs about Lifecycle and Configuration: the types, the agreement of   *)
(* the modules of a process on its configuration, the single default user  *)
(* of a context, the address a process takes for its own, and the salt,    *)
(* for any processes, options, files, environments and stored              *)
(* configurations.                                                         *)
(***************************************************************************)
EXTENDS Lifecycle, FiniteSetTheorems, TLAPS

Points == {"idle", "find", "create", "check", "save", "read", "salt", "loaded"}

Loader ==
  [ctx : {"none", "server", "rest"}, agenda : Seq({"config", "source"}), at : Points,
   retries : Int, ref : UserRef \cup {None}, mine : Config]

\* While a context loads it is one of the two, with something left to load.
Busy(l) ==
  /\ l.at # "idle" => l.ctx # "none"
  /\ l.at \notin {"idle", "loaded"} => l.agenda # <<>>

StoreTypes ==
  /\ redisUp \in BOOLEAN /\ flaky \in BOOLEAN
  /\ persisted \in Config \cup {None}
  /\ users \subseteq userKeys
  /\ IsFiniteSet(userKeys)
  /\ mishaps \in 0 .. MaxMishaps

LoadTypes ==
  /\ boots \in [Processes -> Nat]
  /\ deployed \in [Processes -> Deployments]
  /\ loader \in [Processes -> Loader]
  /\ \A p \in Processes : Busy(loader[p])
  /\ seen \in [Processes -> SUBSET Config]
  /\ changed \in [Processes -> SUBSET Options]
  /\ saltFile \in [Processes -> SaltValue \cup {None}]
  /\ salts \in [Processes -> SUBSET SaltValue]

ProcessTypes ==
  /\ phase \in [Processes -> {"down", "loading", "controller", "serving"}]
  /\ \A p \in Processes : (phase[p] = "loading") = (loader[p].at # "idle")
  /\ sip \in [Processes -> BOOLEAN]
  /\ timers \in [Processes -> SUBSET Graceful]
  /\ told \in [Processes -> SUBSET Graceful]

Types == StoreTypes /\ LoadTypes /\ ProcessTypes

\* Unfolded in every proof: what the modules have read is two variables.
USE DEF readVars

-----------------------------------------------------------------------------
(* Configurations.                                                         *)

\* Merging gives a configuration, in which what is over wins.
LEMMA MergeType ==
  ASSUME NEW under \in Config, NEW over \in Config
  PROVE  /\ Merge(under, over) \in Config
         /\ \A o \in Options : over[o] # None => Merge(under, over)[o] = over[o]
BY DEF Merge, Config

\* The empty configuration is one.
LEMMA NothingType == Nothing \in Config
BY DEF Nothing, Config

\* What a process is deployed with is a configuration.
LEMMA DeployedType ==
  ASSUME LoadTypes, NEW p \in Processes
  PROVE  FromFileAndEnv(p) \in Config
<1>1. deployed[p].file \in Config /\ deployed[p].env \in Config
  BY DeploymentsAssumption DEF LoadTypes
<1>2. FromEnv(deployed[p].env) \in Config
  BY <1>1 DEF FromEnv, Config
<1> QED BY <1>1, <1>2, MergeType DEF FromFileAndEnv

\* What a process works with is one, in which file and environment win.
LEMMA EffectiveType ==
  ASSUME StoreTypes, LoadTypes, NEW p \in Processes
  PROVE  /\ Effective(p) \in Config
         /\ \A o \in Options :
              FromFileAndEnv(p)[o] # None => Effective(p)[o] = FromFileAndEnv(p)[o]
<1> DEFINE known == Merge(Stored(persisted), FromFileAndEnv(p))
<1>1. Stored(persisted) \in Config
  BY NothingType DEF StoreTypes, Stored
<1>2. Default[p] \in Config
  BY DefaultAssumption
<1>3. /\ known \in Config
      /\ \A o \in Options :
           FromFileAndEnv(p)[o] # None => known[o] = FromFileAndEnv(p)[o]
  BY <1>1, DeployedType, MergeType
<1>4. Effective(p) = Merge(Default[p], known)
  BY DEF Effective
<1> QED BY <1>2, <1>3, <1>4, MergeType

\* An option that neither wins has its value from what is stored, or the default.
LEMMA EffectiveValue ==
  ASSUME NEW p \in Processes, NEW o \in Options,
         LoadTypes, FromFileAndEnv(p)[o] = None
  PROVE  \/ Effective(p)[o] = Default[p][o]
         \/ persisted # None /\ Effective(p)[o] = persisted[o] /\ persisted[o] # None
BY DEF Effective, Merge, Stored, Nothing

-----------------------------------------------------------------------------
(* Types.                                                                  *)

\* A fresh loader is a loader.
LEMMA IdleType == Idle \in Loader /\ Busy(Idle)
<1>1. <<>> \in Seq({"config", "source"})
  OBVIOUS
<1> QED BY <1>1, NothingType DEF Idle, Loader, Busy, Points

\* A fresh process has contexts of the right type.
LEMMA FreshType ==
  ASSUME NEW p \in Processes, NEW ctx \in {"server", "rest"}
  PROVE  Fresh(p, ctx) \in Loader /\ Busy(Fresh(p, ctx)) /\ Fresh(p, ctx).at # "idle"
BY NothingType, AgendaAssumption, MaxRetryAssumption DEF Fresh, Loader, Busy, Points

\* After a task comes the next, or nothing.
LEMMA OnwardsType ==
  ASSUME LoadTypes, NEW p \in Processes, loader[p].agenda # <<>>, loader[p].at # "idle"
  PROVE  LET l == Onwards(p, Tail(loader[p].agenda))
         IN  l \in Loader /\ Busy(l) /\ l.at # "idle"
<1> DEFINE rest == Tail(loader[p].agenda)
<1>1. loader[p] \in Loader /\ MaxRetry[p] \in Int /\ loader[p].ctx # "none"
  BY MaxRetryAssumption DEF LoadTypes, Busy
<1>2. rest \in Seq({"config", "source"})
  BY <1>1 DEF Loader
<1> HIDE DEF rest
<1>3. Onwards(p, rest) \in Loader /\ Busy(Onwards(p, rest)) /\ Onwards(p, rest).at # "idle"
  BY <1>1, <1>2 DEF Onwards, Loader, Busy, Points
<1> QED BY <1>3 DEF rest

\* A context that has built its data source has the right type.
LEMMA ConstructedType ==
  ASSUME LoadTypes, NEW p \in Processes, loader[p].agenda # <<>>, loader[p].at # "idle"
  PROVE  Constructed(p) \in Loader /\ Busy(Constructed(p)) /\ Constructed(p).at # "idle"
<1>1. loader[p] \in Loader /\ loader[p].ctx # "none"
  BY DEF LoadTypes, Busy
<1>2. CASE Head(loader[p].agenda) = "config"
  BY <1>1, <1>2 DEF Constructed, Loader, Busy, Points
<1>3. CASE Head(loader[p].agenda) # "config"
  BY <1>3, OnwardsType DEF Constructed
<1> QED BY <1>2, <1>3

\* The reference of a default user.
LEMMA ReferenceType ==
  ASSUME StoreTypes, LoadTypes, NEW p \in Processes, loader[p].at # "idle"
  PROVE  Reference(p) \in UserRef
<1>1. boots[p] \in Nat /\ loader[p].ctx \in {"server", "rest"} /\ loader[p].ref \in UserRef \cup {None}
  BY DEF LoadTypes, Loader, Busy
<1> DEFINE owner == <<p, boots[p], loader[p].ctx>>
           mine  == {u \in userKeys : u.owner = owner}
<1>2. Cardinality(mine) \in Nat
  <2>1. IsFiniteSet(mine)
    BY FS_Subset DEF StoreTypes
  <2> QED BY <2>1, FS_CardinalityType
<1>3. NewReference(p) = [owner |-> owner, serial |-> Cardinality(mine)]
  BY DEF NewReference
<1> HIDE DEF mine
<1>4. NewReference(p) \in UserRef
  BY <1>1, <1>2, <1>3 DEF UserRef
<1> QED BY <1>1, <1>4 DEF Reference

\* What a module generates is a salt.
LEMMA GeneratedType ==
  ASSUME LoadTypes, NEW p \in Processes, loader[p].at # "idle"
  PROVE  Generated(p) \in SaltValue /\ Generated(p) # None
<1>1. boots[p] \in Nat /\ loader[p].ctx \in {"server", "rest"} /\ Len(loader[p].agenda) \in Nat
  BY DEF LoadTypes, Loader, Busy
<1>2. Generated(p) \in SaltValue
  BY <1>1 DEF Generated, SaltValue
<1> QED BY <1>2, NoneAssumption

\* What the processes take note of are options.
LEMMA NoteType ==
  ASSUME LoadTypes, NEW readers, Note(readers)
  PROVE  changed' \in [Processes -> SUBSET Options]
BY DEF LoadTypes, Note

\* A process goes on loading: its loader is another, and the store, what was
\* seen and the salts stay typed.
LEMMA LoaderStep ==
  ASSUME Types, NEW p \in Processes, NEW l \in Loader, Busy(l), l.at # "idle",
         phase[p] = "loading", loader' = [loader EXCEPT ![p] = l],
         UNCHANGED <<boots, deployed, processVars>>, StoreTypes',
         seen' \in [Processes -> SUBSET Config],
         changed' \in [Processes -> SUBSET Options],
         saltFile' \in [Processes -> SaltValue \cup {None}],
         salts' \in [Processes -> SUBSET SaltValue]
  PROVE  Types'
<1>1. LoadTypes'
  BY DEF Types, LoadTypes
<1>2. ProcessTypes'
  BY DEF Types, LoadTypes, ProcessTypes, processVars
<1> QED BY <1>1, <1>2 DEF Types

\* Every step of loading keeps the types.
LEMMA TypesLoad ==
  ASSUME Types, NEW p \in Processes, LoadStep(p)
  PROVE  Types'
<1>1. phase[p] = "loading" /\ UNCHANGED processVars /\ loader[p].at # "idle"
  BY DEF LoadStep, Types, ProcessTypes
<1>2. loader[p] \in Loader /\ Busy(loader[p]) /\ boots[p] \in Nat
  BY DEF Types, LoadTypes
<1>3. loader[p].at # "loaded" => loader[p].agenda # <<>>
  BY <1>1, <1>2 DEF Busy
<1>4. Reference(p) \in UserRef
  BY <1>1, ReferenceType DEF Types
<1>5. Effective(p) \in Config /\ FromFileAndEnv(p) \in Config
  BY EffectiveType, DeployedType DEF Types
<1>6. CASE FindUsers(p)
  <2> DEFINE l == [loader[p] EXCEPT !.at = IF redisUp /\ users # {} THEN "check" ELSE "create"]
  <2>1. l \in Loader /\ Busy(l) /\ l.at # "idle"
    BY <1>2, <1>3, <1>6 DEF FindUsers, Loader, Points, Busy
  <2>2. loader' = [loader EXCEPT ![p] = l]
    BY <1>6 DEF FindUsers
  <2> QED BY <1>1, <1>6, <2>1, <2>2, LoaderStep
           DEF FindUsers, redisVars, Types, StoreTypes, LoadTypes
<1>7. CASE CreateDefaultUser(p)
  <2> DEFINE l == [loader[p] EXCEPT !.at = "check", !.ref = Reference(p)]
  <2>1. l \in Loader /\ Busy(l) /\ l.at # "idle"
    BY <1>2, <1>3, <1>4, <1>7 DEF CreateDefaultUser, Loader, Points, Busy
  <2>2. loader' = [loader EXCEPT ![p] = l]
    BY <1>7 DEF CreateDefaultUser
  <2>3. IsFiniteSet(userKeys')
    BY <1>7, FS_AddElement DEF CreateDefaultUser, Types, StoreTypes
  <2>4. StoreTypes'
    <3>1. UNCHANGED <<redisUp, persisted>> /\ flaky' \in BOOLEAN
      BY <1>7 DEF CreateDefaultUser, Types, StoreTypes
    <3>2. users' \subseteq userKeys'
      BY <1>7 DEF CreateDefaultUser, Types, StoreTypes
    <3>3. mishaps' \in 0 .. MaxMishaps
      BY <1>7, MaxMishapsAssumption DEF CreateDefaultUser, Types, StoreTypes
    <3> QED BY <2>3, <3>1, <3>2, <3>3 DEF Types, StoreTypes
  <2> QED BY <1>1, <1>7, <2>1, <2>2, <2>4, LoaderStep
           DEF CreateDefaultUser, Types, LoadTypes
<1>8. CASE CheckConfig(p)
  <2> DEFINE l == IF redisUp /\ persisted = None THEN [loader[p] EXCEPT !.at = "save"]
                  ELSE Constructed(p)
  <2>1. [loader[p] EXCEPT !.at = "save"] \in Loader /\ Busy([loader[p] EXCEPT !.at = "save"])
    BY <1>2, <1>3, <1>8 DEF CheckConfig, Loader, Points, Busy
  <2>2. Constructed(p) \in Loader /\ Busy(Constructed(p)) /\ Constructed(p).at # "idle"
    BY <1>1, <1>3, <1>8, ConstructedType DEF CheckConfig, Types
  <2>3. l \in Loader /\ Busy(l) /\ l.at # "idle"
    BY <1>2, <2>1, <2>2 DEF Loader
  <2>4. loader' = [loader EXCEPT ![p] = l]
    BY <1>8 DEF CheckConfig
  <2> HIDE DEF l
  <2> QED BY <1>1, <1>8, <2>3, <2>4, LoaderStep
           DEF CheckConfig, redisVars, Types, StoreTypes, LoadTypes
<1>9. CASE CreateDefaultConfig(p)
  <2>1. Constructed(p) \in Loader /\ Busy(Constructed(p)) /\ Constructed(p).at # "idle"
    BY <1>1, <1>3, <1>9, ConstructedType DEF CreateDefaultConfig, Types
  <2>2. Given(p) \in Config
    BY <1>2, <1>5 DEF Given, Loader
  <2>3. StoreTypes' /\ changed' \in [Processes -> SUBSET Options]
    BY <1>9, <2>2, NoteType DEF CreateDefaultConfig, Types, StoreTypes
  <2>4. loader' = [loader EXCEPT ![p] = Constructed(p)]
    BY <1>9 DEF CreateDefaultConfig
  <2> QED BY <1>1, <1>9, <2>1, <2>3, <2>4, LoaderStep
           DEF CreateDefaultConfig, Types, LoadTypes
<1>10. CASE GetConfig(p)
  <2> DEFINE l == [loader[p] EXCEPT !.at = "salt", !.mine = Effective(p)]
  <2>1. l \in Loader /\ Busy(l) /\ l.at # "idle"
    BY <1>2, <1>3, <1>5, <1>10 DEF GetConfig, Loader, Points, Busy
  <2>2. loader' = [loader EXCEPT ![p] = l]
    BY <1>10 DEF GetConfig
  <2>3. seen' \in [Processes -> SUBSET Config]
    BY <1>5, <1>10 DEF GetConfig, Types, LoadTypes
  <2> QED BY <1>1, <1>10, <2>1, <2>2, <2>3, LoaderStep
           DEF GetConfig, redisVars, Types, StoreTypes, LoadTypes
<1>11. CASE Retry(p)
  <2> DEFINE l == [loader[p] EXCEPT !.at = "find",
                     !.retries = IF loader[p].retries > 0 THEN loader[p].retries - 1
                                 ELSE loader[p].retries]
  <2> DEFINE left == IF loader[p].retries > 0 THEN loader[p].retries - 1 ELSE loader[p].retries
  <2>3. left \in Int
    BY <1>2 DEF Loader
  <2>4. loader[p].agenda # <<>>
    BY <1>3, <1>11 DEF Retry
  <2>1. l \in Loader /\ Busy(l) /\ l.at # "idle"
    BY <1>1, <1>2, <2>3, <2>4 DEF Loader, Points, Busy
  <2>2. loader' = [loader EXCEPT ![p] = l]
    BY <1>11 DEF Retry
  <2> QED BY <1>1, <1>11, <2>1, <2>2, LoaderStep
           DEF Retry, redisVars, Types, StoreTypes, LoadTypes
<1>12. CASE Salt(p)
  <2> DEFINE l == Onwards(p, Tail(loader[p].agenda))
  <2>1. l \in Loader /\ Busy(l) /\ l.at # "idle"
    BY <1>1, <1>3, <1>12, OnwardsType DEF Salt, Types
  <2>2. loader' = [loader EXCEPT ![p] = l]
    BY <1>12 DEF Salt
  <2>3. Generated(p) \in SaltValue
    BY <1>1, GeneratedType DEF Types
  <2>4. saltFile' \in [Processes -> SaltValue \cup {None}] /\ saltFile'[p] \in SaltValue
    BY <1>12, <2>3 DEF Salt, Types, LoadTypes
  <2>5. salts' \in [Processes -> SUBSET SaltValue]
    BY <1>12, <2>4 DEF Salt, Types, LoadTypes
  <2> HIDE DEF l
  <2> QED BY <1>1, <1>12, <2>1, <2>2, <2>4, <2>5, LoaderStep
           DEF Salt, redisVars, Types, StoreTypes, LoadTypes
<1> QED BY <1>6, <1>7, <1>8, <1>9, <1>10, <1>11, <1>12 DEF LoadStep, Load

\* A process starts, with whatever it is deployed with.
LEMMA TypesLaunch ==
  ASSUME Types, NEW p \in Processes, NEW d \in Deployments, Launch(p, d), StoreTypes',
         saltFile' \in [Processes -> SaltValue \cup {None}],
         salts' \in [Processes -> SUBSET SaltValue],
         sip' \in [Processes -> BOOLEAN],
         timers' \in [Processes -> SUBSET Graceful],
         told' \in [Processes -> SUBSET Graceful]
  PROVE  Types'
<1>1. Fresh(p, "server") \in Loader /\ Busy(Fresh(p, "server")) /\ Fresh(p, "server").at # "idle"
  BY FreshType
<1>2. LoadTypes'
  <2>1. boots' \in [Processes -> Nat] /\ deployed' \in [Processes -> Deployments]
    BY DEF Launch, Types, LoadTypes
  <2>2. seen' \in [Processes -> SUBSET Config] /\ changed' \in [Processes -> SUBSET Options]
    BY DEF Launch, Types, LoadTypes
  <2>3. loader' \in [Processes -> Loader] /\ \A q \in Processes : Busy(loader'[q])
    BY <1>1 DEF Launch, Types, LoadTypes
  <2> QED BY <2>1, <2>2, <2>3 DEF LoadTypes
<1>3. ProcessTypes'
  BY <1>1 DEF Launch, Types, LoadTypes, ProcessTypes
<1> QED BY <1>2, <1>3 DEF Types

\* A process ends, and perhaps starts again.
LEMMA TypesExit ==
  ASSUME Types, NEW p \in Processes, NEW code, NEW why, Exit(p, code, why), StoreTypes',
         saltFile' \in [Processes -> SaltValue \cup {None}],
         salts' \in [Processes -> SUBSET SaltValue]
  PROVE  Types'
<1>1. /\ sip' \in [Processes -> BOOLEAN]
      /\ timers' \in [Processes -> SUBSET Graceful]
      /\ told' \in [Processes -> SUBSET Graceful]
  BY DEF Exit, Types, ProcessTypes
<1>2. CASE Launch(p, deployed[p])
  <2>1. deployed[p] \in Deployments
    BY DEF Types, LoadTypes
  <2> QED BY <1>1, <1>2, <2>1, TypesLaunch
<1>3. CASE /\ phase' = [phase EXCEPT ![p] = "down"]
           /\ loader' = [loader EXCEPT ![p] = Idle]
           /\ UNCHANGED <<boots, deployed, readVars>>
  <2>1. Idle \in Loader /\ Busy(Idle) /\ Idle.at = "idle"
    BY IdleType DEF Idle
  <2>2. LoadTypes'
    BY <1>3, <2>1 DEF Types, LoadTypes
  <2>3. ProcessTypes'
    BY <1>1, <1>3, <2>1 DEF Types, LoadTypes, ProcessTypes
  <2> QED BY <2>2, <2>3 DEF Types
<1> QED BY <1>2, <1>3 DEF Exit

\* A command or an exit that leaves the loading alone.
LEMMA TypesIdle ==
  ASSUME Types, UNCHANGED <<configVars, phase, sip>>,
         timers' \in [Processes -> SUBSET Graceful],
         told' \in [Processes -> SUBSET Graceful]
  PROVE  Types'
BY DEF Types, StoreTypes, LoadTypes, ProcessTypes, configVars, redisVars

\* Each step of the launcher keeps the types.
LEMMA TypesLauncher ==
  ASSUME Types, NEW p \in Processes, Launcher(p)
  PROVE  Types'
<1>1. CASE LoadStep(p)
  BY <1>1, TypesLoad
<1>2. CASE ExitOnRedis(p)
  <2>1. Exit(p, 1, "redis")
    BY <1>2 DEF ExitOnRedis
  <2> QED BY <1>2, <2>1, TypesExit DEF ExitOnRedis, redisVars, Types, StoreTypes, LoadTypes
<1>3. CASE SetUp(p)
  <2>1. Fresh(p, "rest") \in Loader /\ Busy(Fresh(p, "rest")) /\ Fresh(p, "rest").at # "idle"
    BY FreshType
  <2>2. LoadTypes' /\ StoreTypes'
    BY <1>3, <2>1 DEF SetUp, redisVars, Types, StoreTypes, LoadTypes
  <2>3. ProcessTypes'
    BY <1>3, <2>1 DEF SetUp, Types, LoadTypes, ProcessTypes
  <2> QED BY <2>2, <2>3 DEF Types
<1>4. CASE StartRest(p)
  <2>1. StoreTypes' /\ UNCHANGED <<saltFile, salts>>
    BY <1>4 DEF StartRest, redisVars, Types, StoreTypes
  <2>2. CASE Exit(p, 1, "port")
    BY <2>1, <2>2, TypesExit DEF Types, LoadTypes
  <2>3. CASE /\ phase' = [phase EXCEPT ![p] = "controller"]
             /\ loader' = [loader EXCEPT ![p] = Idle]
             /\ UNCHANGED <<boots, deployed, readVars, sip, timers, told, cause>>
    <3>1. Idle \in Loader /\ Busy(Idle) /\ Idle.at = "idle"
      BY IdleType DEF Idle
    <3>2. LoadTypes'
      BY <2>1, <2>3, <3>1 DEF Types, LoadTypes
    <3>3. ProcessTypes'
      BY <2>3, <3>1 DEF Types, LoadTypes, ProcessTypes
    <3> QED BY <2>1, <3>2, <3>3 DEF Types
  <2> QED BY <1>4, <2>2, <2>3 DEF StartRest
<1>5. CASE StartController(p)
  <2>1. StoreTypes' /\ UNCHANGED <<saltFile, salts>>
    BY <1>5 DEF StartController, redisVars, Types, StoreTypes
  <2>2. CASE Exit(p, 1, "port")
    BY <2>1, <2>2, TypesExit DEF Types, LoadTypes
  <2>3. CASE /\ phase' = [phase EXCEPT ![p] = "serving"]
             /\ UNCHANGED <<boots, deployed, loader, readVars, sip, timers, told, cause>>
    <3>1. LoadTypes'
      BY <2>1, <2>3 DEF Types, LoadTypes
    <3>2. phase[p] = "controller"
      BY <1>5 DEF StartController
    <3>3. ProcessTypes'
      BY <2>3, <3>2 DEF Types, LoadTypes, ProcessTypes
    <3> QED BY <2>1, <3>1, <3>3 DEF Types
  <2> QED BY <1>5, <2>2, <2>3 DEF StartController
<1> QED BY <1>1, <1>2, <1>3, <1>4, <1>5 DEF Launcher

\* Each outcome of a command keeps the types.
LEMMA TypesCommand ==
  ASSUME Types, NEW p \in Processes, NEW cmd \in Commands, Command(p, cmd)
  PROVE  Types'
<1>1. ASSUME Acknowledge(p, cmd)
      PROVE  told' \in [Processes -> SUBSET Graceful]
  BY <1>1 DEF Acknowledge, Types, ProcessTypes
<1>2. CASE CallFails(p, cmd)
  BY <1>1, <1>2, TypesIdle DEF CallFails, Types, ProcessTypes
<1>3. CASE Schedule(p, cmd)
  <2>1. timers' \in [Processes -> SUBSET Graceful]
    BY <1>3 DEF Schedule, Types, ProcessTypes
  <2> QED BY <1>1, <1>3, <2>1, TypesIdle DEF Schedule
<1>4. CASE StopNow(p, cmd)
  <2>1. Exit(p, Code(cmd), cmd)
    BY <1>4 DEF StopNow
  <2> QED BY <1>4, <2>1, TypesExit DEF StopNow, redisVars, Types, StoreTypes, LoadTypes
<1>5. CASE Fire(p, cmd)
  <2>1. timers' \in [Processes -> SUBSET Graceful] /\ told' = told
    BY <1>5 DEF Fire, Types, ProcessTypes
  <2> QED BY <1>5, <2>1, TypesIdle DEF Fire, Types, ProcessTypes
<1> QED BY <1>2, <1>3, <1>4, <1>5 DEF Command

\* The store alone changes.
LEMMA TypesStore ==
  ASSUME Types, StoreTypes', changed' \in [Processes -> SUBSET Options],
         UNCHANGED <<saltFile, boots, deployed, loader, seen, salts, processVars>>
  PROVE  Types'
BY DEF Types, LoadTypes, ProcessTypes, processVars

\* The types hold at first.
LEMMA TypesInit == Init => Types
<1> SUFFICES ASSUME Init PROVE Types
  OBVIOUS
<1>1. StoreTypes
  <2>1. 0 \in 0 .. MaxMishaps /\ IsFiniteSet({})
    BY FS_EmptySet, MaxMishapsAssumption
  <2> QED BY <2>1 DEF Init, ConfigInit, StoreTypes
<1>2. LoadTypes
  BY IdleType DEF Init, ConfigInit, LoadTypes
<1>3. ProcessTypes
  BY DEF Init, ConfigInit, ProcessTypes, Idle
<1> QED BY <1>1, <1>2, <1>3 DEF Types

\* Every step keeps the types.
LEMMA TypesStep == Types /\ [Next]_vars => Types'
<1> SUFFICES ASSUME Types, [Next]_vars PROVE Types'
  OBVIOUS
<1>1. ASSUME NEW p \in Processes, Start(p) PROVE Types'
  <2>1. PICK d \in Deployments : Launch(p, d)
    BY <1>1 DEF Start
  <2> QED BY <1>1, <2>1, TypesLaunch
           DEF Start, redisVars, Types, StoreTypes, LoadTypes, ProcessTypes
<1>2. ASSUME NEW p \in Processes, Crash(p) PROVE Types'
  <2>1. Exit(p, 137, "crash")
    BY <1>2 DEF Crash
  <2>2. StoreTypes'
    BY <1>2, MaxMishapsAssumption DEF Crash, Types, StoreTypes
  <2>3. saltFile' \in [Processes -> SaltValue \cup {None}]
    BY <1>2 DEF Crash, Types, LoadTypes, SaltValue
  <2> QED BY <1>2, <2>1, <2>2, <2>3, TypesExit DEF Crash, Types, LoadTypes
<1>3. ASSUME NEW p \in Processes, Launcher(p) PROVE Types'
  BY <1>3, TypesLauncher
<1>4. ASSUME NEW p \in Processes, NEW cmd \in Asked[p], Command(p, cmd) PROVE Types'
  BY <1>4, TypesCommand, AskedAssumption
<1>5. ASSUME NEW p \in Processes, NEW c \in Puts, PutConfig(p, c) PROVE Types'
  <2>1. StoreTypes' /\ changed' \in [Processes -> SUBSET Options]
    BY <1>5, PutsAssumption, NoteType DEF PutConfig, SetConfig, Types, StoreTypes
  <2> QED BY <1>5, <2>1, TypesStore DEF PutConfig, SetConfig
<1>6. CASE Environment
  <2>1. StoreTypes'
    <3>1. mishaps' \in 0 .. MaxMishaps
      BY <1>6, MaxMishapsAssumption DEF Environment, Outage, Recover, Types, StoreTypes
    <3> QED BY <1>6, <3>1 DEF Environment, Outage, Recover, Types, StoreTypes
  <2> QED BY <1>6, <2>1, TypesStore DEF Environment, Outage, Recover, Types, LoadTypes
<1>7. CASE UNCHANGED vars
  BY <1>7, TypesIdle DEF vars, processVars, Types, ProcessTypes
<1> QED BY <1>1, <1>2, <1>3, <1>4, <1>5, <1>6, <1>7 DEF Next

\* The types hold in every run.
LEMMA TypesAlways == Spec => []Types
BY TypesInit, TypesStep, PTL DEF Spec

(***************************************************************************)
(* The variables stay in their types: whatever fails, a member of the set  *)
(* of users has its key, and a process loads exactly when its launcher     *)
(* does.                                                                   *)
(***************************************************************************)
THEOREM TypeCorrect == Spec => []TypeOK
<1>1. Types => TypeOK
  BY DEF Types, StoreTypes, LoadTypes, ProcessTypes, TypeOK, Loader, Points
<1> QED BY <1>1, TypesAlways, PTL

-----------------------------------------------------------------------------
(* What a step does to the loading of the contexts, in five kinds.         *)

\* The end of a process leaves Redis alone, and perhaps an empty salt.
Kept(p) ==
  /\ UNCHANGED <<redisUp, persisted, userKeys, users, flaky, salts>>
  /\ \/ UNCHANGED saltFile
     \/ saltFile[p] = None /\ saltFile' = [saltFile EXCEPT ![p] = <<>>]

Unloads(p) == loader' = [loader EXCEPT ![p] = Idle] /\ UNCHANGED <<boots, deployed, readVars>>

NextContext(p) ==
  /\ loader[p].ctx = "server"
  /\ loader[p].at = "loaded"
  /\ loader' = [loader EXCEPT ![p] = Fresh(p, "rest")]
  /\ UNCHANGED <<redisVars, boots, deployed, readVars, saltFile, salts>>

Elsewhere ==
  /\ UNCHANGED <<boots, deployed, loader, seen, saltFile, salts>>
  /\ \/ UNCHANGED <<redisVars, changed>>
     \/ Outage
     \/ Recover
     \/ \E c \in Puts : SetConfig(c)

StepKinds ==
  \/ \E p \in Processes : Load(p)
  \/ \E p \in Processes : (\E d \in Deployments : Launch(p, d)) /\ Kept(p)
  \/ \E p \in Processes : Unloads(p) /\ Kept(p)
  \/ \E p \in Processes : NextContext(p)
  \/ Elsewhere

\* A process that exits starts again or unloads.
LEMMA ExitKinds ==
  ASSUME Types, NEW p \in Processes, NEW code, NEW why, Exit(p, code, why)
  PROVE  (\E d \in Deployments : Launch(p, d)) \/ Unloads(p)
<1>1. deployed[p] \in Deployments
  BY DEF Types, LoadTypes
<1> QED BY <1>1 DEF Exit, Unloads

\* Every step is of one of the five kinds.
LEMMA NextKinds == Types /\ [Next]_vars => StepKinds
<1> SUFFICES ASSUME Types, [Next]_vars PROVE StepKinds
  OBVIOUS
<1>1. ASSUME NEW p \in Processes, Start(p) PROVE StepKinds
  BY <1>1 DEF Start, Kept, redisVars, StepKinds
<1>2. ASSUME NEW p \in Processes, Crash(p) PROVE StepKinds
  <2>1. Kept(p)
    BY <1>2 DEF Crash, Kept
  <2>2. (\E d \in Deployments : Launch(p, d)) \/ Unloads(p)
    BY <1>2, ExitKinds DEF Crash
  <2> QED BY <2>1, <2>2 DEF StepKinds
<1>3. ASSUME NEW p \in Processes, Launcher(p) PROVE StepKinds
  <2>1. CASE LoadStep(p)
    BY <2>1 DEF LoadStep, StepKinds
  <2>2. CASE SetUp(p)
    BY <2>2 DEF SetUp, NextContext, StepKinds
  <2>3. ASSUME NEW why, Exit(p, 1, why), UNCHANGED <<redisVars, saltFile, salts>>
        PROVE  StepKinds
    <3>1. Kept(p)
      BY <2>3 DEF Kept, redisVars
    <3> QED BY <2>3, <3>1, ExitKinds DEF StepKinds
  <2>4. CASE ExitOnRedis(p)
    BY <2>3, <2>4 DEF ExitOnRedis
  <2>5. CASE StartRest(p)
    <3>1. CASE Exit(p, 1, "port")
      BY <2>3, <2>5, <3>1 DEF StartRest
    <3>2. CASE ~Exit(p, 1, "port")
      BY <2>5, <3>2 DEF StartRest, Unloads, Kept, redisVars, StepKinds
    <3> QED BY <3>1, <3>2
  <2>6. CASE StartController(p)
    <3>1. CASE Exit(p, 1, "port")
      BY <2>3, <2>6, <3>1 DEF StartController
    <3>2. CASE ~Exit(p, 1, "port")
      BY <2>6, <3>2 DEF StartController, Elsewhere, StepKinds
    <3> QED BY <3>1, <3>2
  <2> QED BY <1>3, <2>1, <2>2, <2>4, <2>5, <2>6 DEF Launcher
<1>4. ASSUME NEW p \in Processes, NEW cmd \in Asked[p], Command(p, cmd) PROVE StepKinds
  <2>1. CASE StopNow(p, cmd)
    <3>1. Kept(p) /\ Exit(p, Code(cmd), cmd)
      BY <2>1 DEF StopNow, Kept, redisVars
    <3> QED BY <3>1, ExitKinds DEF StepKinds
  <2>2. CASE CallFails(p, cmd) \/ Schedule(p, cmd) \/ Fire(p, cmd)
    BY <2>2 DEF CallFails, Schedule, Fire, configVars, Elsewhere, StepKinds
  <2> QED BY <1>4, <2>1, <2>2 DEF Command
<1>5. ASSUME NEW p \in Processes, NEW c \in Puts, PutConfig(p, c) PROVE StepKinds
  <2>1. SetConfig(c)
    BY <1>5 DEF PutConfig
  <2> QED BY <2>1 DEF SetConfig, Elsewhere, StepKinds
<1>6. CASE Environment
  BY <1>6 DEF Environment, Outage, Recover, Elsewhere, StepKinds
<1>7. CASE UNCHANGED vars
  BY <1>7 DEF vars, configVars, Elsewhere, StepKinds
<1> QED BY <1>1, <1>2, <1>3, <1>4, <1>5, <1>6, <1>7 DEF Next

-----------------------------------------------------------------------------
(* The modules of a process agree.                                         *)

\* What a process works with while nothing of use is stored.
Bare(p) == Merge(Default[p], FromFileAndEnv(p))

\* As long as nothing is stored, and while a process is about to store, it has
\* read nothing but that.  What a module has read of an option is what the
\* process works with now, unless somebody else changed it since.
AlikeAt(p) ==
  /\ (persisted = None \/ loader[p].at = "save") =>
       loader[p].mine \in {Nothing, Bare(p)} /\ seen[p] \subseteq {Bare(p)}
  /\ \A c \in seen[p] : \A o \in Options :
       (o \notin changed[p] \/ FromFileAndEnv(p)[o] # None) => c[o] = Effective(p)[o]

Alike == \A p \in Processes : AlikeAt(p)

\* Where every module has read what the process works with, they agree.
LEMMA AlikeAgree == Alike => ModulesAgree
BY DEF Alike, AlikeAt, ModulesAgree

\* Storing what it works with, or its file and environment, changes nothing
\* for a process.
LEMMA StoringOwn ==
  ASSUME LoadTypes, NEW p \in Processes,
         NEW own \in {Nothing, FromFileAndEnv(p), Bare(p)}
  PROVE  Merge(Default[p], Merge(own, FromFileAndEnv(p))) = Bare(p)
<1>1. Default[p] \in Config /\ FromFileAndEnv(p) \in Config
  BY DefaultAssumption, DeployedType
<1>2. CASE own = Nothing
  BY <1>1, <1>2 DEF Bare, Merge, Nothing, Config
<1>3. CASE own = FromFileAndEnv(p)
  BY <1>1, <1>3 DEF Bare, Merge, Config
<1>4. CASE own = Bare(p)
  BY <1>1, <1>4 DEF Bare, Merge, Config
<1> QED BY <1>2, <1>3, <1>4

\* With nothing stored, a process works with its defaults, file and environment.
LEMMA EffectiveBare ==
  ASSUME LoadTypes, NEW p \in Processes, persisted = None
  PROVE  Effective(p) = Bare(p)
BY StoringOwn DEF Effective, Stored

\* Nothing is read at first.
LEMMA AlikeInit == Init => Alike
BY DEF Init, ConfigInit, Alike, AlikeAt, Idle

\* What a process works with depends on its deployment and on what is stored.
LEMMA SameDeployed ==
  ASSUME NEW p \in Processes, deployed'[p] = deployed[p]
  PROVE  /\ FromFileAndEnv(p)' = FromFileAndEnv(p)
         /\ Bare(p)' = Bare(p)
         /\ Effective(p)' = Merge(Default[p], Merge(Stored(persisted'), FromFileAndEnv(p)))
BY DEF FromFileAndEnv, Bare, Effective, Stored

\* A step that stores nothing and reads nothing, and that gets the process no
\* nearer to storing than it may be.
LEMMA AlikeQuiet ==
  ASSUME NEW p \in Processes, AlikeAt(p),
         persisted' = persisted, deployed'[p] = deployed[p],
         seen'[p] = seen[p], changed'[p] = changed[p],
         loader'[p].mine \in {loader[p].mine, Nothing},
         loader'[p].at = "save" => loader[p].at = "save" \/ persisted = None
  PROVE  AlikeAt(p)'
BY SameDeployed DEF AlikeAt, Effective, Stored

\* Somebody else stores something, and the process takes note.
LEMMA AlikeNoted ==
  ASSUME Types, Types', NEW p \in Processes, AlikeAt(p), NEW readers, p \in readers, Note(readers),
         persisted' = None => persisted = None, deployed'[p] = deployed[p],
         seen'[p] = seen[p], loader'[p] = loader[p]
  PROVE  AlikeAt(p)'
<1>1. (persisted' = None \/ loader'[p].at = "save") =>
        loader'[p].mine \in {Nothing, Bare(p)'} /\ seen'[p] \subseteq {Bare(p)'}
  BY SameDeployed DEF AlikeAt
<1>2. ASSUME NEW c \in seen[p], NEW o \in Options,
             o \notin changed'[p] \/ FromFileAndEnv(p)[o] # None
      PROVE  c[o] = Effective(p)'[o]
  <2>1. CASE FromFileAndEnv(p)[o] # None
    <3>1. c[o] = Effective(p)[o] /\ Effective(p)[o] = FromFileAndEnv(p)[o]
      BY <2>1, EffectiveType DEF AlikeAt, Types
    <3>2. Effective(p)'[o] = FromFileAndEnv(p)[o]
      BY <2>1, SameDeployed DEF Merge
    <3> QED BY <3>1, <3>2
  <2>2. CASE o \notin changed'[p]
    <3>1. o \notin changed[p] /\ Stored(persisted')[o] = Stored(persisted)[o]
      BY <1>2, <2>2 DEF Note
    <3>2. c[o] = Effective(p)[o]
      BY <3>1 DEF AlikeAt
    <3>3. Effective(p)'[o] = Effective(p)[o]
      BY <3>1, SameDeployed DEF Effective, Merge
    <3> QED BY <3>2, <3>3
  <2> QED BY <1>2, <2>1, <2>2
<1> QED BY <1>1, <1>2, SameDeployed DEF AlikeAt

\* Onwards, and the step after the constructor, keep the configuration.
LEMMA ConstructedMine ==
  ASSUME Types, NEW p \in Processes
  PROVE  /\ \A a : Onwards(p, a).mine = loader[p].mine /\ Onwards(p, a).at \in {"loaded", "find"}
         /\ Constructed(p).mine = loader[p].mine
         /\ Constructed(p).at \in {"read", "loaded", "find"}
<1>1. loader[p] \in Loader
  BY DEF Types, LoadTypes
<1>2. \A a : Onwards(p, a).mine = loader[p].mine /\ Onwards(p, a).at \in {"loaded", "find"}
  BY <1>1 DEF Onwards, Loader
<1> QED BY <1>1, <1>2 DEF Constructed, Loader

\* A context that loads keeps its modules alike.
LEMMA AlikeLoad ==
  ASSUME Types, Types', Alike, NEW q \in Processes, Load(q), NEW p \in Processes
  PROVE  AlikeAt(p)'
<1>1. AlikeAt(p) /\ loader[q] \in Loader
  BY DEF Alike, Types, LoadTypes
<1>2. CASE CreateDefaultConfig(q)
  <2>1. /\ persisted' = IF redisUp THEN Given(q) ELSE persisted
        /\ Note(Processes \ {q}) /\ UNCHANGED <<seen, deployed>>
        /\ loader[q].at = "save" /\ loader' = [loader EXCEPT ![q] = Constructed(q)]
    BY <1>2 DEF CreateDefaultConfig
  <2>2. Given(q) # None
    <3>1. Given(q) \in Config
      BY <1>1, DeployedType DEF Given, Loader, Types
    <3> QED BY <3>1, NoneAssumption
  <2>3. CASE p # q
    <3>1. loader'[p] = loader[p] /\ p \in Processes \ {q}
      BY <2>1, <2>3 DEF Types, LoadTypes
    <3> QED BY <1>1, <2>1, <2>2, <3>1, AlikeNoted
  <2>4. CASE p = q
    <3>1. /\ changed'[p] = changed[p]
          /\ loader'[p].mine = loader[p].mine /\ loader'[p].at # "save"
      BY <2>1, <2>4, ConstructedMine DEF Note, Types, LoadTypes
    <3>2. CASE ~redisUp
      BY <1>1, <2>1, <3>1, <3>2, AlikeQuiet
    <3>3. CASE redisUp
      <4>1. persisted' = Given(p) /\ persisted' # None
        BY <2>1, <2>2, <2>4, <3>3
      <4>2. loader[p].mine \in {Nothing, Bare(p)} /\ seen[p] \subseteq {Bare(p)}
        BY <1>1, <2>1, <2>4 DEF AlikeAt
      <4>3. Given(p) \in {Nothing, FromFileAndEnv(p), Bare(p)}
        BY <4>2 DEF Given
      <4>4. Effective(p)' = Bare(p)
        BY <2>1, <4>1, <4>3, SameDeployed, StoringOwn DEF Stored, Types
      <4> QED BY <2>1, <3>1, <4>1, <4>2, <4>4 DEF AlikeAt
    <3> QED BY <3>2, <3>3
  <2> QED BY <2>3, <2>4
<1>3. CASE GetConfig(q)
  <2>1. /\ UNCHANGED <<persisted, deployed, changed>> /\ loader[q].at = "read"
        /\ seen' = [seen EXCEPT ![q] = seen[q] \cup {Effective(q)}]
        /\ loader' = [loader EXCEPT ![q].at = "salt", ![q].mine = Effective(q)]
    BY <1>3 DEF GetConfig, redisVars
  <2>2. CASE p # q
    <3>1. loader'[p] = loader[p] /\ seen'[p] = seen[p]
      BY <2>1, <2>2 DEF Types, LoadTypes
    <3> QED BY <1>1, <2>1, <3>1, AlikeQuiet
  <2>3. CASE p = q
    <3>1. /\ seen'[p] = seen[p] \cup {Effective(p)}
          /\ loader'[p].at = "salt" /\ loader'[p].mine = Effective(p)
      BY <1>1, <2>1, <2>3 DEF Types, LoadTypes, Loader
    <3>2. Effective(p)' = Effective(p)
      BY <2>1, SameDeployed DEF Effective
    <3>3. persisted = None => Effective(p) = Bare(p) /\ seen[p] \subseteq {Bare(p)}
      BY <1>1, EffectiveBare DEF AlikeAt, Types
    <3> QED BY <1>1, <2>1, <3>1, <3>2, <3>3, SameDeployed DEF AlikeAt
  <2> QED BY <2>2, <2>3
<1>4. CASE ~CreateDefaultConfig(q) /\ ~GetConfig(q)
  <2>1. UNCHANGED <<persisted, deployed, readVars>>
    BY <1>4 DEF Load, FindUsers, CreateDefaultUser, CheckConfig, Retry, Salt, redisVars
  <2>2. CASE p # q
    <3>1. loader'[p] = loader[p]
      BY <1>4, <2>2 DEF Load, FindUsers, CreateDefaultUser, CheckConfig, Retry, Salt, Types, LoadTypes
    <3> QED BY <1>1, <2>1, <3>1, AlikeQuiet
  <2>3. CASE p = q
    <3>1. /\ loader'[q].mine = loader[q].mine
          /\ loader'[q].at = "save" => loader[q].at = "save" \/ persisted = None
      <4>1. CASE FindUsers(q) \/ CreateDefaultUser(q) \/ Retry(q)
        BY <1>1, <4>1 DEF FindUsers, CreateDefaultUser, Retry, Types, LoadTypes, Loader
      <4>2. CASE CheckConfig(q)
        BY <1>1, <4>2, ConstructedMine DEF CheckConfig, Types, LoadTypes, Loader
      <4>3. CASE Salt(q)
        BY <1>1, <4>3, ConstructedMine DEF Salt, Types, LoadTypes
      <4> QED BY <1>4, <4>1, <4>2, <4>3 DEF Load
    <3> QED BY <1>1, <2>1, <2>3, <3>1, AlikeQuiet
  <2> QED BY <2>2, <2>3
<1> QED BY <1>2, <1>3, <1>4

\* Every step keeps the modules alike.
LEMMA AlikeStep == Types /\ Types' /\ Alike /\ [Next]_vars => Alike'
<1> SUFFICES ASSUME Types, Types', Alike, [Next]_vars, NEW p \in Processes PROVE AlikeAt(p)'
  BY DEF Alike
<1>1. AlikeAt(p)
  BY DEF Alike
<1>2. ASSUME NEW q \in Processes, Load(q) PROVE AlikeAt(p)'
  BY <1>2, AlikeLoad
<1>3. ASSUME NEW q \in Processes, NEW d \in Deployments, Launch(q, d), Kept(q) PROVE AlikeAt(p)'
  <2>1. CASE p = q
    <3>1. seen'[p] = {} /\ loader'[p].mine = Nothing
      BY <1>3, <2>1 DEF Launch, Fresh, Types, LoadTypes
    <3> QED BY <3>1 DEF AlikeAt
  <2>2. CASE p # q
    <3>1. /\ loader'[p] = loader[p] /\ seen'[p] = seen[p] /\ changed'[p] = changed[p]
          /\ deployed'[p] = deployed[p] /\ persisted' = persisted
      BY <1>3, <2>2 DEF Launch, Kept, Types, LoadTypes
    <3> QED BY <1>1, <3>1, AlikeQuiet
  <2> QED BY <2>1, <2>2
<1>4. ASSUME NEW q \in Processes, Unloads(q), Kept(q) PROVE AlikeAt(p)'
  <2>1. UNCHANGED <<persisted, deployed, readVars>> /\ loader' = [loader EXCEPT ![q] = Idle]
    BY <1>4 DEF Unloads, Kept
  <2>2. loader'[p] = loader[p] \/ (loader'[p].mine = Nothing /\ loader'[p].at = "idle")
    BY <2>1 DEF Idle, Types, LoadTypes
  <2> QED BY <1>1, <2>1, <2>2, AlikeQuiet
<1>5. ASSUME NEW q \in Processes, NextContext(q) PROVE AlikeAt(p)'
  <2>1. /\ UNCHANGED <<persisted, deployed, readVars>>
        /\ loader' = [loader EXCEPT ![q] = Fresh(q, "rest")]
    BY <1>5 DEF NextContext, redisVars
  <2>2. loader'[p] = loader[p] \/ (loader'[p].mine = Nothing /\ loader'[p].at = "find")
    BY <2>1 DEF Fresh, Types, LoadTypes
  <2> QED BY <1>1, <2>1, <2>2, AlikeQuiet
<1>6. CASE Elsewhere
  <2>1. UNCHANGED <<deployed, loader, seen>>
    BY <1>6 DEF Elsewhere
  <2>2. CASE UNCHANGED <<redisVars, changed>> \/ Outage \/ Recover
    <3>1. UNCHANGED <<persisted, changed>>
      BY <2>2 DEF redisVars, Outage, Recover
    <3> QED BY <1>1, <2>1, <3>1, AlikeQuiet
  <2>3. ASSUME NEW c \in Puts, SetConfig(c) PROVE AlikeAt(p)'
    <3>1. (persisted' = None => persisted = None) /\ Note(Processes)
      BY <2>3, PutsAssumption, NoneAssumption DEF SetConfig
    <3> QED BY <1>1, <2>1, <3>1, AlikeNoted
  <2> QED BY <1>6, <2>2, <2>3 DEF Elsewhere
<1> QED BY <1>2, <1>3, <1>4, <1>5, <1>6, NextKinds DEF StepKinds

(***************************************************************************)
(* The modules of a process, in both contexts, have the same configuration *)
(* but for options that neither file nor environment gives and that others *)
(* changed in the store meanwhile: neither a failure of Redis nor what the *)
(* process stores itself sets them apart.                                  *)
(***************************************************************************)
THEOREM ModulesAlike == Spec => []ModulesAgree
BY AlikeInit, AlikeStep, AlikeAgree, TypesAlways, PTL DEF Spec

-----------------------------------------------------------------------------
(* The salt.                                                               *)

\* All salts a process has had are the one in its file.
SaltInFile ==
  \A p \in Processes : salts[p] \subseteq {saltFile[p]} /\ (salts[p] # {} => saltFile[p] # None)

\* No salt is written at first.
LEMMA SaltInit == Init => SaltInFile
BY DEF Init, ConfigInit, SaltInFile

\* Every step keeps what is known of the salt.
LEMMA SaltStep == Types /\ SaltInFile /\ [Next]_vars => SaltInFile'
<1> SUFFICES ASSUME Types, SaltInFile, [Next]_vars PROVE SaltInFile'
  OBVIOUS
<1>1. CASE UNCHANGED <<saltFile, salts>>
  BY <1>1 DEF SaltInFile
<1>2. ASSUME NEW q \in Processes, Load(q) PROVE SaltInFile'
  <2>1. CASE Salt(q)
    <3>1. loader[q].at # "idle" /\ Generated(q) # None
      BY <2>1, GeneratedType DEF Salt, Types
    <3>2. saltFile'[q] # None /\ (saltFile[q] # None => saltFile'[q] = saltFile[q])
      BY <2>1, <3>1 DEF Salt, Types, LoadTypes
    <3>3. /\ salts'[q] = salts[q] \cup {saltFile'[q]}
          /\ \A p \in Processes \ {q} : salts'[p] = salts[p] /\ saltFile'[p] = saltFile[p]
      BY <2>1 DEF Salt, Types, LoadTypes
    <3> QED BY <3>2, <3>3 DEF SaltInFile
  <2>2. CASE ~Salt(q)
    BY <1>1, <1>2, <2>2
       DEF Load, FindUsers, CreateDefaultUser, CheckConfig, CreateDefaultConfig, Retry, GetConfig
  <2> QED BY <2>1, <2>2
<1>3. ASSUME NEW q \in Processes, Kept(q) PROVE SaltInFile'
  <2>1. CASE saltFile[q] = None /\ saltFile' = [saltFile EXCEPT ![q] = <<>>]
    <3>1. salts[q] = {} /\ UNCHANGED salts
      BY <1>3, <2>1 DEF Kept, SaltInFile
    <3> QED BY <2>1, <3>1 DEF SaltInFile, Types, LoadTypes
  <2> QED BY <1>1, <1>3, <2>1 DEF Kept
<1>4. ASSUME NEW q \in Processes, NextContext(q) PROVE SaltInFile'
  BY <1>1, <1>4 DEF NextContext
<1>5. CASE Elsewhere
  BY <1>1, <1>5 DEF Elsewhere
<1> QED BY <1>2, <1>3, <1>4, <1>5, NextKinds DEF StepKinds

(***************************************************************************)
(* A process has one salt, in all its modules and all its runs.            *)
(***************************************************************************)
THEOREM SaltStable == Spec => []SaltIsStable
<1>1. SaltInFile => SaltIsStable
  BY DEF SaltInFile, SaltIsStable
<1> QED BY <1>1, SaltInit, SaltStep, TypesAlways, PTL DEF Spec

-----------------------------------------------------------------------------
(* The default users.                                                      *)

Owner(p) == <<p, boots[p], loader[p].ctx>>

\* The default user of the context that p loads is the one its object of the
\* module knows, and contexts yet to come have none.
OwnUser(p) ==
  loader[p].at # "idle" =>
    /\ loader[p].ref # None => loader[p].ref.owner = Owner(p)
    /\ \A u \in userKeys : u.owner = Owner(p) => u = loader[p].ref
    /\ loader[p].ctx = "server" => \A u \in userKeys : u.owner # <<p, boots[p], "rest">>

UsersByContext ==
  /\ userKeys \subseteq UserRef
  /\ OneDefaultUserPerContext
  /\ \A u \in userKeys : \A p \in Processes : u.owner[1] = p => u.owner[2] <= boots[p]
  /\ \A p \in Processes : OwnUser(p)

\* There are no users at first.
LEMMA UsersInit == Init => UsersByContext
BY DEF Init, ConfigInit, UsersByContext, OneDefaultUserPerContext, OwnUser, Idle

\* A loading step that creates no user keeps the context and its reference.
LEMMA LoadKeepsReference ==
  ASSUME Types, NEW q \in Processes, Load(q), ~CreateDefaultUser(q)
  PROVE  /\ UNCHANGED <<userKeys, boots>>
         /\ loader[q].at # "idle"
         /\ loader' = [loader EXCEPT ![q] = loader'[q]]
         /\ loader'[q].ctx = loader[q].ctx
         /\ loader'[q].ref = loader[q].ref
<1>1. loader \in [Processes -> Loader] /\ loader[q] \in Loader
  BY DEF Types, LoadTypes
<1>2. \A a : Onwards(q, a).ctx = loader[q].ctx /\ Onwards(q, a).ref = loader[q].ref
  BY <1>1 DEF Onwards, Loader
<1>3. Constructed(q).ctx = loader[q].ctx /\ Constructed(q).ref = loader[q].ref
  BY <1>1, <1>2 DEF Constructed, Loader
<1>4. CASE FindUsers(q) \/ Retry(q) \/ GetConfig(q)
  BY <1>1, <1>4 DEF FindUsers, Retry, GetConfig, redisVars, Loader
<1>5. CASE CheckConfig(q) \/ CreateDefaultConfig(q)
  BY <1>1, <1>3, <1>5 DEF CheckConfig, CreateDefaultConfig, redisVars, Loader
<1>6. CASE Salt(q)
  BY <1>1, <1>2, <1>6 DEF Salt, redisVars
<1> QED BY <1>4, <1>5, <1>6 DEF Load

\* Every step keeps what is known of the users.
LEMMA UsersStep == Types /\ UsersByContext /\ [Next]_vars => UsersByContext'
<1> SUFFICES ASSUME Types, UsersByContext, [Next]_vars PROVE UsersByContext'
  OBVIOUS
<1> USE DEF OneDefaultUserPerContext
<1>1. CASE UNCHANGED <<userKeys, boots, loader>>
  BY <1>1 DEF UsersByContext, OwnUser, Owner
<1>2. ASSUME NEW q \in Processes, Load(q) PROVE UsersByContext'
  <2>1. CASE CreateDefaultUser(q)
    <3> DEFINE r == Reference(q)
    <3>1. loader[q].at # "idle" /\ loader[q] \in Loader /\ boots[q] \in Nat
      BY <2>1 DEF CreateDefaultUser, Types, LoadTypes
    <3>2. r \in UserRef /\ r # None
      BY <3>1, ReferenceType, NoneAssumption DEF Types
    <3>3. r.owner = Owner(q)
      BY <3>1 DEF Reference, NewReference, UsersByContext, OwnUser, Owner
    <3>4. \A u \in userKeys : u.owner = Owner(q) => u = r
      <4>1. CASE loader[q].ref = None
        BY <3>1, <4>1, NoneAssumption DEF UsersByContext, OwnUser
      <4>2. CASE loader[q].ref # None
        BY <3>1, <4>2 DEF Reference, UsersByContext, OwnUser
      <4> QED BY <4>1, <4>2
    <3>5. /\ userKeys' = userKeys \/ userKeys' = userKeys \cup {r}
          /\ UNCHANGED boots
          /\ loader' = [loader EXCEPT ![q] = [loader[q] EXCEPT !.at = "check", !.ref = r]]
      BY <2>1 DEF CreateDefaultUser
    <3> HIDE DEF r
    <3>6. /\ loader'[q].ref = r /\ Owner(q)' = Owner(q) /\ loader'[q].ctx = loader[q].ctx
          /\ \A p \in Processes \ {q} : loader'[p] = loader[p] /\ Owner(p)' = Owner(p)
      BY <3>1, <3>5 DEF Types, LoadTypes, Loader, Owner
    <3>7. userKeys' \subseteq UserRef /\ OneDefaultUserPerContext'
      BY <3>2, <3>3, <3>4, <3>5 DEF UsersByContext
    <3>8. \A u \in userKeys' : \A p \in Processes : u.owner[1] = p => u.owner[2] <= boots'[p]
      BY <3>1, <3>3, <3>5 DEF UsersByContext, Owner
    <3>9. OwnUser(q)'
      <4>1. \A u \in userKeys' : u.owner = Owner(q) => u = r
        BY <3>4, <3>5
      <4>2. loader[q].ctx = "server" => \A u \in userKeys' : u.owner # <<q, boots[q], "rest">>
        BY <3>1, <3>3, <3>5 DEF UsersByContext, OwnUser, Owner
      <4> QED BY <3>3, <3>5, <3>6, <4>1, <4>2 DEF OwnUser
    <3>10. ASSUME NEW p \in Processes \ {q} PROVE OwnUser(p)'
      <4>1. r.owner # Owner(p) /\ r.owner # <<p, boots[p], "rest">>
        BY <3>3 DEF Owner
      <4> QED BY <3>5, <3>6, <4>1 DEF OwnUser, UsersByContext
    <3> QED BY <3>7, <3>8, <3>9, <3>10 DEF UsersByContext
  <2>2. CASE ~CreateDefaultUser(q)
    <3>1. /\ UNCHANGED <<userKeys, boots>> /\ loader[q].at # "idle"
          /\ loader'[q].ctx = loader[q].ctx /\ loader'[q].ref = loader[q].ref
          /\ \A p \in Processes \ {q} : loader'[p] = loader[p]
      BY <1>2, <2>2, LoadKeepsReference DEF Types, LoadTypes
    <3>2. \A p \in Processes : OwnUser(p)'
      BY <3>1 DEF UsersByContext, OwnUser, Owner
    <3> QED BY <3>1, <3>2 DEF UsersByContext
  <2> QED BY <2>1, <2>2
<1>3. ASSUME NEW q \in Processes, NEW d \in Deployments, Launch(q, d), Kept(q)
      PROVE  UsersByContext'
  <2>1. /\ UNCHANGED userKeys /\ boots[q] \in Nat /\ boots'[q] = boots[q] + 1
        /\ loader'[q].ref = None
        /\ \A p \in Processes \ {q} : loader'[p] = loader[p] /\ boots'[p] = boots[p]
    BY <1>3 DEF Launch, Kept, Fresh, Types, LoadTypes
  <2>2. ASSUME NEW u \in userKeys, NEW c PROVE u.owner # <<q, boots'[q], c>>
    <3>1. u.owner[1] = q => u.owner[2] <= boots[q]
      BY DEF UsersByContext
    <3> QED BY <2>1, <3>1
  <2>3. \A u \in userKeys' : \A p \in Processes : u.owner[1] = p => u.owner[2] <= boots'[p]
    <3> SUFFICES ASSUME NEW u \in userKeys, NEW p \in Processes, u.owner[1] = p
                 PROVE  u.owner[2] <= boots'[p]
      BY <2>1
    <3>1. u.owner[2] <= boots[p] /\ u.owner[2] \in Nat /\ boots[p] \in Nat
      BY DEF UsersByContext, UserRef, Types, LoadTypes
    <3>2. boots'[p] = boots[p] \/ boots'[p] = boots[p] + 1
      BY <2>1
    <3> QED BY <3>1, <3>2
  <2>4. OwnUser(q)'
    BY <2>1, <2>2 DEF OwnUser, Owner
  <2>5. \A p \in Processes \ {q} : OwnUser(p)'
    BY <2>1 DEF UsersByContext, OwnUser, Owner
  <2> QED BY <2>1, <2>3, <2>4, <2>5 DEF UsersByContext
<1>4. ASSUME NEW q \in Processes, Unloads(q), Kept(q) PROVE UsersByContext'
  <2>1. /\ UNCHANGED <<userKeys, boots>> /\ loader'[q].at = "idle"
        /\ \A p \in Processes \ {q} : loader'[p] = loader[p]
    BY <1>4 DEF Unloads, Kept, Idle, Types, LoadTypes
  <2>2. \A p \in Processes : OwnUser(p)'
    BY <2>1 DEF UsersByContext, OwnUser, Owner
  <2> QED BY <2>1, <2>2 DEF UsersByContext
<1>5. ASSUME NEW q \in Processes, NextContext(q) PROVE UsersByContext'
  <2>1. /\ UNCHANGED <<userKeys, boots>>
        /\ loader'[q].ref = None /\ loader'[q].ctx = "rest"
        /\ \A p \in Processes \ {q} : loader'[p] = loader[p]
    BY <1>5 DEF NextContext, redisVars, Fresh, Types, LoadTypes
  <2>2. \A u \in userKeys : u.owner # <<q, boots[q], "rest">>
    BY <1>5 DEF NextContext, UsersByContext, OwnUser
  <2>3. OwnUser(q)'
    BY <2>1, <2>2 DEF OwnUser, Owner
  <2>4. \A p \in Processes \ {q} : OwnUser(p)'
    BY <2>1 DEF UsersByContext, OwnUser, Owner
  <2> QED BY <2>1, <2>3, <2>4 DEF UsersByContext
<1>6. CASE Elsewhere
  BY <1>1, <1>6 DEF Elsewhere, redisVars, Outage, Recover, SetConfig
<1> QED BY <1>2, <1>3, <1>4, <1>5, <1>6, NextKinds DEF StepKinds

(***************************************************************************)
(* A context creates one default user at most, however many of its modules *)
(* build a data source and however often Redis fails them.                 *)
(***************************************************************************)
THEOREM DefaultUserUnique == Spec => []OneDefaultUserPerContext
<1>1. UsersByContext => OneDefaultUserPerContext
  BY DEF UsersByContext
<1> QED BY <1>1, UsersInit, UsersStep, TypesAlways, PTL DEF Spec

-----------------------------------------------------------------------------
(* The address.                                                            *)

\* What nobody's default is: configured by somebody, or nothing.
Foreign(value) == value \notin Configured \cup {None}

\* While Redis does not fail, what is stored holds no default, and a context
\* that has defaults in its configuration got it after something was stored.
AddressKnown ==
  ~flaky =>
    /\ redisUp
    /\ persisted # None => ~Foreign(persisted[BindAddr])
    /\ \A p \in Processes :
         /\ loader[p].at = "read" => persisted # None
         /\ loader[p].at = "save" => ~Foreign(loader[p].mine[BindAddr])
         /\ Foreign(loader[p].mine[BindAddr]) => persisted # None

\* The files and environments are somebody's configuration, and so is Nothing.
LEMMA DeployedAddress ==
  ASSUME LoadTypes, NEW p \in Processes
  PROVE  ~Foreign(FromFileAndEnv(p)[BindAddr]) /\ ~Foreign(Nothing[BindAddr])
<1>1. deployed[p] \in Deployments /\ BindAddr \in Options
  BY OptionsAssumption DEF LoadTypes
<1>2. FromFileAndEnv(p)[BindAddr] \in {deployed[p].file[BindAddr], deployed[p].env[BindAddr], None}
  BY <1>1 DEF FromFileAndEnv, Merge, FromEnv
<1>3. {deployed[p].file[BindAddr], deployed[p].env[BindAddr]} \subseteq Configured
  BY <1>1 DEF Configured
<1> QED BY <1>1, <1>2, <1>3 DEF Foreign, Nothing

\* What a process works with is configured or its own default.
LEMMA EffectiveAddress ==
  ASSUME Types, AddressKnown, ~flaky, NEW p \in Processes
  PROVE  Effective(p)[BindAddr] \in Configured \cup {Default[p][BindAddr]}
<1>1. BindAddr \in Options
  BY OptionsAssumption
<1>2. CASE FromFileAndEnv(p)[BindAddr] = None
  BY <1>1, <1>2, EffectiveValue DEF AddressKnown, Foreign, Types
<1>3. CASE FromFileAndEnv(p)[BindAddr] # None
  BY <1>1, <1>3, EffectiveType, DeployedAddress DEF Foreign, Types
<1> QED BY <1>2, <1>3

\* No address is stored or adopted at first.
LEMMA AddressInit == Init => AddressKnown /\ AddressIsOwn
<1> SUFFICES ASSUME Init PROVE AddressKnown /\ AddressIsOwn
  OBVIOUS
<1>1. BindAddr \in Options
  BY OptionsAssumption
<1> QED BY <1>1 DEF Init, ConfigInit, AddressKnown, AddressIsOwn, Idle, Nothing, Foreign

\* A process whose loader becomes one that is neither about to read nor to
\* store, with a configuration that is not foreign or unchanged.
LEMMA AddressLoader ==
  ASSUME Types, AddressKnown, NEW q \in Processes, NEW l,
         loader' = [loader EXCEPT ![q] = l],
         UNCHANGED <<redisUp, flaky>>,
         persisted # None => persisted' # None,
         ~flaky /\ persisted' # None => ~Foreign(persisted'[BindAddr]),
         ~flaky /\ l.at = "read" => persisted' # None,
         ~flaky /\ l.at = "save" => ~Foreign(l.mine[BindAddr]),
         ~flaky /\ Foreign(l.mine[BindAddr]) => persisted' # None
  PROVE  AddressKnown'
<1>1. loader'[q] = l /\ \A p \in Processes \ {q} : loader'[p] = loader[p]
  BY DEF Types, LoadTypes
<1> QED BY <1>1 DEF AddressKnown, Foreign

\* A context that loads adopts an address that is known.
LEMMA AddressLoad ==
  ASSUME Types, AddressKnown, NEW q \in Processes, Load(q)
  PROVE  AddressKnown'
<1>1. loader[q] \in Loader /\ (~flaky /\ Foreign(loader[q].mine[BindAddr]) => persisted # None)
  BY DEF Types, LoadTypes, AddressKnown
<1>2. ~flaky /\ persisted # None => ~Foreign(persisted[BindAddr])
  BY DEF AddressKnown
<1>3. CASE FindUsers(q)
  <2> DEFINE l == [loader[q] EXCEPT !.at = IF redisUp /\ users # {} THEN "check" ELSE "create"]
  <2>1. l.mine = loader[q].mine /\ l.at \notin {"read", "save"}
    BY <1>1 DEF Loader
  <2>2. loader' = [loader EXCEPT ![q] = l] /\ UNCHANGED <<redisUp, flaky, persisted>>
    BY <1>3 DEF FindUsers, redisVars
  <2> HIDE DEF l
  <2> QED BY <1>1, <1>2, <2>1, <2>2, AddressLoader
<1>4. CASE CreateDefaultUser(q)
  <2> DEFINE l == [loader[q] EXCEPT !.at = "check", !.ref = Reference(q)]
  <2>1. l.mine = loader[q].mine /\ l.at \notin {"read", "save"}
    BY <1>1 DEF Loader
  <2>2. loader' = [loader EXCEPT ![q] = l] /\ UNCHANGED <<redisUp, persisted>>
    BY <1>4 DEF CreateDefaultUser
  <2>3. UNCHANGED flaky \/ flaky'
    BY <1>4 DEF CreateDefaultUser
  <2> HIDE DEF l
  <2>4. CASE UNCHANGED flaky
    BY <1>1, <1>2, <2>1, <2>2, <2>4, AddressLoader
  <2> QED BY <2>3, <2>4 DEF AddressKnown
<1>5. CASE CheckConfig(q)
  <2>1. UNCHANGED <<redisUp, flaky, persisted>>
    BY <1>5 DEF CheckConfig, redisVars
  <2>2. CASE redisUp /\ persisted = None
    <3> DEFINE l == [loader[q] EXCEPT !.at = "save"]
    <3>1. l.mine = loader[q].mine /\ l.at = "save"
      BY <1>1 DEF Loader
    <3>2. loader' = [loader EXCEPT ![q] = l]
      BY <1>5, <2>2 DEF CheckConfig
    <3> HIDE DEF l
    <3> QED BY <1>1, <1>2, <2>1, <2>2, <3>1, <3>2, AddressLoader
  <2>3. CASE ~(redisUp /\ persisted = None)
    <3>1. loader' = [loader EXCEPT ![q] = Constructed(q)]
      BY <1>5, <2>3 DEF CheckConfig
    <3>2. ~flaky => persisted # None
      BY <2>3 DEF AddressKnown
    <3> QED BY <1>1, <1>2, <2>1, <3>1, <3>2, ConstructedMine, AddressLoader
  <2> QED BY <2>2, <2>3
<1>6. CASE CreateDefaultConfig(q)
  <2>1. /\ loader' = [loader EXCEPT ![q] = Constructed(q)] /\ UNCHANGED <<redisUp, flaky>>
        /\ persisted' = IF redisUp THEN Given(q) ELSE persisted
    BY <1>6 DEF CreateDefaultConfig
  <2>2. Given(q) \in Config
    BY <1>1, DeployedType DEF Given, Loader, Types
  <2>3. Given(q) # None
    BY <2>2, NoneAssumption
  <2>4. ~flaky => redisUp /\ ~Foreign(Given(q)[BindAddr])
    BY <1>6, DeployedAddress DEF CreateDefaultConfig, Given, AddressKnown, Types
  <2> QED BY <1>1, <1>2, <2>1, <2>3, <2>4, ConstructedMine, AddressLoader
<1>7. CASE GetConfig(q)
  <2> DEFINE l == [loader[q] EXCEPT !.at = "salt", !.mine = Effective(q)]
  <2>1. l.at \notin {"read", "save"}
    BY <1>1 DEF Loader
  <2>2. loader' = [loader EXCEPT ![q] = l] /\ UNCHANGED <<redisUp, flaky, persisted>>
    BY <1>7 DEF GetConfig, redisVars
  <2>3. ~flaky => persisted # None
    BY <1>7 DEF GetConfig, AddressKnown
  <2> HIDE DEF l
  <2> QED BY <1>2, <2>1, <2>2, <2>3, AddressLoader
<1>8. CASE Retry(q)
  <2>1. flaky /\ UNCHANGED flaky
    BY <1>8 DEF Retry, redisVars, AddressKnown, Types, StoreTypes
  <2> QED BY <2>1 DEF AddressKnown
<1>9. CASE Salt(q)
  <2> DEFINE l == Onwards(q, Tail(loader[q].agenda))
  <2>1. loader' = [loader EXCEPT ![q] = l] /\ UNCHANGED <<redisUp, flaky, persisted>>
    BY <1>9 DEF Salt, redisVars
  <2>2. l.mine = loader[q].mine /\ l.at \in {"loaded", "find"}
    BY ConstructedMine
  <2> HIDE DEF l
  <2> QED BY <1>1, <1>2, <2>1, <2>2, AddressLoader
<1> QED BY <1>3, <1>4, <1>5, <1>6, <1>7, <1>8, <1>9 DEF Load

\* Every step keeps what is known of the addresses.
LEMMA AddressStep == Types /\ AddressKnown /\ [Next]_vars => AddressKnown'
<1> SUFFICES ASSUME Types, AddressKnown, [Next]_vars PROVE AddressKnown'
  OBVIOUS
<1>1. ~flaky /\ persisted # None => ~Foreign(persisted[BindAddr])
  BY DEF AddressKnown
<1>2. ASSUME NEW q \in Processes, Load(q) PROVE AddressKnown'
  BY <1>2, AddressLoad
<1>3. ASSUME NEW q \in Processes, NEW d \in Deployments, Launch(q, d), Kept(q)
      PROVE  AddressKnown'
  <2>1. loader' = [loader EXCEPT ![q] = Fresh(q, "server")] /\ UNCHANGED <<redisUp, flaky, persisted>>
    BY <1>3 DEF Launch, Kept
  <2>2. Fresh(q, "server").at = "find" /\ ~Foreign(Fresh(q, "server").mine[BindAddr])
    BY DeployedAddress DEF Fresh, Types
  <2> QED BY <1>1, <2>1, <2>2, AddressLoader
<1>4. ASSUME NEW q \in Processes, Unloads(q), Kept(q) PROVE AddressKnown'
  <2>1. loader' = [loader EXCEPT ![q] = Idle] /\ UNCHANGED <<redisUp, flaky, persisted>>
    BY <1>4 DEF Unloads, Kept
  <2>2. Idle.at = "idle" /\ ~Foreign(Idle.mine[BindAddr])
    BY <1>4, DeployedAddress DEF Idle, Types
  <2> QED BY <1>1, <2>1, <2>2, AddressLoader
<1>5. ASSUME NEW q \in Processes, NextContext(q) PROVE AddressKnown'
  <2>1. loader' = [loader EXCEPT ![q] = Fresh(q, "rest")] /\ UNCHANGED <<redisUp, flaky, persisted>>
    BY <1>5 DEF NextContext, redisVars
  <2>2. Fresh(q, "rest").at = "find" /\ ~Foreign(Fresh(q, "rest").mine[BindAddr])
    BY <1>5, DeployedAddress DEF Fresh, Types
  <2> QED BY <1>1, <2>1, <2>2, AddressLoader
<1>6. CASE Elsewhere
  <2>1. CASE UNCHANGED redisVars
    BY <1>6, <2>1 DEF Elsewhere, redisVars, AddressKnown, Foreign
  <2>2. CASE Outage
    BY <2>2 DEF Outage, AddressKnown
  <2>3. CASE Recover
    BY <2>3 DEF Recover, AddressKnown, Foreign
  <2>4. ASSUME NEW c \in Puts, SetConfig(c) PROVE AddressKnown'
    <3>1. c # None
      BY PutsAssumption, NoneAssumption
    <3>2. c[BindAddr] \in Configured
      BY DEF Configured
    <3> QED BY <2>4, <3>1, <3>2 DEF SetConfig, AddressKnown, Foreign
  <2> QED BY <1>6, <2>1, <2>2, <2>3, <2>4 DEF Elsewhere
<1> QED BY <1>2, <1>3, <1>4, <1>5, <1>6, NextKinds DEF StepKinds

\* What a module sees is what its process works with then.
LEMMA AddressSeen == Types /\ AddressKnown /\ AddressIsOwn /\ [Next]_vars => AddressIsOwn'
<1> SUFFICES ASSUME Types, AddressKnown, AddressIsOwn, [Next]_vars, ~flaky',
                    NEW p \in Processes, NEW c \in seen'[p]
             PROVE  c[BindAddr] \in Configured \cup {Default[p][BindAddr]}
  BY DEF AddressIsOwn
<1>1. ~flaky
  <2>1. ASSUME NEW q \in Processes, Load(q), ~CreateDefaultUser(q) PROVE ~flaky
    BY <2>1 DEF Load, FindUsers, CheckConfig, CreateDefaultConfig, GetConfig, Retry, Salt, redisVars
  <2>2. ASSUME NEW q \in Processes, CreateDefaultUser(q) PROVE ~flaky
    BY <2>2 DEF CreateDefaultUser
  <2> QED BY <2>1, <2>2, NextKinds
          DEF StepKinds, Kept, NextContext, Elsewhere, redisVars, Outage, Recover, SetConfig
<1>2. CASE c \in seen[p]
  BY <1>1, <1>2 DEF AddressIsOwn
<1>3. ASSUME NEW q \in Processes, Load(q)
      PROVE  c[BindAddr] \in Configured \cup {Default[p][BindAddr]}
  <2>1. CASE GetConfig(q)
    <3>1. c \in seen[p] \/ (c = Effective(q) /\ p = q)
      BY <2>1 DEF GetConfig, Types, LoadTypes
    <3> QED BY <1>1, <1>2, <3>1, EffectiveAddress
  <2>2. CASE ~GetConfig(q)
    BY <1>2, <1>3, <2>2
       DEF Load, FindUsers, CreateDefaultUser, CheckConfig, CreateDefaultConfig, Retry, Salt
  <2> QED BY <2>1, <2>2
<1>4. ASSUME NEW q \in Processes, NEW d \in Deployments, Launch(q, d)
      PROVE  c[BindAddr] \in Configured \cup {Default[p][BindAddr]}
  BY <1>2, <1>4 DEF Launch, Types, LoadTypes
<1>5. ASSUME NEW q \in Processes, Unloads(q) \/ NextContext(q)
      PROVE  c[BindAddr] \in Configured \cup {Default[p][BindAddr]}
  BY <1>2, <1>5 DEF Unloads, NextContext
<1>6. CASE Elsewhere
  BY <1>2, <1>6 DEF Elsewhere
<1> QED BY <1>3, <1>4, <1>5, <1>6, NextKinds DEF StepKinds

(***************************************************************************)
(* While Redis has not failed, a process takes no address for its own but  *)
(* that of its host or one that somebody configured.                       *)
(***************************************************************************)
THEOREM AddressOwned == Spec => []AddressIsOwn
BY AddressInit, AddressStep, AddressSeen, TypesAlways, PTL DEF Spec

=============================================================================
