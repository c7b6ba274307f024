------------------------------ MODULE Lifecycle ------------------------------
(***************************************************************************)
(* The life of the processes: the script that runs the launcher, the       *)
(* launcher that loads the two contexts (Configuration) and starts the     *)
(* controller, and the commands that the REST API passes to the controller *)
(* and the controller to the server.                                       *)
(*                                                                         *)
(* A context runs one thread at a time, and refuses a second: a command    *)
(* that arrives while a SIP handler runs fails.                            *)
(***************************************************************************)
EXTENDS Configuration

CONSTANTS
  Bindable,  \* process -> the values of spec.bindAddr it can listen at
  Asked,     \* bound: process -> the commands its clients ask for
  MaxBoots   \* bound: process -> how often it starts

RESTART_CODE == 123
Commands == {"stop-server", "restart-server", "stop-server-now", "restart-server-now", "evict-all"}
Graceful == {"stop-server", "restart-server"}
Immediate == {"stop-server-now", "restart-server-now"}

ASSUME BindableAssumption == Bindable \in [Processes -> SUBSET Values]
ASSUME AskedAssumption == Asked \in [Processes -> SUBSET Commands]
ASSUME MaxBootsAssumption == MaxBoots \in [Processes -> Nat]

VARIABLES
  phase,   \* process -> where the launcher is
  sip,     \* process -> whether it listens for SIP
  timers,  \* process -> the graceful commands that have a timer running
  told,    \* process -> history: the graceful commands answered with 200
  cause    \* process -> history: why its last run ended

processVars == <<phase, sip, timers, told, cause>>
vars == <<configVars, processVars>>

Code(cmd) == IF cmd \in {"restart-server", "restart-server-now"} THEN RESTART_CODE ELSE 0

(***************************************************************************)
(* The script and the exits.                                               *)
(***************************************************************************)
Launch(p, d) ==
  /\ phase' = [phase EXCEPT ![p] = "loading"]
  /\ boots' = [boots EXCEPT ![p] = @ + 1]
  /\ deployed' = [deployed EXCEPT ![p] = d]
  /\ loader' = [loader EXCEPT ![p] = Fresh(p, "server")]
  /\ seen' = [seen EXCEPT ![p] = {}]
  /\ changed' = [changed EXCEPT ![p] = {}]

\* The process ends.  The script runs it again after one code only.
Exit(p, code, why) ==
  /\ cause' = [cause EXCEPT ![p] = why]
  /\ sip' = [sip EXCEPT ![p] = FALSE]
  /\ timers' = [timers EXCEPT ![p] = {}]
  /\ told' = [told EXCEPT ![p] = {}]
  /\ \/ code = RESTART_CODE /\ boots[p] < MaxBoots[p] /\ Launch(p, deployed[p])
     \/ /\ code # RESTART_CODE
        /\ phase' = [phase EXCEPT ![p] = "down"]
        /\ loader' = [loader EXCEPT ![p] = Idle]
        /\ UNCHANGED <<boots, deployed, readVars>>

\* Somebody starts the script, perhaps after a change of file or environment.
Start(p) ==
  /\ phase[p] = "down"
  /\ boots[p] < MaxBoots[p]
  /\ \E d \in Deployments : Launch(p, d)
  /\ UNCHANGED <<redisVars, saltFile, salts, sip, timers, told, cause>>

\* The process is killed.  When it was writing the salt, an empty file stays.
Crash(p) ==
  /\ phase[p] # "down"
  /\ mishaps < MaxMishaps
  /\ mishaps' = mishaps + 1
  /\ Exit(p, 137, "crash")
  /\ \/ UNCHANGED saltFile
     \/ /\ loader[p].at = "salt" /\ saltFile[p] = None
        /\ saltFile' = [saltFile EXCEPT ![p] = <<>>]
  /\ UNCHANGED <<redisUp, persisted, userKeys, users, flaky, salts>>

(***************************************************************************)
(* The launcher.                                                           *)
(***************************************************************************)
LoadStep(p) ==
  /\ phase[p] = "loading"
  /\ Load(p)
  /\ UNCHANGED processVars

\* config_from_redis has tried often enough.
ExitOnRedis(p) ==
  /\ phase[p] = "loading"
  /\ GivesUp(p)
  /\ Exit(p, 1, "redis")
  /\ UNCHANGED <<redisVars, saltFile, salts>>

\* server.setup: a listening point that cannot be bound is skipped, and
\* without any the exception is logged and the process goes on.
SetUp(p) ==
  /\ phase[p] = "loading"
  /\ loader[p].ctx = "server"
  /\ loader[p].at = "loaded"
  /\ \E bound \in BOOLEAN :
       /\ bound => loader[p].mine[BindAddr] \in Bindable[p]
       /\ sip' = [sip EXCEPT ![p] = bound]
  /\ loader' = [loader EXCEPT ![p] = Fresh(p, "rest")]
  /\ UNCHANGED <<redisVars, saltFile, boots, deployed, readVars, salts, phase, timers, told, cause>>

\* The REST service starts, or its port is taken.
StartRest(p) ==
  /\ phase[p] = "loading"
  /\ loader[p].ctx = "rest"
  /\ loader[p].at = "loaded"
  /\ \/ /\ phase' = [phase EXCEPT ![p] = "controller"]
        /\ loader' = [loader EXCEPT ![p] = Idle]
        /\ UNCHANGED <<boots, deployed, readVars, sip, timers, told, cause>>
     \/ Exit(p, 1, "port")
  /\ UNCHANGED <<redisVars, saltFile, salts>>

\* GRPCServer.start: the fixed port is free, or taken.
StartController(p) ==
  /\ phase[p] = "controller"
  /\ \/ /\ phase' = [phase EXCEPT ![p] = "serving"]
        /\ UNCHANGED <<boots, deployed, loader, readVars, sip, timers, told, cause>>
     \/ Exit(p, 1, "port")
  /\ UNCHANGED <<redisVars, saltFile, salts>>

(***************************************************************************)
(* Commands.                                                               *)
(***************************************************************************)
RestIsUp(p) == phase[p] \in {"controller", "serving"}

\* The client logs a call that failed, and sendCmd answers 200 all the same.
Acknowledge(p, cmd) ==
  told' = [told EXCEPT ![p] = IF cmd \in Graceful THEN @ \cup {cmd} ELSE @]

\* A failed call: no controller yet, a SIP handler that has the context, or
\* evict-all, which asks the server for a member it does not have.
CallFails(p, cmd) ==
  /\ RestIsUp(p)
  /\ \/ phase[p] = "controller"
     \/ sip[p] /\ cmd \in Immediate
     \/ cmd = "evict-all"
  /\ Acknowledge(p, cmd)
  /\ UNCHANGED <<configVars, phase, sip, timers, cause>>

\* A graceful command starts a timer and is acknowledged at once.
Schedule(p, cmd) ==
  /\ phase[p] = "serving"
  /\ cmd \in Graceful
  /\ timers' = [timers EXCEPT ![p] = @ \cup {cmd}]
  /\ Acknowledge(p, cmd)
  /\ UNCHANGED <<configVars, phase, sip, cause>>

\* server.stop ends the process before anything is answered.
StopNow(p, cmd) ==
  /\ phase[p] = "serving"
  /\ cmd \in Immediate
  /\ Exit(p, Code(cmd), cmd)
  /\ UNCHANGED <<redisVars, saltFile, salts>>

\* stopIfReady asks getStorage for the size of a field that is never set;
\* the exception ends the timer.
Fire(p, cmd) ==
  /\ phase[p] = "serving"
  /\ cmd \in timers[p]
  /\ timers' = [timers EXCEPT ![p] = @ \ {cmd}]
  /\ UNCHANGED <<configVars, phase, sip, told, cause>>

PutConfig(p, c) ==
  /\ RestIsUp(p)
  /\ SetConfig(c)
  /\ UNCHANGED processVars

(***************************************************************************)
(* The specification.                                                      *)
(***************************************************************************)
Init ==
  /\ ConfigInit
  /\ phase = [p \in Processes |-> "down"]
  /\ sip = [p \in Processes |-> FALSE]
  /\ timers = [p \in Processes |-> {}]
  /\ told = [p \in Processes |-> {}]
  /\ cause = [p \in Processes |-> "none"]

\* What the launcher does without being asked.
Launcher(p) ==
  \/ LoadStep(p)
  \/ ExitOnRedis(p)
  \/ SetUp(p)
  \/ StartRest(p)
  \/ StartController(p)

Command(p, cmd) ==
  \/ CallFails(p, cmd)
  \/ Schedule(p, cmd)
  \/ StopNow(p, cmd)
  \/ Fire(p, cmd)

Environment ==
  /\ Outage \/ Recover
  /\ UNCHANGED processVars

Next ==
  \/ \E p \in Processes :
       \/ Start(p)
       \/ Crash(p)
       \/ Launcher(p)
       \/ \E cmd \in Asked[p] : Command(p, cmd)
       \/ \E c \in Puts : PutConfig(p, c)
  \/ Environment

Spec == Init /\ [][Next]_vars

\* A running process goes on, its timers fire, and an outage ends.
FairSpec ==
  /\ Spec
  /\ \A p \in Processes : WF_vars(Launcher(p))
  /\ \A p \in Processes, cmd \in Graceful : WF_vars(Fire(p, cmd))
  /\ WF_vars(Recover /\ UNCHANGED processVars)

(***************************************************************************)
(* Properties.                                                             *)
(***************************************************************************)
\* The type invariant.
TypeOK ==
  /\ redisUp \in BOOLEAN /\ flaky \in BOOLEAN
  /\ persisted \in Config \cup {None}
  /\ users \subseteq userKeys
  /\ boots \in [Processes -> Nat]
  /\ deployed \in [Processes -> Deployments]
  /\ \A p \in Processes :
       /\ loader[p].ctx \in {"none", "server", "rest"}
       /\ loader[p].at \in {"idle", "find", "create", "check", "save", "read", "salt", "loaded"}
       /\ loader[p].mine \in Config
       /\ (phase[p] = "loading") = (loader[p].at # "idle")
       /\ seen[p] \subseteq Config
  /\ changed \in [Processes -> SUBSET Options]
  /\ phase \in [Processes -> {"down", "loading", "controller", "serving"}]
  /\ sip \in [Processes -> BOOLEAN]
  /\ timers \in [Processes -> SUBSET Graceful]
  /\ told \in [Processes -> SUBSET Graceful]
  /\ mishaps \in 0 .. MaxMishaps

\* The modules of a process read the configuration one after the other, each
\* for itself (config_util), while Redis fails, replicas store their first
\* configuration and administrators store others.  Two of them, in whichever
\* context, still have the same value of an option, unless neither file nor
\* environment gives it one and somebody else has changed what is stored of it
\* since the first of them read it.  What the process stores itself, the merged
\* configuration of DSSelector included, makes no difference.
ModulesAgree ==
  \A p \in Processes : \A c, d \in seen[p] : \A o \in Options :
    c[o] # d[o] => o \in changed[p] /\ FromFileAndEnv(p)[o] = None

\* A context creates at most one default user, however often Redis fails it
\* and however many of its modules build a data source.
OneDefaultUserPerContext ==
  \A u, v \in userKeys : u.owner = v.owner => u = v

\* While Redis has not failed, no process takes the address of the host of
\* another for its own: it has the default of its own host or what somebody
\* configured, since the configuration that the first one stores holds no
\* defaults.
Configured ==
  (UNION {{d.file[BindAddr], d.env[BindAddr]} : d \in Deployments})
    \cup {c[BindAddr] : c \in Puts}

AddressIsOwn ==
  ~flaky => \A p \in Processes : \A c \in seen[p] :
              c[BindAddr] \in Configured \cup {Default[p][BindAddr]}

\* The modules of a process, and those of its later runs, all have one salt:
\* a token signed before a restart is good after it.
SaltIsStable ==
  \A p \in Processes : \A s, t \in salts[p] : s = t

\* A process that may retry for ever gets its launcher to the end, unless a
\* port is taken or it is killed: an outage of Redis delays it and does not end
\* it.  (It serves REST and its controller then; SIP only if SetUp could bind.)
StartsOnceRedisReturns ==
  \A p \in {q \in Processes : MaxRetry[q] < 0} :
    phase[p] = "loading" ~> (phase[p] = "serving" \/ cause[p] \in {"port", "crash"})

\* "Waiting for N transactions before shutdown": a server told to stop, or to
\* restart, when no transaction is left does so (stopIfReady).
GracefulCommandsHappen ==
  \A p \in Processes : \A cmd \in Graceful :
    cmd \in timers[p] /\ cmd \in told[p] ~> cmd \notin told[p]
=============================================================================
