--------------------------- MODULE FilesDataSource ---------------------------
(***************************************************************************)
(* The data source that serves the resource files of a directory.  Its     *)
(* constructor reads every file to validate it, and then once more, through *)
(* find and its cache, to check the references between them and to look    *)
(* for duplicates.  Afterwards find serves the cache, and reads a file     *)
(* again when its entry is an hour old.  Meanwhile somebody edits the      *)
(* files.                                                                  *)
(*                                                                         *)
(* One context of a process is modelled: each has a data source of its     *)
(* own.  Nothing is ever written through it: insert, set, update and       *)
(* remove answer NOT_SUPPORTED.                                            *)
(***************************************************************************)
EXTENDS Naturals, FiniteSets, Sequences, SequencesExt

CONSTANTS
  Factors,   \* what identifies entities: user names, domains, hosts, numbers
  Refs,
  Hash,      \* what generateRef computes of a factor
  None,
  Missing,   \* a file that is not there, or is empty
  Broken,    \* a file that is no YAML
  Original,  \* collection -> its content at first
  Drafts,    \* collection -> what somebody may save it as
  TTL,       \* clock ticks until an entry of the cache is an hour old
  MaxEdits   \* bound: how often the files are saved

RESOURCES == <<"agents", "domains", "gateways", "numbers", "peers", "users">>
Collections == ToSet(RESOURCES)

\* An entity has the reference the file gives it, or a generated one; needs
\* are the gateway of a number, the number of a domain's egress policy, the
\* domains of an agent.
Entity == [ref : Refs \cup {None}, factor : Factors, needs : SUBSET (Refs \cup Factors)]

IsBook(content) == content \notin {Missing, Broken}

IsContent(content) ==
  /\ content # None
  /\ IsBook(content) => content.valid \in BOOLEAN /\ content.entities \in Seq(Entity)

ASSUME HashAssumption == Hash \in [Factors -> Refs]
ASSUME OriginalAssumption ==
  /\ Original = [c \in Collections |-> Original[c]]
  /\ \A c \in Collections : IsContent(Original[c])
ASSUME DraftsAssumption ==
  \A c \in Collections : \A d \in Drafts[c] : IsContent(d)
ASSUME BoundsAssumption == TTL \in Nat \ {0} /\ MaxEdits \in Nat

VARIABLES
  files,   \* collection -> what is on disk
  cache,   \* collection -> the content cached, or None
  age,     \* collection -> ticks since it was cached
  phase,   \* "building", "ready", "exited", or "failed": the constructor threw
  todo,    \* what is left of the constructor
  listed,  \* the entities whose needs the constructor is checking
  edits,   \* how many of the MaxEdits have happened
  torn,    \* history: a find met a file that was missing or broken
  aged     \* history: an entry of the cache has expired

vars == <<files, cache, age, phase, todo, listed, edits, torn, aged>>

(***************************************************************************)
(* Entities.                                                               *)
(***************************************************************************)
\* getWithMetadata: refs are a function of what the file says.
RefOf(e) == IF e.ref # None THEN e.ref ELSE Hash[e.factor]

\* What the needs of others are compared with: agents name the URI of a
\* domain, the rest a reference.
Offered(c, entities) ==
  {IF c = "domains" THEN entities[i].factor ELSE RefOf(entities[i]) : i \in DOMAIN entities}

Resolves(entities, c, in) ==
  \A i \in DOMAIN entities : entities[i].needs \subseteq Offered(c, in)

NoDuplicates(entities) ==
  \A i, j \in DOMAIN entities : RefOf(entities[i]) = RefOf(entities[j]) => i = j

(***************************************************************************)
(* find.                                                                   *)
(***************************************************************************)
Content(c) == IF cache[c] # None THEN cache[c] ELSE files[c]

\* The entities found.  A missing file has none, and the answer is OK; a
\* broken one has none, and the answer is an error.
Found(c) == IF IsBook(Content(c)) THEN Content(c).entities ELSE <<>>

\* Mutant: an entry expires an hour after it was last read.
Cache_AfterAccess(c) ==
  /\ cache' = [cache EXCEPT ![c] = IF IsBook(Content(c)) THEN Content(c) ELSE None]
  /\ age' = [age EXCEPT ![c] = 0]
  /\ torn' = (torn \/ ~IsBook(Content(c)))

\* An entry expires an hour after it was written.
Cache(c) ==
  /\ cache' = [cache EXCEPT ![c] = IF IsBook(Content(c)) THEN Content(c) ELSE None]
  /\ age' = [age EXCEPT ![c] = IF cache[c] = None THEN 0 ELSE @]
  /\ torn' = (torn \/ ~IsBook(Content(c)))

(***************************************************************************)
(* The constructor.                                                        *)
(***************************************************************************)
Task(op, c, for) == [op |-> op, of |-> c, for |-> for]

Construction ==
  [i \in DOMAIN RESOURCES |-> Task("validate", RESOURCES[i], None)]
  \o << Task("list", "numbers", None), Task("resolve", "gateways", "numbers"),
        Task("list", "domains", None), Task("resolve", "numbers", "domains"),
        Task("list", "agents", None),  Task("resolve", "domains", "agents") >>
  \o [i \in DOMAIN RESOURCES |-> Task("compare", RESOURCES[i], None)]

Becomes(outcome) ==
  /\ phase' = IF outcome = "on" /\ Len(todo) = 1 THEN "ready"
              ELSE IF outcome = "on" THEN "building" ELSE outcome
  /\ todo' = IF outcome = "on" THEN Tail(todo) ELSE <<>>

\* staticConfigValidation ends the process when a file is missing or has an
\* invalid entity.  When the file is no YAML, the handler of the exception
\* reads a variable that does not exist, and the constructor throws.
Validate(c) ==
  /\ \/ files[c] = Missing /\ Becomes("exited")
     \/ files[c] = Broken /\ Becomes("failed")
     \/ IsBook(files[c]) /\ ~files[c].valid /\ Becomes("exited")
     \/ IsBook(files[c]) /\ files[c].valid /\ Becomes("on")
  /\ UNCHANGED <<cache, age, torn, listed>>

\* Mutant: the file is read once more, past the cache.
List_FromDisk(c) ==
  /\ listed' = IF IsBook(files[c]) THEN files[c].entities ELSE <<>>
  /\ Becomes("on")
  /\ UNCHANGED <<cache, age, torn>>

\* When find fails, the list is empty and nothing of the file is checked.
List(c) ==
  /\ Cache(c)
  /\ listed' = Found(c)
  /\ Becomes("on")

\* One find for each entity that needs something; the first one that fails
\* ends the process, and after the first that does not the cache answers.
Resolve(c) ==
  LET needy == \E i \in DOMAIN listed : listed[i].needs # {}
  IN  /\ IF needy THEN Cache(c) ELSE UNCHANGED <<cache, age, torn>>
      /\ IF Resolves(listed, c, Found(c)) THEN Becomes("on") ELSE Becomes("exited")
      /\ listed' = <<>>

Compare(c) ==
  /\ Cache(c)
  /\ IF NoDuplicates(Found(c)) THEN Becomes("on") ELSE Becomes("exited")
  /\ UNCHANGED listed

Construct ==
  /\ phase = "building"
  /\ LET task == Head(todo)
     IN  \/ task.op = "validate" /\ Validate(task.of)
         \/ task.op = "list" /\ List(task.of)
         \/ task.op = "resolve" /\ Resolve(task.of)
         \/ task.op = "compare" /\ Compare(task.of)
  /\ UNCHANGED <<files, edits, aged>>

(***************************************************************************)
(* Serving.                                                                *)
(***************************************************************************)
\* Any lookup of the APIs.
Find(c) ==
  /\ phase = "ready"
  /\ Cache(c)
  /\ UNCHANGED <<files, phase, todo, listed, edits, aged>>

\* Mutant: one tick late.
Tick_Late ==
  /\ phase = "ready"
  /\ LET old == {c \in Collections : cache[c] # None /\ age[c] >= TTL}
     IN  /\ cache' = [c \in Collections |-> IF c \in old THEN None ELSE cache[c]]
         /\ age' = [c \in Collections |-> IF cache[c] = None \/ c \in old THEN 0 ELSE age[c] + 1]
         /\ aged' = (aged \/ old # {})
  /\ UNCHANGED <<files, phase, todo, listed, edits, torn>>

\* Time passes, and the entries that are an hour old expire.  The
\* constructor takes no hour.
Tick ==
  /\ phase = "ready"
  /\ LET old == {c \in Collections : cache[c] # None /\ age[c] + 1 >= TTL}
     IN  /\ cache' = [c \in Collections |-> IF c \in old THEN None ELSE cache[c]]
         /\ age' = [c \in Collections |-> IF cache[c] = None \/ c \in old THEN 0 ELSE age[c] + 1]
         /\ aged' = (aged \/ old # {})
  /\ UNCHANGED <<files, phase, todo, listed, edits, torn>>

\* Somebody (external) saves a file.
Save(c) ==
  /\ phase \in {"building", "ready"}
  /\ edits < MaxEdits
  /\ edits' = edits + 1
  /\ \E d \in Drafts[c] \ {files[c]} : files' = [files EXCEPT ![c] = d]
  /\ UNCHANGED <<cache, age, phase, todo, listed, torn, aged>>

Init ==
  /\ files = Original
  /\ cache = [c \in Collections |-> None]
  /\ age = [c \in Collections |-> 0]
  /\ phase = "building"
  /\ todo = Construction
  /\ listed = <<>>
  /\ edits = 0
  /\ torn = FALSE
  /\ aged = FALSE

Next ==
  \/ Construct
  \/ \E c \in Collections : Find(c) \/ Save(c)
  \/ Tick

Spec == Init /\ [][Next]_vars

\* The constructor goes on, time passes, and every collection is looked up
\* again and again.
FairSpec ==
  /\ Spec
  /\ WF_vars(Construct)
  /\ WF_vars(Tick)
  /\ \A c \in Collections : WF_vars(Find(c))

(***************************************************************************)
(* Properties.                                                             *)
(***************************************************************************)
\* The type invariant.
TypeOK ==
  /\ \A c \in Collections : IsContent(files[c])
  /\ \A c \in Collections : cache[c] # None => IsBook(cache[c]) /\ IsContent(cache[c])
  /\ age \in [Collections -> 0 .. TTL - 1]
  /\ phase \in {"building", "ready", "exited", "failed"}
  /\ (phase = "building") = (todo # <<>>)
  /\ listed \in Seq(Entity)
  /\ torn \in BOOLEAN /\ aged \in BOOLEAN

\* However the files are edited while the constructor reads each of them
\* several times, of what a new data source serves the references hold and no
\* two entities have one reference: these two checks are of what is cached.
\* (The first, of the schemas, is not: Validate reads the files for itself.)
\* Unless a find met a file that was gone or no YAML at that moment, and until
\* the first entry of the cache expires.
ReadyIsConsistent ==
  phase = "ready" /\ ~torn /\ ~aged =>
    /\ \A c \in Collections : cache[c] # None /\ NoDuplicates(Found(c))
    /\ Resolves(Found("numbers"), "gateways", Found("gateways"))
    /\ Resolves(Found("domains"), "numbers", Found("numbers"))
    /\ Resolves(Found("agents"), "domains", Found("domains"))

\* A saved file is served in the end, however often the stale entry is looked
\* up in the meantime; a file that cannot be served is at least not hidden
\* behind its former content.
EditsAreSeen ==
  \A c \in Collections :
    phase = "ready" /\ Content(c) # files[c] ~> Content(c) = files[c]
=============================================================================
