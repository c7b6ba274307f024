---------------------------- MODULE EntityStore -----------------------------
(***************************************************************************)
(* The entities of a Redis data source as several REST contexts write      *)
(* them: a string key per entity, and a set of references per collection.  *)
(* A write is two commands that nothing makes atomic, with the commands of *)
(* the other writers between them, and the second may never come.          *)
(*                                                                         *)
(* This is what the SIP servers may take for granted of the REST side:     *)
(* module Accounts runs its lookups over this module, and module DataApi   *)
(* implements it.                                                          *)
(***************************************************************************)
CONSTANTS
  Writers,      \* REST contexts: each handles one call at a time
  Refs,         \* metadata.ref values
  Collections,  \* kinds of entities
  Home,         \* ref -> the collection of the entity it refers to
  Fits,         \* ref -> the entities that may be stored under it
  None

VARIABLES
  strings,  \* Redis string keys: ref -> entity, or None
  sets,     \* Redis sets: collection -> refs
  pending   \* writer -> the second command of its call, or None

Command == [cmd : {"SADD", "SREM", "SET"}, ref : Refs]

TypeOK ==
  /\ strings \in [Refs -> UNION {Fits[r] : r \in Refs} \cup {None}]
  /\ sets \in [Collections -> SUBSET Refs]
  /\ pending \in [Writers -> Command \cup {None}]

Init ==
  /\ strings = [r \in Refs |-> None]
  /\ sets = [c \in Collections |-> {}]
  /\ pending = [w \in Writers |-> None]

-----------------------------------------------------------------------------
\* The first command of a call is sent, and the second is to follow it.
Await(w, cmd, r) ==
  /\ pending[w] = None
  /\ pending' = [pending EXCEPT ![w] = [cmd |-> cmd, ref |-> r]]

Awaits(w, cmds) == pending[w] \in [cmd : cmds, ref : Refs]
Settle(w) == pending' = [pending EXCEPT ![w] = None]

Put(r, entities) == \E e \in entities : strings' = [strings EXCEPT ![r] = e]

\* insert: SET of the key, whatever it held; SADD of the reference follows.
Insert(w, r) ==
  /\ Await(w, "SADD", r)
  /\ UNCHANGED sets
  /\ Put(r, Fits[r])

\* A PUT reads the entity, to merge what it changes into it.
Read(w, r) ==
  /\ strings[r] # None
  /\ Await(w, "SET", r)
  /\ UNCHANGED <<strings, sets>>

\* update: one SET, even of a key that has been deleted since it was read.
Update(w) ==
  /\ Awaits(w, {"SET"})
  /\ Settle(w)
  /\ UNCHANGED sets
  /\ Put(pending[w].ref, Fits[pending[w].ref])

\* remove: DEL of the key; SREM follows only when there was something to delete.
Remove(w, r) ==
  /\ strings[r] # None
  /\ Await(w, "SREM", r)
  /\ UNCHANGED sets
  /\ Put(r, {None})

\* The second command of insert and of remove.
Finish(w) ==
  LET r == pending[w].ref
  IN /\ Awaits(w, {"SADD", "SREM"})
     /\ sets' = [sets EXCEPT ![Home[r]] =
                   IF pending[w].cmd = "SADD" THEN @ \cup {r} ELSE @ \ {r}]
     /\ Settle(w)
     /\ UNCHANGED strings

Write(w) ==
  \/ Update(w) \/ Finish(w)
  \/ \E r \in Refs : Insert(w, r) \/ Read(w, r) \/ Remove(w, r)

-----------------------------------------------------------------------------
\* Redis or the replica fails between the two commands: the second is lost.
Lose(w) ==
  /\ pending[w] \in Command
  /\ Settle(w)
  /\ UNCHANGED <<strings, sets>>

\* The first command is carried out and its answer lost: no second follows.
Half(w, r) ==
  /\ pending[w] = None
  /\ UNCHANGED <<sets, pending>>
  /\ Put(r, Fits[r] \cup {None})

Break(w) == Lose(w) \/ \E r \in Refs : Half(w, r)

Next == \E w \in Writers : Write(w) \/ Break(w)

Spec == Init /\ [][Next]_<<strings, sets, pending>>
=============================================================================
