-------------------------- MODULE MCFilesDataSource --------------------------
(***************************************************************************)
(* An instance of FilesDataSource for TLC: a gateway, a number of it, a    *)
(* domain with a number, an agent of the domain, and edits that break      *)
(* references, repeat an entity, remove a file or spoil its syntax.        *)
(***************************************************************************)
EXTENDS FilesDataSource, TLC

CONSTANTS gw, tel, dom, ann, r1, r2, r3, r4

Hashes == (gw :> r1) @@ (tel :> r2) @@ (dom :> r3) @@ (ann :> r4)

E(ref, factor, needs) == [ref |-> ref, factor |-> factor, needs |-> needs]
Book(entities) == [valid |-> TRUE, entities |-> entities]

Files ==
  ("agents" :> Book(<<E(None, ann, {dom})>>)) @@
  ("domains" :> Book(<<E(None, dom, {r2})>>)) @@
  ("gateways" :> Book(<<E(None, gw, {})>>)) @@
  ("numbers" :> Book(<<E(None, tel, {r1})>>)) @@
  ("peers" :> Book(<<>>)) @@
  ("users" :> Book(<<>>))

Edits ==
  [c \in Collections |->
     CASE c = "agents" -> {Missing, Book(<<E(None, ann, {dom}), E(r4, ann, {})>>),
                          Book(<<E(None, ann, {gw})>>)}
       [] c = "domains" -> {Book(<<>>)}
       [] c = "gateways" -> {Broken, Book(<<E(r2, gw, {})>>)}
       [] c = "numbers" -> {[valid |-> FALSE, entities |-> <<>>]}
       [] OTHER -> {}]
=============================================================================
