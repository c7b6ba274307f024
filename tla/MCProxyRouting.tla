--------------------------- MODULE MCProxyRouting ---------------------------
(***************************************************************************)
(* Instances of ProxyRouting for TLC: ann behind proxy p, bob behind proxy *)
(* q, and a name that p's locator binds to p itself.                       *)
(***************************************************************************)
EXTENDS ProxyRouting

CONSTANTS p, q, ann, bob,
          pIn, pOut, qIn, qOut, annAt, bobAt,          \* addresses
          bobName, bobAtQ, loopAtP, annUri, bobUri     \* URIs

Addresses == {pIn, pOut, qIn, qOut, annAt, bobAt}
OwnerOf == [x \in Addresses |->
  CASE x \in {pIn, pOut} -> p [] x \in {qIn, qOut} -> q
    [] x = annAt -> ann [] x = bobAt -> bob]

Names == {bobName, bobAtQ, loopAtP, annUri, bobUri}
HostOf == [u \in Names |->
  CASE u \in {bobName, loopAtP} -> pIn [] u = bobAtQ -> qOut
    [] u = annUri -> annAt [] u = bobUri -> bobAt]
ContactOf == [a \in {ann, bob} |-> IF a = ann THEN annUri ELSE bobUri]

LocalOf  == [x \in {p, q} |-> IF x = p THEN pIn ELSE qIn]
ExternOf == [x \in {p, q} |-> IF x = p THEN pOut ELSE qOut]
NoExtern == [x \in {p, q} |-> None]

\* p's locator knows bob at q, q's knows where he is.
Locators == [x \in {p, q} |-> [u \in Names |->
  CASE x = p /\ u = bobName -> bobAtQ
    [] x = p /\ u = loopAtP -> loopAtP
    [] x = q /\ u = bobAtQ  -> bobUri
    [] OTHER -> None]]

Calls == {[from |-> ann, uri |-> bobName, route |-> <<>>],
          [from |-> ann, uri |-> bobName, route |-> <<pIn>>],
          [from |-> ann, uri |-> loopAtP, route |-> <<>>],
          [from |-> ann, uri |-> bobUri,  route |-> <<qIn>>]}
Chain == {[from |-> ann, uri |-> bobName, route |-> <<>>]}

AllPublic == Names \cup Addresses
=============================================================================
