----------------------------- MODULE MCSipServer -----------------------------
(***************************************************************************)
(* Instances of SipServer for TLC: an alarm device u1 that registers, one  *)
(* (u2) that only ever sends messages, and what is sent to either of them. *)
(***************************************************************************)
EXTENDS SipServer

CONSTANTS u1, u2, home, c1, c2, l1

At(u) == [user |-> u, host |-> home, extra |-> FALSE]

Register(contact, expires, login) ==
  [method |-> "REGISTER", kind |-> "plain", from |-> At(u1), to |-> At(u1),
   uri |-> At(None), contact |-> contact, expires |-> expires, login |-> login,
   inDialog |-> FALSE, maxForwards |-> 1]

Message(kind, from, to, contact, login) ==
  [method |-> "MESSAGE", kind |-> kind, from |-> At(from), to |-> At(to),
   uri |-> At(None), contact |-> contact, expires |-> 1, login |-> login,
   inDialog |-> FALSE, maxForwards |-> 1]

\* u1 registers with the login of an account, and unregisters.
Enrol   == Register(c1, 1, l1)
Retire  == Register(c1, 0, None)

\* u1 is sent a message, by a Climax V2 device that shows a login, and by a
\* plain device; u2 is answered in a dialog.
Alarm   == Message("essence", u2, u1, c2, l1)
Call    == Message("plain", u2, u1, None, None)
Reply   == [Message("plain", u1, u2, None, None) EXCEPT !.inDialog = TRUE]

\* u2 as a first-generation Climax device, with no login at all.
Beacon  == Message("climax", u2, u1, c2, None)

Stray   == [Call EXCEPT !.method = "other"]
Garbled == Register(None, 1, l1)
Spent   == [Call EXCEPT !.maxForwards = 0]
Nobody  == Register(c1, 1, None)

\* u1 registers from another place.
Moved   == [Enrol EXCEPT !.contact = c2]

Traffic   == {Enrol, Retire, Alarm, Call}
Strangers == {Enrol, Moved, Alarm, Beacon, Reply, Spent, Nobody, Stray, Garbled}
Devices   == {Enrol, Retire, Call, Moved}
=============================================================================
