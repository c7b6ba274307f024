----------------------------- MODULE Directory ------------------------------
(***************************************************************************)
(* What Registrar.isAuthorized promises its callers, whatever the caches,  *)
(* the data source and the administrators do: each call ends in a verdict  *)
(* that the recent past justifies.  Accounts implements this module, and   *)
(* SipServer is built on it.                                               *)
(*                                                                         *)
(* The past is known by two ages per login.  gone counts the ticks since   *)
(* an entity last held the login, steady the ticks for which no lookup     *)
(* could have missed it; both stop counting past the window.               *)
(***************************************************************************)
EXTENDS Naturals

CONSTANTS
  Servers,   \* callers of isAuthorized
  Login,     \* digest logins
  None,      \* no login
  Window     \* ticks after which the past no longer justifies a verdict

VARIABLES
  answer,    \* what each call is at: its phase and its login
  gone, steady

Verdicts == {"granted", "refused", "failed"}
Ages     == 0 .. (Window + 1)
Older(age) == IF age > Window THEN age ELSE age + 1

TypeOK ==
  /\ answer \in [Servers -> [phase : Verdicts \cup {"idle", "asking"},
                             login : Login \cup {None}]]
  /\ gone \in [Login -> Ages]
  /\ steady \in [Login -> Ages]

Init ==
  /\ answer = [s \in Servers |-> [phase |-> "idle", login |-> None]]
  /\ gone = [l \in Login |-> Window + 1]
  /\ steady = [l \in Login |-> 0]

\* A failed find ends what was steady, at the very step that refuses.
Unsettle == gone' = gone /\ (steady' = steady \/ steady' = [l \in Login |-> 0])

Justified(l, verdict) ==
  IF verdict = "granted" THEN gone[l] <= Window ELSE steady'[l] <= Window

Reach(s, l, phase) ==
  /\ phase \in Verdicts => Justified(l, phase)
  /\ answer' = [answer EXCEPT ![s] = [phase |-> phase, login |-> l]]

Ask(s, l) ==
  /\ answer[s].phase = "idle"
  /\ UNCHANGED <<gone, steady>>
  /\ \E phase \in Verdicts \cup {"asking"} : Reach(s, l, phase)

\* The call goes on, with or without an answer from the data source.
Pursue(s) ==
  /\ answer[s].phase = "asking"
  /\ Unsettle
  /\ \E phase \in Verdicts \cup {"asking"} : Reach(s, answer[s].login, phase)

\* The caller takes the verdict, or the process is restarted.
Leave(s) ==
  /\ answer' = [answer EXCEPT ![s] = [phase |-> "idle", login |-> None]]
  /\ UNCHANGED <<gone, steady>>

\* Administrators change the accounts, or time passes.  A login that cannot
\* be missed is held.
Environment ==
  /\ gone' \in [Login -> Ages]
  /\ steady' \in [Login -> Ages]
  /\ \A l \in Login : /\ gone'[l] \in {0, gone[l], Older(gone[l])}
                      /\ steady'[l] \in {0, steady[l], Older(steady[l])}
                      /\ steady'[l] > 0 => gone'[l] = 0
  /\ UNCHANGED answer

Next ==
  \/ Environment
  \/ \E s \in Servers : Pursue(s) \/ Leave(s) \/ \E l \in Login : Ask(s, l)

Spec == Init /\ [][Next]_<<answer, gone, steady>>
=============================================================================
