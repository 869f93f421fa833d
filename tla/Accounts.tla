------------------------------ MODULE Accounts ------------------------------
(***************************************************************************)
(* User accounts, password resets, email verification and web sessions.    *)
(*                                                                         *)
(* The passwords an account has had are numbered; the hash in the row is   *)
(* that of the last one.  An account is a user row that is not             *)
(* deactivated: no route deactivates one.                                  *)
(***************************************************************************)
EXTENDS ApiRequests, Naturals, FiniteSets

CONSTANTS
  Owners,        \* the people who may have an account
  Sessions,      \* ids of sessions
  Tokens,        \* ids of one-time tokens
  MaxPasswords   \* bound: passwords an account has had

VARIABLES
  password,   \* the number of the account's password, 0 when there is no account
  verified,   \* accounts whose email is verified
  session,    \* sessions
  token       \* password_reset_tokens and email_verification_tokens

accountVars == <<password, verified, session, token>>

Session ==
  [user       : Owners,
   password   : 1..MaxPasswords,   \* the account's password when its owner was checked
   revoked    : BOOLEAN]
TokenRow == [kind : {"reset", "email"}, user : Owners, state : {"valid", "consumed", "expired"}]
AccountTask ==
  [step : {"insert user", "insert token", "create session", "set password", "set verified"},
   kind : {"session", "reset", "email"},   \* what the request is for
   user : Owners,
   password   : 0..MaxPasswords,           \* 0 when the request opens no session
   ref  : Tokens \cup {None}]

ASSUME AccountAssumption ==
  /\ None \notin Session \cup TokenRow \cup AccountTask
  /\ MaxPasswords \in Nat \ {0}
  /\ IsFiniteSet(Handlers) /\ Handlers # {}

AccountTypeOK ==
  /\ password \in [Owners -> 0..MaxPasswords]
  /\ verified \subseteq Owners
  /\ session \in [Sessions -> Session \cup {None}]
  /\ token \in [Tokens -> TokenRow \cup {None}]

AccountInit ==
  /\ password = [u \in Owners |-> 0]
  /\ verified = {}
  /\ session = [s \in Sessions |-> None]
  /\ token = [t \in Tokens |-> None]

AccountStep(step, kind, u) ==
  [step |-> step, kind |-> kind, user |-> u, password |-> password[u], ref |-> None]

Exists(u) == password[u] > 0
OpenSession(s) == session[s] # None /\ ~session[s].revoked
FreeTokens == {t \in Tokens : token[t] = None}
FreeSessions == {s \in Sessions : session[s] = None}

-----------------------------------------------------------------------------
(* Registering, signing in, signing out                                     *)

RegisterAccount(h, u) ==
  /\ ~Exists(u)
  /\ Begin(h, AccountStep("insert user", "email", u))
  /\ UNCHANGED accountVars

\* the unique index on emails refuses the second of two
InsertAccount(h) ==
  LET u == work[h].user
  IN  /\ At(h, "insert user")
      /\ IF Exists(u)
           THEN Finish(h) /\ UNCHANGED password
           ELSE /\ password' = [password EXCEPT ![u] = 1]
                /\ Continue(h, [work[h] EXCEPT !.step = "insert token", !.password = 1])
      /\ UNCHANGED <<verified, session, token>>

\* a registration goes on to its session, a request for a token ends here
InsertToken(h) ==
  /\ At(h, "insert token")
  /\ FreeTokens # {}
  /\ token' = [token EXCEPT ![CHOOSE t \in FreeTokens : TRUE] =
                 [kind |-> work[h].kind, user |-> work[h].user, state |-> "valid"]]
  /\ IF work[h].password > 0
       THEN Continue(h, [work[h] EXCEPT !.step = "create session"])
       ELSE Finish(h)
  /\ UNCHANGED <<password, verified, session>>

\* the password is right when it is checked, and the session is created later
Login(h, u) ==
  /\ Exists(u)
  /\ Begin(h, AccountStep("create session", "session", u))
  /\ UNCHANGED accountVars

CreateSession(h) ==
  /\ At(h, "create session")
  /\ FreeSessions # {}
  /\ session' = [session EXCEPT ![CHOOSE s \in FreeSessions : TRUE] =
                   [user |-> work[h].user, password |-> work[h].password, revoked |-> FALSE]]
  /\ Finish(h)
  /\ UNCHANGED <<password, verified, token>>

Logout(s) ==
  /\ OpenSession(s)
  /\ session' = [session EXCEPT ![s].revoked = TRUE]
  /\ UNCHANGED <<work, password, verified, token>>

-----------------------------------------------------------------------------
(* One-time tokens                                                          *)

ValidTokens(kind, u) ==
  {t \in Tokens : token[t] # None /\ token[t].kind = kind /\ token[t].user = u
                                  /\ token[t].state # "consumed"}

\* the tokens sent before are consumed, and in a second statement one is added
RequestToken(h, kind, u) ==
  /\ token' = [t \in Tokens |-> IF t \in ValidTokens(kind, u)
                                THEN [token[t] EXCEPT !.state = "consumed"] ELSE token[t]]
  /\ Begin(h, [AccountStep("insert token", kind, u) EXCEPT !.password = 0])
  /\ UNCHANGED <<password, verified, session>>

RequestReset(h, u) == Exists(u) /\ RequestToken(h, "reset", u)

SendVerification(h, s) ==
  /\ OpenSession(s)
  /\ session[s].user \notin verified
  /\ RequestToken(h, "email", session[s].user)

TokenExpires(t) ==
  /\ token[t] # None
  /\ token[t].state = "valid"
  /\ token' = [token EXCEPT ![t].state = "expired"]
  /\ UNCHANGED <<work, password, verified, session>>

ReadToken(h, t) ==
  /\ token[t] # None
  /\ token[t].state = "valid"
  /\ Begin(h, [AccountStep(IF token[t].kind = "reset" THEN "set password" ELSE "set verified",
                           token[t].kind, token[t].user) EXCEPT !.ref = t, !.password = 0])
  /\ UNCHANGED accountVars

\* mutant: the sessions that are open stay open
SetPasswordOnly(h) ==
  LET u == work[h].user
  IN  /\ At(h, "set password")
      /\ password[u] < MaxPasswords
      /\ token' = [token EXCEPT ![work[h].ref].state = "consumed"]
      /\ password' = [password EXCEPT ![u] = @ + 1]
      /\ Finish(h)
      /\ UNCHANGED <<verified, session>>

\* one transaction: the token, the password and every open session
SetPassword(h) ==
  LET u == work[h].user
  IN  /\ At(h, "set password")
      /\ password[u] < MaxPasswords
      /\ token' = [token EXCEPT ![work[h].ref].state = "consumed"]
      /\ password' = [password EXCEPT ![u] = @ + 1]
      /\ session' = [s \in Sessions |-> IF OpenSession(s) /\ session[s].user = u
                                        THEN [session[s] EXCEPT !.revoked = TRUE] ELSE session[s]]
      /\ Finish(h)
      /\ UNCHANGED verified

SetVerified(h) ==
  /\ At(h, "set verified")
  /\ token' = [token EXCEPT ![work[h].ref].state = "consumed"]
  /\ verified' = verified \cup {work[h].user}
  /\ Finish(h)
  /\ UNCHANGED <<password, session>>

-----------------------------------------------------------------------------
AccountHandler(h) ==
  \/ \E u \in Owners : RegisterAccount(h, u) \/ Login(h, u) \/ RequestReset(h, u)
  \/ InsertAccount(h) \/ InsertToken(h) \/ CreateSession(h)
  \/ \E s \in Sessions : SendVerification(h, s)
  \/ \E t \in Tokens : ReadToken(h, t)
  \/ SetPassword(h) \/ SetVerified(h)
  \/ Cut(h) /\ UNCHANGED accountVars

AccountNext ==
  \/ \E h \in Handlers : AccountHandler(h)
  \/ \E s \in Sessions : Logout(s)
  \/ \E t \in Tokens : TokenExpires(t)

-----------------------------------------------------------------------------
Outdated(u) ==
  {s \in Sessions : OpenSession(s) /\ session[s].user = u /\ session[s].password # password[u]}

\* A password reset signs everyone out.  The check of a password and the insert of
\* the session are not one transaction, so that a session may open after the reset on a
\* password from before; but only one for each request that was under way beside the
\* last reset, and it ends with the next.
SessionsFollowPassword ==
  \A u \in Owners : Cardinality(Outdated(u)) < Cardinality(Handlers)
=============================================================================
