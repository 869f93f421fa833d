----------------------------- MODULE OidcSignIn -----------------------------
(***************************************************************************)
(* Signing in with an external identity provider: the states that tie a    *)
(* callback to the request it answers, and the identities of an account.   *)
(* An identity is a subject of a provider; what the provider says of its   *)
(* email is an input of every callback.                                    *)
(***************************************************************************)
EXTENDS Accounts

CONSTANTS
  States,    \* ids of oidc_auth_states
  Subjects   \* subjects of providers

VARIABLES
  authState,        \* oidc_auth_states
  identity,         \* external_identities
  racedDisconnect   \* accounts that two disconnections decided at once, and no sign-in since

oidcVars == <<authState, identity, racedDisconnect>>

AuthState == [user : Owners \cup {None},   \* who connects an identity, None to sign in
              state : {"valid", "consumed", "expired"}]
Identity == [user : Owners, connected : BOOLEAN]
OidcTask ==
  [step : {"consume state", "link identity", "disconnect"},
   user : Owners \cup {None},
   password : {0},
   ref  : States \cup Subjects]

ASSUME OidcAssumption == None \notin AuthState \cup Identity \cup OidcTask

OidcTypeOK ==
  /\ authState \in [States -> AuthState \cup {None}]
  /\ identity \in [Subjects -> Identity \cup {None}]
  /\ racedDisconnect \subseteq Owners

OidcInit ==
  /\ authState = [a \in States |-> None]
  /\ identity = [x \in Subjects |-> None]
  /\ racedDisconnect = {}

OidcStep(step, u, ref) == [step |-> step, user |-> u, password |-> 0, ref |-> ref]

-----------------------------------------------------------------------------
Start(a, u) ==
  /\ authState[a] = None
  /\ authState' = [authState EXCEPT ![a] = [user |-> u, state |-> "valid"]]
  /\ UNCHANGED <<work, accountVars, identity, racedDisconnect>>

StartSignIn(a) == Start(a, None)
StartConnect(a, u) == Exists(u) /\ Start(a, u)

StateExpires(a) ==
  /\ authState[a] # None /\ authState[a].state = "valid"
  /\ authState' = [authState EXCEPT ![a].state = "expired"]
  /\ UNCHANGED <<work, accountVars, identity, racedDisconnect>>

Callback(h, a) ==
  /\ authState[a] # None /\ authState[a].state = "valid"
  /\ Begin(h, OidcStep("consume state", authState[a].user, a))
  /\ UNCHANGED <<accountVars, oidcVars>>

\* by id, whether or not another callback has consumed it meanwhile
ConsumeState(h) ==
  /\ At(h, "consume state")
  /\ authState' = [authState EXCEPT ![work[h].ref].state = "consumed"]
  /\ Continue(h, [work[h] EXCEPT !.step = "link identity"])
  /\ UNCHANGED <<accountVars, identity, racedDisconnect>>

\* one transaction, after the provider has named the subject x with email e: an
\* identity that is known signs in its own account and is connected again, also one that
\* was disconnected
LinkIdentity(h, x, e) ==
  LET u == CASE identity[x] # None                         -> identity[x].user
             [] identity[x] = None /\ work[h].user # None  -> work[h].user
             [] OTHER                                      -> e
  IN  /\ At(h, "link identity")
      /\ work[h].user \in {None, u}
      /\ identity' = [identity EXCEPT ![x] = [user |-> u, connected |-> TRUE]]
      /\ password' = [password EXCEPT ![u] = IF Exists(u) THEN @ ELSE 1]
      /\ verified' = IF Exists(u) THEN verified ELSE verified \cup {u}
      /\ Continue(h, [AccountStep("create session", "session", u) EXCEPT
                        !.password = password'[u]])
      /\ racedDisconnect' = IF \E o \in OthersAt(h, "disconnect") : work[o].user = u
                            THEN racedDisconnect ELSE racedDisconnect \ {u}
      /\ UNCHANGED <<session, token, authState>>

\* an identity of somebody else cannot be connected
RefuseIdentity(h, x) ==
  /\ At(h, "link identity")
  /\ identity[x] # None
  /\ work[h].user \notin {None, identity[x].user}
  /\ Finish(h)
  /\ UNCHANGED <<accountVars, oidcVars>>

-----------------------------------------------------------------------------
IdentitiesOf(u) == {x \in Subjects : identity[x] # None /\ identity[x].user = u}

\* an identity may go when another one is connected
AnotherConnected(x) ==
  Cardinality({y \in IdentitiesOf(identity[x].user) : identity[y].connected}) > 1

RequestDisconnect(h, x) ==
  LET u == identity[x].user
  IN  /\ identity[x] # None /\ identity[x].connected
      /\ AnotherConnected(x)
      /\ Begin(h, OidcStep("disconnect", u, x))
      /\ racedDisconnect' = IF \E o \in OthersAt(h, "disconnect") : work[o].user = u
                            THEN racedDisconnect \cup {u} ELSE racedDisconnect
      /\ UNCHANGED <<accountVars, authState, identity>>

Disconnect(h) ==
  /\ At(h, "disconnect")
  /\ identity' = [identity EXCEPT ![work[h].ref].connected = FALSE]
  /\ Finish(h)
  /\ UNCHANGED <<accountVars, authState, racedDisconnect>>

-----------------------------------------------------------------------------
OidcHandler(h) ==
  \/ \E a \in States : Callback(h, a)
  \/ ConsumeState(h) \/ Disconnect(h)
  \/ \E x \in Subjects : \/ \E e \in Owners : LinkIdentity(h, x, e)
                         \/ RefuseIdentity(h, x) \/ RequestDisconnect(h, x)
  \/ CreateSession(h) /\ UNCHANGED oidcVars
  \/ Cut(h) /\ UNCHANGED <<accountVars, oidcVars>>

OidcNext ==
  \/ \E h \in Handlers : OidcHandler(h)
  \/ \E a \in States : \/ StartSignIn(a) \/ StateExpires(a)
                       \/ \E u \in Owners : StartConnect(a, u)

-----------------------------------------------------------------------------
\* Who has ever signed in with an external identity keeps one that is connected,
\* for every order of sign-ins, connections and disconnections; only two
\* disconnections that were decided at once can take the last one away, and the next
\* sign-in with one of them makes good for that.
KeepsAnIdentity ==
  \A u \in Owners \ racedDisconnect :
    IdentitiesOf(u) # {} => \E x \in IdentitiesOf(u) : identity[x].connected

\* A reset of the password leaves no more sessions on the old one than requests that it
\* met, and disconnecting leaves an account an identity, unless two disconnections met.
\* (A disconnected identity is not refused: it signs in, and is connected again.)
AccountsTrue == SessionsFollowPassword /\ KeepsAnIdentity
=============================================================================
