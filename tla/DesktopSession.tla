--------------------------- MODULE DesktopSession ---------------------------
(***************************************************************************)
(* The sign-in of a desktop: two files that the calls of the window read   *)
(* and write without a lock, the key of the device and the session with    *)
(* the workspace the user works in, and the server that knows which        *)
(* devices and workspaces are still good.                                  *)
(***************************************************************************)
EXTENDS ApiRequests, FiniteSets

CONSTANTS
  Profiles,  \* devices this desktop may mint, in this order of use
  Places,    \* workspaces of the user
  Torn       \* content of a file that was opened for writing and not yet written

VARIABLES
  keyFile,      \* private.key.enc: the device whose key it holds
  sessionFile,  \* session.json
  live,         \* devices the server accepts
  minted,       \* devices it ever inserted
  allowed,      \* workspaces the server lists for the user
  \* what the user last asked for and was told is done
  choice,       \* the device and workspace it should have left
  withdrawn,    \* since then the server ended the device or closed the workspace
  \* calls that overlap
  wrote,        \* calls that have written a file
  touched,      \* calls during which another call has written a file
  disputed      \* a touched or unfinished call has written since the choice

desktopVars == <<keyFile, sessionFile, live, minted, allowed, choice, withdrawn, wrote,
                 touched, disputed>>
serverVars == <<live, minted, allowed>>

SavedSession == [profile : Profiles, active : Places, known : SUBSET Places]
CallTask ==
  [call : {"sign in", "sign out", "switch", "refresh", "request"},
   step : {"mint", "open key", "write key", "open session", "write session",
           "load", "read key", "fetch", "expire key", "expire session",
           "clear key", "clear session"},
   session : SavedSession \cup {None},     \* loaded first, or to be saved
   place   : Places \cup {None},      \* the workspace in the path
   signer  : Profiles \cup {None},    \* loaded and read by the signed request
   key     : Profiles \cup {None}]

ASSUME DesktopAssumption ==
  /\ None \notin Profiles \cup Places \cup SavedSession \cup CallTask
  /\ None \notin [profile : Profiles, active : Places]
  /\ Torn \notin SavedSession \cup {None}

DesktopTypeOK ==
  /\ keyFile \in Profiles \cup {None}
  /\ sessionFile \in SavedSession \cup {None, Torn}
  /\ live \subseteq minted /\ minted \subseteq Profiles /\ allowed \subseteq Places
  /\ choice \in [profile : Profiles, active : Places] \cup {None}
  /\ withdrawn \in BOOLEAN /\ disputed \in BOOLEAN
  /\ wrote \subseteq Handlers /\ touched \subseteq Handlers

DesktopInit ==
  /\ keyFile = None /\ sessionFile = None
  /\ live = {} /\ minted = {} /\ allowed = Places
  /\ choice = None /\ withdrawn = FALSE
  /\ wrote = {} /\ touched = {} /\ disputed = FALSE

Call(call, step, s, w) ==
  [call |-> call, step |-> step, session |-> s, place |-> w, signer |-> None, key |-> None]
Stored == sessionFile \in SavedSession
Idle(h) == work[h] = None
GoTo(h, step) == Continue(h, [work[h] EXCEPT !.step = step])

-----------------------------------------------------------------------------
\* Bookkeeping of the overlaps: h writes a file, and goes on or returns.
Written(h, finished) ==
  LET others == touched \cup {o \in Handlers \ {h} : ~Idle(o)}
  IN  IF finished
      THEN wrote' = wrote \ {h} /\ touched' = others \ {h}
      ELSE wrote' = wrote \cup {h} /\ touched' = others
WritesOn(h) ==
  /\ Written(h, FALSE)
  /\ disputed' = (disputed \/ h \in touched)
  /\ UNCHANGED <<choice, withdrawn>>
Returns(h) ==
  /\ Finish(h)
  /\ wrote' = wrote \ {h} /\ touched' = touched \ {h}
  /\ UNCHANGED <<choice, withdrawn, disputed>>
\* the last write of a call the user made
Chosen(h, s) ==
  /\ Written(h, TRUE)
  /\ choice' = IF s = None THEN None ELSE [profile |-> s.profile, active |-> s.active]
  /\ withdrawn' = (s # None /\ (s.profile \notin live \/ s.active \notin allowed))
  /\ disputed' = ((disputed /\ work[h].call = "switch") \/ h \in touched)
  /\ Finish(h)
\* the last write of a call that made no choice
Settled(h) ==
  /\ Written(h, TRUE)
  /\ disputed' = (disputed \/ h \in touched)
  /\ Finish(h)
  /\ UNCHANGED <<choice, withdrawn>>
Undisturbed == UNCHANGED <<choice, withdrawn, wrote, touched, disputed>>
Withdraws(p, w) ==
  withdrawn' = (withdrawn \/ (choice # None /\ (choice.profile \in p \/ choice.active \in w)))

-----------------------------------------------------------------------------
\* auth.signIn; auth.register and auth.oidcSignIn end with the same steps
SignIn(h) ==
  /\ Begin(h, Call("sign in", "mint", None, None))
  /\ UNCHANGED desktopVars

NewProfile == CHOOSE p \in Profiles \ minted : TRUE
Mint(h) ==
  /\ At(h, "mint")
  /\ minted # Profiles
  /\ minted' = minted \cup {NewProfile} /\ live' = live \cup {NewProfile}
  /\ \E w \in allowed :
       Continue(h, Call("sign in", "open key",
                        [profile |-> NewProfile, active |-> w, known |-> allowed], None))
  /\ UNCHANGED <<keyFile, sessionFile, allowed>> /\ Undisturbed

\* storePrivateKey and saveSession: writeFile empties the file, then fills it; a
\* key that cannot be decrypted fails a request as a missing one does
OpenKeyFile(h) ==
  /\ At(h, "open key")
  /\ keyFile' = None
  /\ GoTo(h, "write key") /\ WritesOn(h)
  /\ UNCHANGED <<sessionFile, serverVars>>
WriteKey(h) ==
  /\ At(h, "write key")
  /\ keyFile' = work[h].session.profile
  /\ GoTo(h, "open session") /\ WritesOn(h)
  /\ UNCHANGED <<sessionFile, serverVars>>
OpenSessionFile(h) ==
  /\ At(h, "open session")
  /\ sessionFile' = Torn
  /\ GoTo(h, "write session") /\ WritesOn(h)
  /\ UNCHANGED <<keyFile, serverVars>>
WriteSession(h) ==
  /\ At(h, "write session")
  /\ sessionFile' = work[h].session
  /\ IF work[h].call = "refresh" THEN Settled(h) ELSE Chosen(h, work[h].session)
  /\ UNCHANGED <<keyFile, serverVars>>

\* auth.switchWorkspace
Switch(h, w) ==
  /\ Stored
  /\ w \in sessionFile.known
  /\ Begin(h, Call("switch", "open session", [sessionFile EXCEPT !.active = w], None))
  /\ UNCHANGED desktopVars

\* auth.signOut; a session that cannot be parsed throws before anything is cleared
SignOut(h) ==
  /\ sessionFile # Torn
  /\ Begin(h, IF Stored THEN Call("sign out", "load", sessionFile, None)
                        ELSE Call("sign out", "clear key", None, None))
  /\ UNCHANGED desktopVars

\* auth.currentSession
Refresh(h) ==
  /\ Stored
  /\ Begin(h, Call("refresh", "load", sessionFile, None))
  /\ UNCHANGED desktopVars

\* any other call; the workspace in its path, if any, is the active one
Request(h, w) ==
  /\ Stored
  /\ w \in {None, sessionFile.active}
  /\ Begin(h, Call("request", "load", None, w))
  /\ UNCHANGED desktopVars

-----------------------------------------------------------------------------
\* signedRequest throws, and not for a 401: signing out goes on
Throws(h) ==
  IF work[h].call = "sign out"
  THEN GoTo(h, "clear key") /\ Undisturbed
  ELSE Returns(h)

\* signedFetch loads the session itself
Load(h) ==
  /\ At(h, "load")
  /\ IF Stored
     THEN /\ Continue(h, [work[h] EXCEPT !.step = "read key", !.signer = sessionFile.profile])
          /\ Undisturbed
     ELSE Throws(h)
  /\ UNCHANGED <<keyFile, sessionFile, serverVars>>
ReadKey(h) ==
  /\ At(h, "read key")
  /\ IF keyFile # None
     THEN Continue(h, [work[h] EXCEPT !.step = "fetch", !.key = keyFile]) /\ Undisturbed
     ELSE Throws(h)
  /\ UNCHANGED <<keyFile, sessionFile, serverVars>>

\* requireDeviceSignature
Accepted(t) ==
  /\ t.key = t.signer
  /\ t.signer \in live
  /\ t.place \in allowed \cup {None}

Listed(s) == IF allowed = {} THEN s.known ELSE allowed
\* mutant: the refresh opens the first workspace of the list
KeptFirst(s, w) == w = CHOOSE v \in Listed(s) : TRUE
Kept(s, w) == IF s.active \in Listed(s) THEN w = s.active ELSE w \in Listed(s)

Fetch(h) ==
  LET t == work[h]
  IN /\ At(h, "fetch")
     /\ \/ ~Accepted(t) /\ GoTo(h, "expire key") /\ UNCHANGED live /\ Undisturbed
        \/ Accepted(t) /\ t.call = "request" /\ Returns(h) /\ UNCHANGED live
        \/ /\ Accepted(t) /\ t.call = "refresh"
           /\ \E w \in Places :
                /\ Kept(t.session, w)
                /\ Continue(h, Call("refresh", "open session",
                     [t.session EXCEPT !.active = w, !.known = Listed(t.session)], None))
           /\ UNCHANGED live /\ Undisturbed
        \/ /\ Accepted(t) /\ t.call = "sign out"
           /\ live' = live \ {t.session.profile} /\ Withdraws({t.session.profile}, {})
           /\ GoTo(h, "clear key")
           /\ UNCHANGED <<choice, wrote, touched, disputed>>
     /\ UNCHANGED <<keyFile, sessionFile, minted, allowed>>

\* sessionExpiredError, and auth.currentSession after a 401
ExpireKey(h) ==
  /\ At(h, "expire key")
  /\ keyFile' = None
  /\ GoTo(h, "expire session") /\ WritesOn(h)
  /\ UNCHANGED <<sessionFile, serverVars>>
ExpireSession(h) ==
  /\ At(h, "expire session")
  /\ sessionFile' = None
  /\ IF work[h].call = "sign out" THEN GoTo(h, "clear key") /\ WritesOn(h) ELSE Settled(h)
  /\ UNCHANGED <<keyFile, serverVars>>

ClearKey(h) ==
  /\ At(h, "clear key")
  /\ keyFile' = None
  /\ GoTo(h, "clear session") /\ WritesOn(h)
  /\ UNCHANGED <<sessionFile, serverVars>>
ClearSession(h) ==
  /\ At(h, "clear session")
  /\ sessionFile' = None
  /\ Chosen(h, None)
  /\ UNCHANGED <<keyFile, serverVars>>

-----------------------------------------------------------------------------
\* a file cannot be read or written, or the API does not answer
CallFails(h) ==
  /\ ~Idle(h)
  /\ \/ work[h].step \in {"load", "read key", "fetch"} /\ Throws(h)
     \/ /\ work[h].step \notin {"load", "read key", "fetch"}
        /\ Finish(h)
        /\ disputed' = (disputed \/ h \in wrote)
        /\ wrote' = wrote \ {h} /\ touched' = touched \ {h}
        /\ UNCHANGED <<choice, withdrawn>>
  /\ UNCHANGED <<keyFile, sessionFile, serverVars>>

AppQuits ==
  /\ \E h \in Handlers : ~Idle(h)
  /\ work' = [h \in Handlers |-> None]
  /\ disputed' = (disputed \/ wrote # {})
  /\ wrote' = {} /\ touched' = {}
  /\ UNCHANGED <<keyFile, sessionFile, serverVars, choice, withdrawn>>

\* revoked from elsewhere, its workspace archived, or its user deactivated
EndDevice(p) ==
  /\ p \in live
  /\ live' = live \ {p} /\ Withdraws({p}, {})
  /\ UNCHANGED <<work, keyFile, sessionFile, minted, allowed, choice, wrote, touched, disputed>>
LoseWorkspace(w) ==
  /\ w \in allowed
  /\ allowed' = allowed \ {w} /\ Withdraws({}, {w})
  /\ UNCHANGED <<work, keyFile, sessionFile, live, minted, choice, wrote, touched, disputed>>
GainWorkspace(w) ==
  /\ w \notin allowed
  /\ allowed' = allowed \cup {w}
  /\ UNCHANGED <<work, keyFile, sessionFile, live, minted>> /\ Undisturbed

DesktopCall(h) ==
  \/ SignIn(h) \/ SignOut(h) \/ Refresh(h)
  \/ \E w \in Places : Switch(h, w)
  \/ \E w \in Places \cup {None} : Request(h, w)
  \/ Mint(h) \/ OpenKeyFile(h) \/ WriteKey(h) \/ OpenSessionFile(h) \/ WriteSession(h)
  \/ Load(h) \/ ReadKey(h) \/ Fetch(h)
  \/ ExpireKey(h) \/ ExpireSession(h) \/ ClearKey(h) \/ ClearSession(h)
  \/ CallFails(h)

DesktopNext ==
  \/ \E h \in Handlers : DesktopCall(h)
  \/ AppQuits
  \/ \E p \in Profiles : EndDevice(p)
  \/ \E w \in Places : LoseWorkspace(w) \/ GainWorkspace(w)

-----------------------------------------------------------------------------
SignedOut == sessionFile = None /\ keyFile = None
SignedInAs(p) == Stored /\ sessionFile.profile = p /\ keyFile = p

\* When no call is under way, the two files hold what the user last asked for:
\* nothing after signing out, else the key and the session of one device in the
\* workspace that was chosen.  Only the server may have closed that workspace or
\* ended the device since; then the files still belong together, or both are
\* gone.  Excepted are files a call wrote that had begun before the last write of
\* another, as a refresh that undoes a switch, or that was cut between its writes.
StoredIsChosen ==
  (\A h \in Handlers : Idle(h)) /\ ~disputed =>
    IF choice = None
    THEN SignedOut
    ELSE \/ SignedInAs(choice.profile) /\ sessionFile.active = choice.active
         \/ withdrawn /\ (SignedOut \/ SignedInAs(choice.profile))
=============================================================================
