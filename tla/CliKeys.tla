------------------------------ MODULE CliKeys ------------------------------
(***************************************************************************)
(* The command line tool and its API keys.  Every command is a process of  *)
(* its own: it loads config.json when it starts, and a command that saves  *)
(* loads it again, changes some fields and writes the whole file, without  *)
(* a lock.  Keys are made and revoked by the API, under an admin session.  *)
(***************************************************************************)
EXTENDS ApiRequests

CONSTANTS
  KeyIds,    \* API keys that may be made
  Sites,     \* workspaces the user administers
  TornFile   \* content of config.json between the truncation and the write

VARIABLES
  apiKey,      \* the api_keys rows
  config,      \* config.json
  withdrawnKeys,  \* keys that ended otherwise than by a rotation that saves the new
                  \* key, or before they were saved themselves
  clobbered    \* a save met another save, or a rotation was cut before it saved

cliVars == <<apiKey, config, withdrawnKeys, clobbered>>

KeyRow == [site : Sites, state : {"live", "revoked", "expired"}]
\* byHand is not in the file: config set has written the key or the workspace
Config == [site : Sites \cup {None}, key : KeyIds \cup {None}, session : BOOLEAN,
           byHand : BOOLEAN]
NoConfig == [site |-> None, key |-> None, session |-> FALSE, byHand |-> FALSE]

Commands == {"create", "rotate", "login", "logout", "set"}
Command ==
  [command : Commands,
   step    : {"request", "revoke", "load", "truncate", "write"},
   site    : Sites \cup {None},      \* --workspace, or that of the config
   old     : KeyIds \cup {None},     \* the key rotate is to revoke
   key     : KeyIds \cup {None},     \* the key made, or given to config set
   use     : BOOLEAN,                \* --use-key
   loaded  : Config]                 \* what load_config returned before the save

ASSUME CliAssumption == None \notin KeyIds \cup KeyRow \cup Command

CliTypeOK ==
  /\ apiKey \in [KeyIds -> KeyRow \cup {None}]
  /\ config \in Config \cup {TornFile}
  /\ withdrawnKeys \subseteq KeyIds
  /\ clobbered \in BOOLEAN

CliInit ==
  /\ apiKey = [k \in KeyIds |-> None]
  /\ config = NoConfig
  /\ withdrawnKeys = {}
  /\ clobbered = FALSE

Made == {k \in KeyIds : apiKey[k] # None}
LiveKey(k) == k # None /\ apiKey[k] # None /\ apiKey[k].state = "live"

\* requireApiKey, and the match of the key's workspace with the path of a request
Accepted(k, s) == LiveKey(k) /\ apiKey[k].site = s

-----------------------------------------------------------------------------
(* main: a config that does not parse ends every command                    *)

Start(h, command, step, s) ==
  /\ config # TornFile
  /\ Begin(h, [command |-> command, step |-> step, site |-> s, old |-> None,
               key |-> None, use |-> FALSE, loaded |-> NoConfig])
  /\ UNCHANGED cliVars

Login(h) == Start(h, "login", "request", None)
Logout(h) == Start(h, "logout", "load", None)

SetConfig(h, s, k) ==
  /\ s # None \/ k # None
  /\ config # TornFile
  /\ Begin(h, [command |-> "set", step |-> "load", site |-> s, old |-> None,
               key |-> k, use |-> FALSE, loaded |-> NoConfig])
  /\ UNCHANGED cliVars

\* api-keys create and rotate need a session; s is --workspace or the configured one
KeyCommand(h, s, old, use) ==
  /\ config # TornFile /\ config.session
  /\ Begin(h, [command |-> IF old = None THEN "create" ELSE "rotate", step |-> "request",
               site |-> s, old |-> old, key |-> None, use |-> use, loaded |-> NoConfig])
  /\ UNCHANGED cliVars

LoggedIn(h) ==
  /\ At(h, "request") /\ work[h].command = "login"
  /\ Continue(h, [work[h] EXCEPT !.step = "load"])
  /\ UNCHANGED cliVars

AfterKey(t) == IF t.use THEN "load" ELSE "done"

\* a key that is not to be saved is printed, and that is the end
GoOn(h, t) == IF t.step = "done" THEN Finish(h) ELSE Continue(h, t)

CreateKey(h, k) ==
  LET t == work[h]
  IN  /\ At(h, "request") /\ t.command \in {"create", "rotate"}
      /\ apiKey[k] = None
      /\ apiKey' = [apiKey EXCEPT ![k] = [site |-> t.site, state |-> "live"]]
      /\ GoOn(h, [t EXCEPT !.key = k,
                           !.step = IF t.old # None THEN "revoke" ELSE AfterKey(t)])
      /\ UNCHANGED <<config, withdrawnKeys, clobbered>>

\* DELETE finds the key unrevoked in the workspace; an expired key may be revoked
RevokesIn(k, s) == apiKey[k] # None /\ apiKey[k].site = s /\ apiKey[k].state # "revoked"

RevokeOld(h) ==
  LET t == work[h]
  IN  /\ At(h, "revoke")
      /\ RevokesIn(t.old, t.site)
      /\ apiKey' = [apiKey EXCEPT ![t.old].state = "revoked"]
      /\ withdrawnKeys' = IF t.use /\ ~\E o \in Handlers : work[o] # None /\ work[o].key = t.old
                            THEN withdrawnKeys
                            ELSE withdrawnKeys \cup {t.old}
      /\ GoOn(h, [t EXCEPT !.step = AfterKey(t)])
      /\ UNCHANGED <<config, clobbered>>

\* the API answers 401, 403 or 404: of a rotation whose old key cannot be revoked,
\* the new key is neither printed nor saved, and stays live
Refused(h) ==
  /\ At(h, "request") \/ At(h, "revoke")
  /\ Finish(h)
  /\ UNCHANGED cliVars

\* api-keys revoke, here or in the dashboard, and the end of a key's time
RevokeKey(k) ==
  /\ apiKey[k] # None /\ apiKey[k].state # "revoked"
  /\ apiKey' = [apiKey EXCEPT ![k].state = "revoked"]
  /\ withdrawnKeys' = withdrawnKeys \cup {k}
  /\ UNCHANGED <<work, config, clobbered>>
ExpireKey(k) ==
  /\ LiveKey(k)
  /\ apiKey' = [apiKey EXCEPT ![k].state = "expired"]
  /\ withdrawnKeys' = withdrawnKeys \cup {k}
  /\ UNCHANGED <<work, config, clobbered>>

-----------------------------------------------------------------------------
(* load_config, the change, save_config                                     *)

LoadConfig(h) ==
  /\ At(h, "load")
  /\ IF config = TornFile
       THEN Finish(h) /\ clobbered' = (clobbered \/ work[h].command = "rotate")
       ELSE Continue(h, [work[h] EXCEPT !.step = "truncate", !.loaded = config])
            /\ UNCHANGED clobbered
  /\ UNCHANGED <<apiKey, config, withdrawnKeys>>

\* mutant: the key is saved, and the workspace it belongs to is not
KeySavedAlone(t) == [t.loaded EXCEPT !.key = t.key, !.byHand = FALSE]

\* save_active_api_key
ActiveKeySaved(t) == [t.loaded EXCEPT !.site = t.site, !.key = t.key, !.byHand = FALSE]

Given(new, old) == IF new = None THEN old ELSE new

\* what each command changes of the config it loaded
Changed(t) ==
  CASE t.command = "login" -> [t.loaded EXCEPT !.session = TRUE]
    [] t.command = "logout" -> [t.loaded EXCEPT !.session = FALSE]
    [] t.command = "set" ->
         [t.loaded EXCEPT !.site = Given(t.site, @), !.key = Given(t.key, @), !.byHand = TRUE]
    [] OTHER -> ActiveKeySaved(t)

\* fs::write empties the file, then fills it
TruncateConfig(h) ==
  /\ At(h, "truncate")
  /\ config' = TornFile
  /\ clobbered' = (clobbered \/ OthersAt(h, "truncate") \cup OthersAt(h, "write") # {})
  /\ Continue(h, [work[h] EXCEPT !.step = "write"])
  /\ UNCHANGED <<apiKey, withdrawnKeys>>

WriteConfig(h) ==
  /\ At(h, "write")
  /\ config' = Changed(work[h])
  /\ Finish(h)
  /\ UNCHANGED <<apiKey, withdrawnKeys, clobbered>>

\* the command is killed, or a call of it fails
CutCommand(h) ==
  /\ Cut(h)
  /\ clobbered' = (clobbered \/ (work[h].command = "rotate" /\ work[h].use
                                 /\ work[h].step \in {"load", "truncate", "write"}))
  /\ UNCHANGED <<apiKey, config, withdrawnKeys>>

\* the user removes a config.json that no command can read
RemoveConfig ==
  /\ config = TornFile
  /\ config' = NoConfig
  /\ UNCHANGED <<work, apiKey, withdrawnKeys, clobbered>>

-----------------------------------------------------------------------------
CliNext ==
  \/ \E h \in Handlers :
       \/ Login(h) \/ Logout(h) \/ LoggedIn(h)
       \/ \E s \in Sites \cup {None}, k \in Made \cup {None} : SetConfig(h, s, k)
       \/ \E s \in Sites, old \in Made \cup {None}, use \in BOOLEAN : KeyCommand(h, s, old, use)
       \/ \E k \in KeyIds : CreateKey(h, k)
       \/ RevokeOld(h)
       \/ Refused(h)
       \/ LoadConfig(h) \/ TruncateConfig(h) \/ WriteConfig(h)
       \/ CutCommand(h)
  \/ \E k \in KeyIds : RevokeKey(k) \/ ExpireKey(k)
  \/ RemoveConfig

-----------------------------------------------------------------------------
\* The key that --use-key saved is good for the workspace saved with it, through
\* any logins, logouts, rotations and cuts, until the user sets one of them by hand
\* or ends the key.  Only a rotation that has revoked it and is about to save the
\* new key, was cut there, or met another save, leaves a revoked key behind.
Rotating(k) ==
  \E h \in Handlers :
    work[h] # None /\ work[h].old = k /\ work[h].use
    /\ work[h].step \in {"load", "truncate", "write"}

SavedKeyWorks ==
  (config # TornFile /\ config.key # None /\ ~config.byHand) =>
    /\ apiKey[config.key].site = config.site
    /\ \/ Accepted(config.key, config.site)
       \/ config.key \in withdrawnKeys
       \/ Rotating(config.key)
       \/ clobbered
=============================================================================
