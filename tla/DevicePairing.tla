---------------------------- MODULE DevicePairing ----------------------------
(***************************************************************************)
(* How the key of a desktop becomes a device: the pairing code that the    *)
(* desktop shows and a member approves, and the devices that a signed-in   *)
(* user mints directly.                                                    *)
(***************************************************************************)
EXTENDS ApiRequests

CONSTANTS
  Codes,       \* pairing codes
  DeviceKeys,  \* public keys
  Devices,     \* ids of device rows
  Members      \* users who may approve, mint and revoke

VARIABLES
  attempt,   \* device_pairing_attempts, by code
  device     \* devices

pairingVars == <<attempt, device>>

\* approved_at, consumed_at, device_id and user_id are written together; no
\* handler writes denied_at
Attempt == [key : DeviceKeys, device : Devices \cup {None}, expired : BOOLEAN]
DeviceRow == [key : DeviceKeys, user : Members, revoked : BOOLEAN]
PairingTask ==
  [step : {"pair", "mint", "revoke device"},
   user : Members,
   key  : DeviceKeys,
   code : Codes \cup {None},
   device : Devices \cup {None}]

ASSUME PairingAssumption == None \notin Devices \cup Attempt \cup DeviceRow

PairingTypeOK ==
  /\ attempt \in [Codes -> Attempt \cup {None}]
  /\ device \in [Devices -> DeviceRow \cup {None}]

PairingInit ==
  /\ attempt = [c \in Codes |-> None]
  /\ device = [d \in Devices |-> None]

\* resolvePairingState
PairingState(a) ==
  CASE a.device # None                 -> "approved"
    [] a.device = None /\ a.expired    -> "expired"
    [] OTHER                           -> "pending"

FreeDevices == {d \in Devices : device[d] = None}
KeysInUse == {device[d].key : d \in Devices \ FreeDevices}

PairingStep(step, u, k, c, d) ==
  [step |-> step, user |-> u, key |-> k, code |-> c, device |-> d]

-----------------------------------------------------------------------------
Initiate(c, k) ==
  /\ attempt[c] = None
  /\ attempt' = [attempt EXCEPT ![c] = [key |-> k, device |-> None, expired |-> FALSE]]
  /\ UNCHANGED <<work, device>>

CodeExpires(c) ==
  /\ attempt[c] # None
  /\ ~attempt[c].expired
  /\ attempt' = [attempt EXCEPT ![c].expired = TRUE]
  /\ UNCHANGED <<work, device>>

ApprovePairing(h, u, c) ==
  /\ attempt[c] # None
  /\ PairingState(attempt[c]) = "pending"
  /\ Begin(h, PairingStep("pair", u, attempt[c].key, c, None))
  /\ UNCHANGED pairingVars

NewDevice == CHOOSE d \in FreeDevices : TRUE
InsertDevice(h) ==
  /\ FreeDevices # {}
  /\ device' = [device EXCEPT ![NewDevice] =
                  [key |-> work[h].key, user |-> work[h].user, revoked |-> FALSE]]

\* mutant: keys are not unique
PairAnyKey(h) ==
  /\ At(h, "pair")
  /\ InsertDevice(h)
  /\ attempt' = [attempt EXCEPT ![work[h].code].device = NewDevice]
  /\ Finish(h)

\* one transaction; the unique index on public keys rolls it back when the key
\* belongs to a device already, revoked or not
PairDevice(h) ==
  /\ At(h, "pair")
  /\ Finish(h)
  /\ \/ work[h].key \in KeysInUse /\ UNCHANGED pairingVars
     \/ /\ work[h].key \notin KeysInUse
        /\ InsertDevice(h)
        /\ attempt' = [attempt EXCEPT ![work[h].code].device = NewDevice]

\* the password or the session is checked before the device is inserted
RequestMint(h, u, k) ==
  /\ Begin(h, PairingStep("mint", u, k, None, None))
  /\ UNCHANGED pairingVars

MintDevice(h) ==
  /\ At(h, "mint")
  /\ Finish(h)
  /\ IF work[h].key \in KeysInUse THEN UNCHANGED device ELSE InsertDevice(h)
  /\ UNCHANGED attempt

\* by an administrator, or from another device of its user
RequestRevocation(h, d) ==
  /\ device[d] # None
  /\ ~device[d].revoked
  /\ Begin(h, PairingStep("revoke device", device[d].user, device[d].key, None, d))
  /\ UNCHANGED pairingVars

RevokeDevice(h) ==
  /\ At(h, "revoke device")
  /\ device' = [device EXCEPT ![work[h].device].revoked = TRUE]
  /\ Finish(h)
  /\ UNCHANGED attempt

-----------------------------------------------------------------------------
PairingHandler(h) ==
  \/ \E u \in Members : \/ \E c \in Codes : ApprovePairing(h, u, c)
                        \/ \E k \in DeviceKeys : RequestMint(h, u, k)
  \/ \E d \in Devices : RequestRevocation(h, d)
  \/ PairDevice(h) \/ MintDevice(h) \/ RevokeDevice(h)
  \/ Cut(h) /\ UNCHANGED pairingVars

PairingNext ==
  \/ \E h \in Handlers : PairingHandler(h)
  \/ \E c \in Codes : CodeExpires(c) \/ \E k \in DeviceKeys : Initiate(c, k)

-----------------------------------------------------------------------------
\* What the desktop polls is final: once a code is answered "approved" it stays
\* so, and names the same device, however many members approve it at once and
\* also after the code has expired; the device holds the key the desktop showed,
\* for the same member, and once it is revoked no device with that key is usable.
PairingFinal ==
  [][\A c \in Codes :
       attempt[c] # None /\ PairingState(attempt[c]) = "approved" =>
         LET d == attempt[c].device
         IN  /\ PairingState(attempt'[c]) = "approved"
             /\ attempt'[c].device = d
             /\ device'[d] = [device[d] EXCEPT !.revoked = device'[d].revoked]
             /\ device'[d].key = attempt[c].key
             /\ device[d].revoked =>
                  \A o \in Devices : device'[o] # None /\ device'[o].key = attempt[c].key
                                       => device'[o].revoked]_pairingVars
=============================================================================
