------------------------ MODULE DeviceAuthentication ------------------------
(***************************************************************************)
(* Authentication of signed device requests:                               *)
(* backend/app/services/device_authentication.py.                          *)
(*                                                                         *)
(* The credential is read and the timestamp compared with the clock; then  *)
(* the clock is read again, expired nonces are deleted and the nonce of    *)
(* the request inserted, in one transaction that commits before the        *)
(* handler begins.  Time passes and other requests run in between.  The    *)
(* signature and the digests identify what they cover: a request arrives   *)
(* as it was sent, any number of times.                                    *)
(***************************************************************************)
EXTENDS RequestThreads

CONSTANTS
  Devices,       \* devices named in requests
  Credentials,   \* credentials of the devices
  OwnerOf,       \* the device a credential was issued to
  Registered,    \* devices with a row in the devices table
  LegacyDevices, \* devices eligible for requests without a credential
  EnrollmentMode, \* "legacy", "new_devices_required" or "all_required"
  NoCredential,  \* the request has no Authorization header
  FreshNonce,    \* stands for a nonce no other request has
  ClockSkew,     \* DEVICE_AUTH_CLOCK_SKEW_SECONDS
  NonceTtl       \* DEVICE_AUTH_NONCE_TTL_SECONDS

ASSUME AuthenticationAssumption ==
  /\ OwnerOf \in [Credentials -> Devices]
  /\ NoCredential \notin Credentials
  /\ Registered \subseteq Devices
  /\ ClockSkew \in Nat
  /\ NonceTtl \in Nat
  /\ NonceTtl >= 2 * ClockSkew

VARIABLES
  now,              \* the clock of the server
  credentialStatus, \* credentialStatus[c]: "active" or "revoked"
  deviceStatus,     \* deviceStatus[d]: "active", or "suspended" or "retired"
  nonces,           \* device_request_nonces
  recordedAt,       \* recordedAt[t]: the time thread t puts on its nonce
  accepted          \* history: the requests authenticated, and when that was committed

authentication == <<now, credentialStatus, deviceStatus, nonces, recordedAt, accepted>>

DeviceOf(t) == request[t].device

\* A status report is inserted before its transaction ends, and the insertion
\* of a row that refers to a device holds FOR KEY SHARE on it, which excludes
\* FOR UPDATE by others and nothing else.
HoldsKeyShare(t, d) ==
  pc[t] \in {"read_state", "store_status"} /\ DeviceOf(t) = d

LockDeviceRow(t, label) ==
  /\ \A u \in Threads \ {t} : ~ HoldsKeyShare(u, DeviceOf(t))
  /\ LockRow(t, <<"device", DeviceOf(t)>>, label)

MayReferTo(t, d) == Free(t, <<"device", d>>)

\* Only the synchronization routes pass allow_legacy.
AllowsLegacy(q) == q.kind = "sync"

AuthenticationInit ==
  /\ now = 0
  /\ credentialStatus = [c \in Credentials |-> "active"]
  /\ deviceStatus = [d \in Devices |-> "active"]
  /\ nonces = {}
  /\ recordedAt = [t \in Threads |-> 0]
  /\ accepted = << >>

Tick ==
  /\ now' = now + 1
  /\ UNCHANGED <<credentialStatus, deviceStatus, nonces, recordedAt, accepted>>

\* An administrator revokes a credential or suspends a device meanwhile.
RevokeCredential(c) ==
  /\ credentialStatus[c] = "active"
  /\ credentialStatus' = [credentialStatus EXCEPT ![c] = "revoked"]
  /\ UNCHANGED <<now, deviceStatus, nonces, recordedAt, accepted>>

\* The row of the device is updated, which waits for its FOR UPDATE holder.
SuspendDevice(d) ==
  /\ deviceStatus[d] = "active"
  /\ lock[<<"device", d>>] = NoThread
  /\ deviceStatus' = [deviceStatus EXCEPT ![d] = "suspended"]
  /\ UNCHANGED <<now, credentialStatus, nonces, recordedAt, accepted>>
-----------------------------------------------------------------------------
\* The absolute difference to the clock is at most the skew.
TimestampInWindow(stamp) == stamp <= now + ClockSkew /\ now <= stamp + ClockSkew

LegacyAccepted(q) ==
  /\ AllowsLegacy(q)
  /\ \/ EnrollmentMode = "legacy"
     \/ /\ EnrollmentMode = "new_devices_required"
        /\ q.credential = NoCredential
        /\ q.device \in Registered \intersect LegacyDevices
        /\ \A c \in Credentials : OwnerOf[c] # q.device

SignatureAccepted(q) ==
  /\ q.credential \in Credentials
  /\ credentialStatus[q.credential] = "active"
  /\ q.device \in Registered
  /\ OwnerOf[q.credential] = q.device
  /\ TimestampInWindow(q.stamp)

\* The checks up to the signature.
Verify(t) ==
  LET q == request[t] IN
  /\ pc[t] = "verify"
  /\ \/ LegacyAccepted(q) /\ Continue(t, "handle")
     \/ /\ ~ LegacyAccepted(q)
        /\ SignatureAccepted(q)
        /\ Continue(t, "stamp")
     \/ /\ ~ LegacyAccepted(q)
        /\ ~ SignatureAccepted(q)
        /\ Finish(t)
  /\ UNCHANGED authentication

\* now = utc_now() for the nonce and for the deletion of expired ones.
StampNonce(t) ==
  /\ pc[t] = "stamp"
  /\ recordedAt' = [recordedAt EXCEPT ![t] = now]
  /\ Continue(t, "record_nonce")
  /\ UNCHANGED <<now, credentialStatus, deviceStatus, nonces, accepted>>

\* Mutant: a nonce is kept for the skew only.
NonceShortlyKept(t) ==
  [credential |-> request[t].credential, nonce |-> request[t].nonce,
   expires |-> recordedAt[t] + ClockSkew]

NonceRow(t) ==
  [credential |-> request[t].credential, nonce |-> request[t].nonce,
   expires |-> recordedAt[t] + NonceTtl]

Unexpired(t) == {n \in nonces : n.expires > recordedAt[t]}

SameNonce(m, n) == m.credential = n.credential /\ m.nonce = n.nonce

\* Deletion, insertion and commit; a nonce that is there already is a replay.
RecordNonce(t) ==
  LET row == NonceRow(t)
      replayed == \E n \in Unexpired(t) : SameNonce(n, row)
  IN
  /\ pc[t] = "record_nonce"
  /\ MayReferTo(t, DeviceOf(t))
  /\ \/ replayed /\ Finish(t) /\ UNCHANGED authentication
     \/ /\ ~ replayed
        /\ nonces' = IF row.nonce = FreshNonce THEN Unexpired(t)
                                               ELSE Unexpired(t) \union {row}
        /\ accepted' = IF row.nonce = FreshNonce THEN accepted
                       ELSE Append(accepted, [request |-> request[t], at |-> now])
        /\ recordedAt' = [recordedAt EXCEPT ![t] = 0]
        /\ Continue(t, "handle")
        /\ UNCHANGED <<now, credentialStatus, deviceStatus>>

\* _active: read anew by the handler, as the commit expired what was loaded.
StillActive(t) ==
  /\ deviceStatus[DeviceOf(t)] = "active"
  /\ credentialStatus[request[t].credential] = "active"
=============================================================================
