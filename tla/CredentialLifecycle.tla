------------------------- MODULE CredentialLifecycle -------------------------
(***************************************************************************)
(* Pairing tokens and device credentials: device_enrollment.py, the        *)
(* authentication that a rotation passes first, and the constraints of     *)
(* models.py that PostgreSQL checks.                                       *)
(*                                                                         *)
(* Enrollment, rotation and revocation run in request threads, each in a   *)
(* READ COMMITTED transaction.  Writes become visible when it commits, so  *)
(* the last statement and the commit are one step.  A row lock is held     *)
(* from the step that takes it to the end of the request: who holds it is  *)
(* read off pc.  A public key is in one credential only, so it stands for  *)
(* the credential; `root' is no column, but the token a credential         *)
(* descends from through rotations.                                        *)
(***************************************************************************)
EXTENDS Naturals, FiniteSets

CONSTANTS
  Devices,     \* device UUIDs
  Keys,        \* public keys, one a credential
  Tokens,      \* pairing tokens
  Threads,     \* request threads
  MaxFailures, \* failed attempts that lock a token
  MaxLapses,   \* how often the count of a wrong proof is lost, a token
  Flaws,       \* what may be wrong with an enrollment, "none" if nothing is
  NoDevice,
  NoKey,
  NoToken

ASSUME CredentialAssumption ==
  /\ MaxFailures \in Nat \ {0}
  /\ MaxLapses \in Nat
  /\ Flaws \subseteq {"none", "secret", "proof"}
  /\ NoDevice \notin Devices
  /\ NoKey \notin Keys
  /\ NoToken \notin Tokens

VARIABLES
  token,      \* table enrollment_tokens
  registered, \* table devices
  credential, \* table device_credentials
  pc,         \* pc[h]: what thread h does next, or its answer
  request,    \* request[h]: what it was asked
  seen,       \* seen[h]: failed_attempts of the token row as h has loaded it
  guesses,    \* history: guesses[t], wrong proofs answered while t was active
  lapses      \* history: lapses[t], those of them whose count was not committed

thread == <<pc, request, seen>>
history == <<guesses, lapses>>
vars == <<token, registered, credential, thread, history>>
-----------------------------------------------------------------------------
DeviceOrNone == Devices \union {NoDevice}

TokenRows ==
  [status : {"unissued", "active", "consumed", "revoked", "expired", "locked"},
   bound : DeviceOrNone, failed : 0 .. MaxFailures, overdue : BOOLEAN]

CredentialRows ==
  [status : {"none", "active", "revoked", "superseded"}, device : DeviceOrNone,
   token : Tokens \union {NoToken}, root : Tokens \union {NoToken},
   successor : Keys \union {NoKey}]

Enrollments ==
  [kind : {"enroll"}, token : Tokens, device : Devices, key : Keys,
   flaw : Flaws]

Rotations == [kind : {"rotate"}, current : Keys, key : Keys]

Revocations == [kind : {"revoke"}, device : Devices, current : Keys \union {NoKey}]

NoRequest == [kind |-> "none"]

Answers == {"created", "rotated", "revoked", "failed", "conflict", "not_found", "error"}

NoCredential ==
  [status |-> "none", device |-> NoDevice, token |-> NoToken, root |-> NoToken, successor |-> NoKey]

\* The row an enrollment inserts.
Enrolled(r) ==
  [status |-> "active", device |-> r.device, token |-> r.token, root |-> r.token,
   successor |-> NoKey]

ActiveKeys(d) == {k \in Keys : credential[k].status = "active" /\ credential[k].device = d}

\* uq_device_credentials_public_key_fingerprint
KeyUsed(k) == credential[k].status # "none"

\* The rows that are locked FOR UPDATE, or by an UPDATE not yet committed.
TokenLocked(t) == \E h \in Threads : pc[h] \in {"device", "store"} /\ request[h].token = t

\* An enrollment locks the device row if there is one: if its token is bound.
DeviceLocked(d) ==
  \E h \in Threads :
    pc[h] = "store" /\ request[h].device = d /\ token[request[h].token].bound = d

KeyLocked(k) == \E h \in Threads : pc[h] = "replace" /\ request[h].current = k

Init ==
  /\ token = [t \in Tokens |->
       [status |-> "unissued", bound |-> NoDevice, failed |-> 0, overdue |-> FALSE]]
  /\ registered = {}
  /\ credential = [k \in Keys |-> NoCredential]
  /\ pc = [h \in Threads |-> "idle"]
  /\ request = [h \in Threads |-> NoRequest]
  /\ seen = [h \in Threads |-> 0]
  /\ guesses = [t \in Tokens |-> 0]
  /\ lapses = [t \in Tokens |-> 0]
-----------------------------------------------------------------------------
Goes(h, label) == pc' = [pc EXCEPT ![h] = label]

\* issue_enrollment_token: a token may be bound to a device there is.
IssueToken(t, d) ==
  /\ token[t].status = "unissued"
  /\ d \in registered \union {NoDevice}
  /\ token' = [token EXCEPT ![t].status = "active", ![t].bound = d]
  /\ UNCHANGED <<registered, credential, thread, history>>

\* revoke_enrollment_token waits for the row and wants an active token.
RevokeToken(t) ==
  /\ ~ TokenLocked(t)
  /\ token[t].status = "active"
  /\ token' = [token EXCEPT ![t].status = "revoked"]
  /\ UNCHANGED <<registered, credential, thread, history>>

\* expires_at of an issued token passes.
TimePasses(t) ==
  /\ token[t].status = "active"
  /\ ~ token[t].overdue
  /\ token' = [token EXCEPT ![t].overdue = TRUE]
  /\ UNCHANGED <<registered, credential, thread, history>>

Arrive(h, r, label) ==
  /\ pc[h] = "idle"
  /\ request' = [request EXCEPT ![h] = r]
  /\ Goes(h, label)
  /\ UNCHANGED <<token, registered, credential, seen, history>>

\* A request that ends without a write: its transaction is rolled back.
Refuse(h, answer) ==
  /\ Goes(h, answer)
  /\ UNCHANGED <<token, registered, credential, request, seen, history>>

\* Mutant: the failures are counted without a limit.
CountFailureUncapped(h) ==
  LET t == request[h].token IN
  /\ token' = [token EXCEPT ![t].failed = seen[h] + 1]
  /\ guesses' = [guesses EXCEPT ![t] = @ + 1]
  /\ Goes(h, "failed")
  /\ UNCHANGED <<registered, credential, request, seen, lapses>>

\* _record_failed_enrollment: one more failed attempt on the row as loaded; the
\* last of them locks the token.
CountFailure(h) ==
  LET t == request[h].token
      failed == IF seen[h] < MaxFailures THEN seen[h] + 1 ELSE MaxFailures
  IN  /\ token' = [token EXCEPT ![t].failed = failed,
                     ![t].status = IF failed >= MaxFailures THEN "locked" ELSE @]
      /\ guesses' = [guesses EXCEPT ![t] = @ + 1]
      /\ Goes(h, "failed")
      /\ UNCHANGED <<registered, credential, request, seen, lapses>>

\* The commit of the count fails: it is rolled back, the error is swallowed, and
\* the wrong proof is answered as any other.
CountLost(h) ==
  LET t == request[h].token IN
  /\ lapses[t] < MaxLapses
  /\ guesses' = [guesses EXCEPT ![t] = @ + 1]
  /\ lapses' = [lapses EXCEPT ![t] = @ + 1]
  /\ Goes(h, "failed")
  /\ UNCHANGED <<token, registered, credential, request, seen>>

RecordFailure(h) == CountFailure(h) \/ CountLost(h)
-----------------------------------------------------------------------------
\* Mutant: the row is read without a lock.
LoadTokenUnlocked(h) ==
  /\ pc[h] = "token"
  /\ seen' = [seen EXCEPT ![h] = token[request[h].token].failed]
  /\ Goes(h, IF token[request[h].token].status = "active" THEN "device" ELSE "failed")
  /\ UNCHANGED <<token, registered, credential, request, history>>

\* enroll_device: the token row is locked; an inactive or an overdue token ends
\* the request, and the commit that marks it expired may be lost.
LoadToken(h) ==
  LET t == request[h].token IN
  /\ pc[h] = "token"
  /\ ~ TokenLocked(t)
  /\ seen' = [seen EXCEPT ![h] = token[t].failed]
  /\ \/ /\ token[t].status # "active"
        /\ Goes(h, "failed")
        /\ UNCHANGED token
     \/ /\ token[t].status = "active" /\ token[t].overdue
        /\ Goes(h, "failed")
        /\ \/ token' = [token EXCEPT ![t].status = "expired"]
           \/ UNCHANGED token
     \/ /\ token[t].status = "active" /\ ~ token[t].overdue
        /\ Goes(h, "device")
        /\ UNCHANGED token
  /\ UNCHANGED <<registered, credential, request, history>>

\* The device row is locked if it exists.  What is wrong is found in this order:
\* the secret, the binding, a device that is there already, an active
\* credential, the proof of possession.  An API level below the one on record is
\* counted as a wrong proof is, and is one here.
LoadDevice(h) ==
  LET r == request[h]
      bound == token[r.token].bound
  IN  /\ pc[h] = "device"
      /\ IF r.flaw = "secret" THEN RecordFailure(h)
         ELSE /\ ~ DeviceLocked(r.device)
              /\ IF bound \notin {NoDevice, r.device} THEN RecordFailure(h)
                 ELSE IF bound = NoDevice /\ r.device \in registered THEN Refuse(h, "conflict")
                 ELSE IF ActiveKeys(r.device) # {} THEN Refuse(h, "conflict")
                 ELSE IF r.flaw = "proof" THEN RecordFailure(h)
                 ELSE Refuse(h, "store")

\* Mutant: the token is not consumed.
StoreCredentialOnly(h) ==
  LET r == request[h] IN
  /\ pc[h] = "store"
  /\ ~ KeyUsed(r.key) /\ ActiveKeys(r.device) = {}
  /\ registered' = registered \union {r.device}
  /\ credential' = [credential EXCEPT ![r.key] = Enrolled(r)]
  /\ Goes(h, "created")
  /\ UNCHANGED <<token, request, seen, history>>

\* The device, the credential and the consumed token are stored, unless the
\* device or the key has been stored by another enrollment meanwhile.
StoreEnrollment(h) ==
  LET r == request[h]
      new == token[r.token].bound = NoDevice
  IN  /\ pc[h] = "store"
      /\ IF KeyUsed(r.key) \/ ActiveKeys(r.device) # {} \/ (new /\ r.device \in registered)
         THEN Refuse(h, "error")
         ELSE /\ registered' = registered \union {r.device}
              /\ credential' = [credential EXCEPT ![r.key] = Enrolled(r)]
              /\ token' = [token EXCEPT ![r.token].status = "consumed"]
              /\ Goes(h, "created")
              /\ UNCHANGED <<request, seen, history>>
-----------------------------------------------------------------------------
\* A request to rotate is authenticated with its credential, in a transaction
\* of its own.
Authenticate(h) ==
  /\ pc[h] = "authenticate"
  /\ Refuse(h, IF credential[request[h].current].status = "active" THEN "supersede" ELSE "failed")

\* Mutant: ck_device_credentials_lifecycle is not there.
SupersedeAny(h) ==
  /\ pc[h] = "supersede"
  /\ ~ KeyLocked(request[h].current)
  /\ Refuse(h, "replace")

\* rotate_device_credential updates the row without looking at its status; a
\* revoked row with a supersession breaks ck_device_credentials_lifecycle.
Supersede(h) ==
  /\ pc[h] = "supersede"
  /\ ~ KeyLocked(request[h].current)
  /\ Refuse(h, IF credential[request[h].current].status = "revoked" THEN "error" ELSE "replace")

Rotated(r) ==
  [credential EXCEPT
     ![r.current].status = "superseded", ![r.current].successor = r.key,
     ![r.key] = [status |-> "active", device |-> credential[r.current].device,
                 token |-> NoToken, root |-> credential[r.current].root,
                 successor |-> NoKey]]

\* Mutant: uq_device_credentials_active_device is not there.
ReplaceAny(h) ==
  LET r == request[h] IN
  /\ pc[h] = "replace"
  /\ ~ KeyUsed(r.key)
  /\ credential' = Rotated(r)
  /\ Goes(h, "rotated")
  /\ UNCHANGED <<token, registered, request, seen, history>>

\* Mutant: it waits for the other active credential to go away.
ReplaceWaiting(h) ==
  LET r == request[h] IN
  /\ pc[h] = "replace"
  /\ ActiveKeys(credential[r.current].device) \ {r.current} = {}
  /\ ReplaceAny(h)

\* The replacement is inserted; its foreign key waits for the device row, and
\* uq_device_credentials_active_device allows no second active credential.
Replace(h) ==
  LET r == request[h]
      d == credential[r.current].device
  IN  /\ pc[h] = "replace"
      /\ ~ DeviceLocked(d)
      /\ IF KeyUsed(r.key) \/ ActiveKeys(d) \ {r.current} # {}
         THEN Refuse(h, "error")
         ELSE /\ credential' = Rotated(r)
              /\ Goes(h, "rotated")
              /\ UNCHANGED <<token, registered, request, seen, history>>
-----------------------------------------------------------------------------
\* revoke_device_credential: the statement finds the active credential in its
\* snapshot ...
SelectActive(h) ==
  LET active == ActiveKeys(request[h].device) IN
  /\ pc[h] = "select"
  /\ \/ active = {} /\ Refuse(h, "not_found")
     \/ \E k \in active :
          /\ request' = [request EXCEPT ![h].current = k]
          /\ Goes(h, "revoke")
          /\ UNCHANGED <<token, registered, credential, seen, history>>

\* ... waits for its row and the row of the device, and drops a row that no
\* longer satisfies the condition.
RevokeCredential(h) ==
  LET k == request[h].current IN
  /\ pc[h] = "revoke"
  /\ ~ KeyLocked(k)
  /\ ~ DeviceLocked(request[h].device)
  /\ IF credential[k].status = "active"
     THEN /\ credential' = [credential EXCEPT ![k].status = "revoked"]
          /\ Goes(h, "revoked")
          /\ UNCHANGED <<token, registered, request, seen, history>>
     ELSE Refuse(h, "not_found")
-----------------------------------------------------------------------------
\* The database fails before anything is counted or stored, or the worker is
\* killed: the transaction is rolled back.
Abort(h) == pc[h] \notin {"idle"} \union Answers /\ Refuse(h, "error")

Answer(h) ==
  /\ pc[h] \in Answers
  /\ Goes(h, "idle")
  /\ request' = [request EXCEPT ![h] = NoRequest]
  /\ seen' = [seen EXCEPT ![h] = 0]
  /\ UNCHANGED <<token, registered, credential, history>>

Run(h) ==
  \/ LoadToken(h) \/ LoadDevice(h) \/ StoreEnrollment(h)
  \/ Authenticate(h) \/ Supersede(h) \/ Replace(h)
  \/ SelectActive(h) \/ RevokeCredential(h)
  \/ Answer(h)

Administer ==
  \E t \in Tokens :
    RevokeToken(t) \/ TimePasses(t) \/ \E d \in DeviceOrNone : IssueToken(t, d)

Receive(h) ==
  \/ \E r \in Enrollments : Arrive(h, r, "token")
  \/ \E r \in Rotations : Arrive(h, r, "authenticate")
  \/ \E d \in Devices :
       Arrive(h, [kind |-> "revoke", device |-> d, current |-> NoKey], "select")

Next == Administer \/ \E h \in Threads : Receive(h) \/ Run(h) \/ Abort(h)

Spec == Init /\ [][Next]_vars

\* A thread that can go on does; PostgreSQL serves those that wait for a row in
\* their order.
FairSpec == Spec /\ \A h \in Threads : SF_vars(Run(h))
-----------------------------------------------------------------------------
TypeOK ==
  /\ token \in [Tokens -> TokenRows]
  /\ registered \in SUBSET Devices
  /\ credential \in [Keys -> CredentialRows]
  /\ pc \in [Threads -> {"idle", "token", "device", "store", "authenticate", "supersede",
                         "replace", "select", "revoke"} \union Answers]
  /\ request \in [Threads -> Enrollments \union Rotations \union Revocations \union {NoRequest}]
  /\ seen \in [Threads -> 0 .. MaxFailures]
  /\ guesses \in [Tokens -> Nat]
  /\ lapses \in [Tokens -> 0 .. MaxLapses]
  /\ \A h \in Threads : pc[h] = "idle" <=> request[h] = NoRequest

\* However enrollments, recoveries and rotations race, a device has one active
\* credential at most.
OneActiveCredential == \A d \in Devices : \A j, k \in ActiveKeys(d) : j = k

\* A pairing token enrolls one credential, of the device it is bound to, and it
\* does so by being consumed: a token that expired, was revoked or locked never
\* comes to a credential, and no retry uses one twice.
TokenSingleUse ==
  \A t \in Tokens :
    LET enrolled == {k \in Keys : credential[k].token = t} IN
    /\ enrolled # {} <=> token[t].status = "consumed"
    /\ \A k \in enrolled : token[t].bound \in {NoDevice, credential[k].device}
    /\ \A j, k \in enrolled : j = k

\* A token stands MaxFailures wrong proofs and as many more as failed to be
\* committed: no interleaving of enrollments loses another.
GuessesBounded == \A t \in Tokens : guesses[t] <= MaxFailures + lapses[t]

\* A revoked credential is never active again and is never rotated, not even by
\* a request that was authenticated before it was revoked.
RevokedIsFinal ==
  [][\A k \in Keys : credential[k].status = "revoked" => credential'[k] = credential[k]]_vars

\* Every request is answered: nobody waits for a row for ever.
RequestAnswered == \A h \in Threads : pc[h] # "idle" ~> pc[h] = "idle"

\* Claimed: revocation is immediate.  Once a credential is revoked, none that
\* was rotated from the same enrollment is active.
RevokedStaysOut ==
  \A j, k \in Keys :
    credential[j].status = "revoked" /\ credential[j].root = credential[k].root
      => credential[k].status # "active"
=============================================================================
