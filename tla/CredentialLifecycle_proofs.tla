---------------------- MODULE CredentialLifecycle_proofs ----------------------
(***************************************************************************)
(* Proofs about CredentialLifecycle, for any devices, keys, tokens and     *)
(* threads.                                                                *)
(*                                                                         *)
(* What is stored last rests on what was read first, so the inductive      *)
(* invariant says what a row lock preserves: TokenHeld for the token an    *)
(* enrollment has loaded, RotationHeld for the credential a rotation has   *)
(* updated.  One active credential needs no lock, only the unique index.   *)
(***************************************************************************)
EXTENDS CredentialLifecycle, TLAPS

\* A thread works on the kind of request that its step is made for.
Shape ==
  \A h \in Threads :
    /\ pc[h] \in {"token", "device", "store"} => request[h] \in Enrollments
    /\ pc[h] \in {"authenticate", "supersede", "replace"} => request[h] \in Rotations
    /\ pc[h] \in {"select", "revoke"} => request[h] \in Revocations
    /\ pc[h] = "revoke" => request[h].current \in Keys

\* The token an enrollment has loaded is active, bound as it was found, counts
\* the failures it counted then, and is loaded by nobody else.
TokenHeld ==
  \A h \in Threads :
    pc[h] \in {"device", "store"} =>
      /\ token[request[h].token].status = "active"
      /\ token[request[h].token].failed = seen[h]
      /\ pc[h] = "store" =>
           token[request[h].token].bound \in {NoDevice, request[h].device}
      /\ \A g \in Threads :
           pc[g] \in {"device", "store"} /\ request[g].token = request[h].token => g = h

\* Every wrong proof whose count was committed is in the row, and the last one has
\* locked it.
Counted ==
  \A t \in Tokens :
    /\ guesses[t] = token[t].failed + lapses[t]
    /\ token[t].status \in {"unissued", "active"} => token[t].failed < MaxFailures

\* A rotation that has updated the row of its credential keeps it from being
\* revoked.
RotationHeld ==
  \A h \in Threads :
    pc[h] = "replace" => credential[request[h].current].status # "revoked"

\* A key that is in no credential has left no trace.
UnusedBlank ==
  \A k \in Keys : credential[k].status = "none" => credential[k].token = NoToken

IInv ==
  /\ TypeOK /\ Shape /\ TokenHeld /\ Counted /\ RotationHeld /\ UnusedBlank
  /\ OneActiveCredential /\ TokenSingleUse
-----------------------------------------------------------------------------
\* The requests of different kinds differ, and none is the empty one.
LEMMA Kinds ==
  /\ NoRequest \notin Enrollments \union Rotations \union Revocations
  /\ Enrollments \intersect Rotations = {}
  /\ Enrollments \intersect Revocations = {}
  /\ Rotations \intersect Revocations = {}
<1>1. \A r \in Enrollments : r.kind = "enroll"
  BY DEF Enrollments
<1>2. \A r \in Rotations : r.kind = "rotate"
  BY DEF Rotations
<1>3. \A r \in Revocations : r.kind = "revoke"
  BY DEF Revocations
<1>4. NoRequest.kind = "none"
  BY DEF NoRequest
<1>. QED BY <1>1, <1>2, <1>3, <1>4

\* The initial state satisfies the inductive invariant.
LEMMA InitIInv == Init => IInv
<1>. SUFFICES ASSUME Init PROVE IInv
  OBVIOUS
<1>1. TypeOK
  BY CredentialAssumption
     DEF Init, TypeOK, TokenRows, CredentialRows, NoCredential, DeviceOrNone, Answers, NoRequest
<1>2. Shape /\ TokenHeld /\ RotationHeld
  BY DEF Init, Shape, TokenHeld, RotationHeld
<1>3. Counted
  BY CredentialAssumption DEF Init, Counted
<1>4. UnusedBlank /\ OneActiveCredential
  BY DEF Init, UnusedBlank, OneActiveCredential, ActiveKeys, NoCredential
<1>5. TokenSingleUse
  BY CredentialAssumption DEF Init, TokenSingleUse, NoCredential
<1>. QED BY <1>1, <1>2, <1>3, <1>4, <1>5 DEF IInv

\* What refers to the rows only is kept by a step that leaves them alone.
LEMMA RowsUnchanged ==
  ASSUME IInv, UNCHANGED <<token, registered, credential, history>>
  PROVE  Counted' /\ UnusedBlank' /\ OneActiveCredential' /\ TokenSingleUse'
<1>1. Counted'
  BY DEF IInv, Counted, history
<1>2. UnusedBlank' /\ OneActiveCredential'
  BY DEF IInv, UnusedBlank, OneActiveCredential, ActiveKeys
<1>3. TokenSingleUse'
  BY DEF IInv, TokenSingleUse
<1>. QED BY <1>1, <1>2, <1>3

\* Refusing a request, or letting it pass a check, keeps the invariant.
LEMMA RefuseKeeps ==
  ASSUME IInv, NEW h \in Threads, NEW label, Refuse(h, label), pc[h] # "idle",
         \/ label \in Answers
         \/ /\ label = "store" /\ pc[h] = "device"
            /\ token[request[h].token].bound \in {NoDevice, request[h].device}
         \/ label = "supersede" /\ pc[h] = "authenticate"
         \/ /\ label = "replace" /\ pc[h] = "supersede"
            /\ credential[request[h].current].status # "revoked"
  PROVE  IInv'
<1>1. label # "idle"
  BY DEF Answers
<1>2. TypeOK'
  BY <1>1 DEF IInv, TypeOK, Refuse, Goes, history
<1>3. Shape'
  BY DEF IInv, Refuse, Goes, Shape, TypeOK, Answers
<1>4. TokenHeld'
  BY DEF IInv, Refuse, Goes, TokenHeld, TypeOK, Answers
<1>5. RotationHeld'
  BY DEF IInv, Refuse, Goes, RotationHeld, TypeOK, Answers
<1>. QED BY <1>2, <1>3, <1>4, <1>5, RowsUnchanged DEF IInv, Refuse

\* Receiving a request keeps the invariant.
LEMMA ArriveKeeps ==
  ASSUME IInv, NEW h \in Threads, NEW r, NEW label, Arrive(h, r, label),
         \/ r \in Enrollments /\ label = "token"
         \/ r \in Rotations /\ label = "authenticate"
         \/ r \in Revocations /\ label = "select"
  PROVE  IInv'
<1>1. TypeOK'
  BY Kinds DEF IInv, TypeOK, Arrive, Goes, Answers, history
<1>2. Shape'
  BY DEF IInv, TypeOK, Shape, Arrive, Goes
<1>3. TokenHeld' /\ RotationHeld'
  BY DEF IInv, TypeOK, TokenHeld, RotationHeld, Arrive, Goes
<1>. QED BY <1>1, <1>2, <1>3, RowsUnchanged DEF IInv, Arrive

\* A request that arrives takes no row and finds nothing out.
LEMMA ReceiveKeeps ==
  ASSUME IInv, NEW h \in Threads, Receive(h)
  PROVE  IInv'
<1>1. CASE \E r \in Enrollments : Arrive(h, r, "token")
  BY <1>1, ArriveKeeps
<1>2. CASE \E r \in Rotations : Arrive(h, r, "authenticate")
  BY <1>2, ArriveKeeps
<1>3. CASE \E d \in Devices :
             Arrive(h, [kind |-> "revoke", device |-> d, current |-> NoKey], "select")
  <2>1. \A d \in Devices : [kind |-> "revoke", device |-> d, current |-> NoKey] \in Revocations
    BY DEF Revocations
  <2>. QED BY <1>3, <2>1, ArriveKeeps
<1>. QED BY <1>1, <1>2, <1>3 DEF Receive

\* Answering a request keeps the invariant.
LEMMA AnswerKeeps ==
  ASSUME IInv, NEW h \in Threads, Answer(h)
  PROVE  IInv'
<1>1. TypeOK'
  BY CredentialAssumption DEF IInv, TypeOK, Answer, Goes, history
<1>2. Shape'
  BY DEF IInv, TypeOK, Shape, Answer, Goes
<1>3. TokenHeld' /\ RotationHeld'
  BY DEF IInv, TypeOK, TokenHeld, RotationHeld, Answer, Goes
<1>. QED BY <1>1, <1>2, <1>3, RowsUnchanged DEF IInv, Answer
-----------------------------------------------------------------------------
\* Changing one row of enrollment_tokens, one that nobody has loaded or that the
\* thread that loaded it lets go.
LEMMA TokenKeeps ==
  ASSUME IInv, NEW t \in Tokens, NEW row \in TokenRows,
         token' = [token EXCEPT ![t] = row],
         UNCHANGED <<registered, credential>>,
         guesses' = [guesses EXCEPT ![t] = row.failed + lapses[t]], lapses' = lapses,
         row.status \in {"unissued", "active"} => row.failed < MaxFailures,
         row.status = "consumed" <=> token[t].status = "consumed",
         row.bound = token[t].bound \/ token[t].status # "consumed"
  PROVE  Counted' /\ UnusedBlank' /\ OneActiveCredential' /\ TokenSingleUse'
<1>1. \A u \in Tokens : token'[u] = IF u = t THEN row ELSE token[u]
  BY DEF IInv, TypeOK
<1>2. Counted'
  BY <1>1 DEF IInv, TypeOK, Counted
<1>3. UnusedBlank' /\ OneActiveCredential'
  BY DEF IInv, UnusedBlank, OneActiveCredential, ActiveKeys
<1>4. TokenSingleUse'
  BY <1>1 DEF IInv, TokenSingleUse
<1>. QED BY <1>2, <1>3, <1>4

\* Issuing, revoking and ageing a token.
LEMMA AdministerKeeps ==
  ASSUME IInv, Administer
  PROVE  IInv'
<1>1. PICK t \in Tokens, row \in TokenRows :
        /\ token' = [token EXCEPT ![t] = row]
        /\ row.failed = token[t].failed
        /\ \/ /\ token[t].status = "unissued" /\ row.status = "active"
           \/ /\ token[t].status = "active" /\ row.status = "revoked" /\ ~ TokenLocked(t)
           \/ /\ token[t].status = "active" /\ row.status = "active"
              /\ row.bound = token[t].bound
        /\ UNCHANGED <<registered, credential, thread, history>>
  <2>1. PICK t \in Tokens :
          RevokeToken(t) \/ TimePasses(t) \/ \E d \in DeviceOrNone : IssueToken(t, d)
    BY DEF Administer
  <2>2. token[t] \in TokenRows /\ token \in [Tokens -> TokenRows]
    BY DEF IInv, TypeOK
  <2>3. CASE RevokeToken(t)
    <3>. DEFINE row == [token[t] EXCEPT !.status = "revoked"]
    <3>1. row \in TokenRows /\ row.failed = token[t].failed /\ row.status = "revoked"
      BY <2>2 DEF TokenRows
    <3>2. token' = [token EXCEPT ![t] = row]
      BY <2>2, <2>3 DEF RevokeToken
    <3>. HIDE DEF row
    <3>. QED BY <2>3, <3>1, <3>2 DEF RevokeToken
  <2>4. CASE TimePasses(t)
    <3>. DEFINE row == [token[t] EXCEPT !.overdue = TRUE]
    <3>1. /\ row \in TokenRows /\ row.failed = token[t].failed
          /\ row.status = token[t].status /\ row.bound = token[t].bound
      BY <2>2 DEF TokenRows
    <3>2. token' = [token EXCEPT ![t] = row]
      BY <2>2, <2>4 DEF TimePasses
    <3>. HIDE DEF row
    <3>. QED BY <2>4, <3>1, <3>2 DEF TimePasses
  <2>5. ASSUME NEW d \in DeviceOrNone, IssueToken(t, d)
        PROVE  \E row \in TokenRows :
                 /\ token' = [token EXCEPT ![t] = row]
                 /\ row.failed = token[t].failed
                 /\ token[t].status = "unissued" /\ row.status = "active"
                 /\ UNCHANGED <<registered, credential, thread, history>>
    <3>. DEFINE row == [token[t] EXCEPT !.status = "active", !.bound = d]
    <3>1. row \in TokenRows /\ row.failed = token[t].failed /\ row.status = "active"
      BY <2>2 DEF TokenRows
    <3>2. token' = [token EXCEPT ![t] = row]
      BY <2>2, <2>5 DEF IssueToken
    <3>. HIDE DEF row
    <3>. QED BY <2>5, <3>1, <3>2 DEF IssueToken
  <2>. QED BY <2>1, <2>3, <2>4, <2>5
<1>2. \A u \in Tokens : token'[u] = IF u = t THEN row ELSE token[u]
  BY <1>1 DEF IInv, TypeOK
<1>3. guesses' = [guesses EXCEPT ![t] = row.failed + lapses[t]] /\ lapses' = lapses
  BY <1>1 DEF IInv, TypeOK, Counted, history
<1>4. Counted' /\ UnusedBlank' /\ OneActiveCredential' /\ TokenSingleUse'
  <2>1. row.status \in {"unissued", "active"} => row.failed < MaxFailures
    BY <1>1 DEF IInv, Counted
  <2>. QED BY <1>1, <1>3, <2>1, TokenKeeps
<1>5. TypeOK'
  BY <1>1 DEF IInv, TypeOK, thread, history
<1>6. Shape' /\ RotationHeld'
  BY <1>1 DEF IInv, Shape, RotationHeld, thread
<1>7. TokenHeld'
  <2>. SUFFICES ASSUME NEW h \in Threads, pc[h] \in {"device", "store"}
       PROVE  /\ token'[request[h].token].status = "active"
              /\ token'[request[h].token].failed = token[request[h].token].failed
              /\ token'[request[h].token].bound = token[request[h].token].bound
    BY <1>1 DEF IInv, TokenHeld, thread
  <2>1. request[h].token \in Tokens /\ token[request[h].token].status = "active"
    BY DEF IInv, Shape, Enrollments, TokenHeld
  <2>2. request[h].token = t => ~ (row.status = "revoked" /\ ~ TokenLocked(t))
    BY DEF TokenLocked
  <2>. QED BY <1>1, <1>2, <2>1, <2>2
<1>. QED BY <1>4, <1>5, <1>6, <1>7 DEF IInv

\* A wrong proof is counted on the row that was loaded.
LEMMA CountFailureKeeps ==
  ASSUME IInv, NEW h \in Threads, pc[h] = "device", CountFailure(h)
  PROVE  IInv'
<1>. DEFINE failed == IF seen[h] < MaxFailures THEN seen[h] + 1 ELSE MaxFailures
<1>1. PICK t \in Tokens : t = request[h].token
  BY DEF IInv, Shape, Enrollments
<1>2. /\ token[t] \in TokenRows /\ token[t].status = "active"
      /\ token[t].failed = seen[h] /\ guesses[t] = seen[h] + lapses[t]
      /\ seen[h] < MaxFailures /\ seen[h] \in Nat /\ lapses[t] \in Nat
  BY <1>1 DEF IInv, TypeOK, TokenHeld, Counted
<1>3. PICK row \in TokenRows :
        /\ token' = [token EXCEPT ![t] = row]
        /\ row.failed = seen[h] + 1
        /\ row.status = IF seen[h] + 1 >= MaxFailures THEN "locked" ELSE "active"
        /\ row.bound = token[t].bound
  <2>. DEFINE row == [token[t] EXCEPT !.failed = failed,
                        !.status = IF failed >= MaxFailures THEN "locked" ELSE @]
  <2>1. seen[h] \in 0 .. MaxFailures /\ failed = seen[h] + 1 /\ failed \in 0 .. MaxFailures
    BY <1>2, CredentialAssumption DEF IInv, TypeOK
  <2>2. row \in TokenRows
    BY <1>2, <2>1 DEF TokenRows
  <2>3. /\ row.failed = seen[h] + 1 /\ row.bound = token[t].bound
        /\ row.status = IF seen[h] + 1 >= MaxFailures THEN "locked" ELSE "active"
    BY <1>2, <2>1 DEF TokenRows
  <2>4. token' = [token EXCEPT ![t] = row]
    BY <1>1, <1>2 DEF CountFailure, IInv, TypeOK
  <2>. HIDE DEF row
  <2>. QED BY <2>2, <2>3, <2>4
<1>4. \A u \in Tokens : token'[u] = IF u = t THEN row ELSE token[u]
  BY <1>3 DEF IInv, TypeOK
<1>5. guesses' = [guesses EXCEPT ![t] = row.failed + lapses[t]] /\ lapses' = lapses
  <2>1. guesses' = [guesses EXCEPT ![t] = guesses[t] + 1] /\ lapses' = lapses
    BY <1>1 DEF CountFailure
  <2>2. guesses[t] + 1 = row.failed + lapses[t]
    BY <1>2, <1>3
  <2>. QED BY <2>1, <2>2
<1>6. Counted' /\ UnusedBlank' /\ OneActiveCredential' /\ TokenSingleUse'
  <2>1. row.status \in {"unissued", "active"} => row.failed < MaxFailures
    BY <1>2, <1>3, CredentialAssumption DEF IInv, TypeOK
  <2>2. row.status # "consumed" /\ token[t].status # "consumed"
    BY <1>2, <1>3
  <2>. QED BY <1>3, <1>5, <2>1, <2>2, TokenKeeps DEF CountFailure
<1>7. TypeOK'
  <2>1. row.failed + lapses[t] \in Nat
    BY <1>2, <1>3
  <2>2. /\ pc' = [pc EXCEPT ![h] = "failed"] /\ lapses' = lapses
        /\ UNCHANGED <<registered, credential, request, seen>>
    BY DEF CountFailure, Goes
  <2>3. token' \in [Tokens -> TokenRows] /\ guesses' \in [Tokens -> Nat]
    BY <1>3, <1>5, <2>1 DEF IInv, TypeOK
  <2>. QED BY <2>2, <2>3 DEF IInv, TypeOK, Answers
<1>8. Shape' /\ RotationHeld'
  BY DEF IInv, TypeOK, Shape, RotationHeld, CountFailure, Goes
<1>9. TokenHeld'
  <2>0. /\ request' = request /\ seen' = seen /\ pc'[h] = "failed"
        /\ \A g \in Threads : g # h => pc'[g] = pc[g]
    BY DEF IInv, TypeOK, CountFailure, Goes
  <2>. SUFFICES ASSUME NEW g \in Threads, g # h, pc[g] \in {"device", "store"}
       PROVE  token'[request[g].token] = token[request[g].token]
    BY <2>0 DEF IInv, TokenHeld
  <2>1. request[g].token \in Tokens /\ request[g].token # t
    BY <1>1 DEF IInv, Shape, Enrollments, TokenHeld
  <2>. QED BY <1>4, <2>1
<1>. QED BY <1>6, <1>7, <1>8, <1>9 DEF IInv

\* A wrong proof whose count is lost leaves the rows alone.
LEMMA CountLostKeeps ==
  ASSUME IInv, NEW h \in Threads, pc[h] = "device", CountLost(h)
  PROVE  IInv'
<1>1. PICK t \in Tokens : t = request[h].token
  BY DEF IInv, Shape, Enrollments
<1>2. /\ lapses[t] \in 0 .. MaxLapses /\ lapses[t] < MaxLapses /\ guesses[t] \in Nat
      /\ guesses' = [guesses EXCEPT ![t] = @ + 1]
      /\ lapses' = [lapses EXCEPT ![t] = @ + 1]
      /\ pc' = [pc EXCEPT ![h] = "failed"]
      /\ UNCHANGED <<token, registered, credential, request, seen>>
  BY <1>1 DEF IInv, TypeOK, CountLost, Goes
<1>3. lapses[t] + 1 \in 0 .. MaxLapses /\ guesses[t] + 1 \in Nat
  BY <1>2, CredentialAssumption
<1>4. TypeOK'
  BY <1>2, <1>3 DEF IInv, TypeOK, Answers
<1>5. Counted'
  <2>. SUFFICES ASSUME NEW u \in Tokens
       PROVE  guesses'[u] = token[u].failed + lapses'[u]
    BY <1>2 DEF IInv, Counted
  <2>1. guesses[u] = token[u].failed + lapses[u] /\ token[u].failed \in Nat /\ lapses[u] \in Nat
    BY DEF IInv, Counted, TypeOK, TokenRows
  <2>2. /\ guesses'[u] = IF u = t THEN guesses[u] + 1 ELSE guesses[u]
        /\ lapses'[u] = IF u = t THEN lapses[u] + 1 ELSE lapses[u]
    BY <1>2 DEF IInv, TypeOK
  <2>. QED BY <2>1, <2>2
<1>6. Shape' /\ RotationHeld' /\ TokenHeld'
  BY <1>2 DEF IInv, TypeOK, Shape, RotationHeld, TokenHeld
<1>7. UnusedBlank' /\ OneActiveCredential' /\ TokenSingleUse'
  BY <1>2 DEF IInv, UnusedBlank, OneActiveCredential, ActiveKeys, TokenSingleUse
<1>. QED BY <1>4, <1>5, <1>6, <1>7 DEF IInv

\* Loading and locking the token.
LEMMA LoadTokenKeeps ==
  ASSUME IInv, NEW h \in Threads, LoadToken(h)
  PROVE  IInv'
<1>1. PICK t \in Tokens : t = request[h].token
  BY DEF IInv, Shape, Enrollments, LoadToken
<1>2. token[t] \in TokenRows /\ ~ TokenLocked(t)
  BY <1>1 DEF IInv, TypeOK, LoadToken
<1>3. PICK row \in TokenRows, label \in {"failed", "device"} :
        /\ token' = [token EXCEPT ![t] = row]
        /\ row.failed = token[t].failed /\ row.bound = token[t].bound
        /\ row.status = token[t].status
             \/ (token[t].status = "active" /\ row.status = "expired" /\ label = "failed")
        /\ label = "device" => row.status = "active"
        /\ Goes(h, label)
  <2>1. CASE token[t].status = "active" /\ token[t].overdue
    <3>. DEFINE row == [token[t] EXCEPT !.status = "expired"]
    <3>1. /\ row \in TokenRows /\ row.failed = token[t].failed
          /\ row.bound = token[t].bound /\ row.status = "expired"
      BY <1>2 DEF TokenRows
    <3>2. \/ token' = [token EXCEPT ![t] = row]
          \/ token' = token /\ token = [token EXCEPT ![t] = token[t]]
      BY <1>1, <2>1 DEF LoadToken, IInv, TypeOK
    <3>3. Goes(h, "failed")
      BY <1>1, <2>1 DEF LoadToken
    <3>. HIDE DEF row
    <3>. QED BY <1>2, <2>1, <3>1, <3>2, <3>3
  <2>2. CASE ~ (token[t].status = "active" /\ token[t].overdue)
    <3>1. token' = token /\ token = [token EXCEPT ![t] = token[t]]
      BY <1>1, <2>2 DEF LoadToken, IInv, TypeOK
    <3>2. Goes(h, "failed") \/ (Goes(h, "device") /\ token[t].status = "active")
      BY <1>1, <2>2 DEF LoadToken
    <3>. QED BY <1>2, <3>1, <3>2
  <2>. QED BY <2>1, <2>2
<1>4. \A u \in Tokens : token'[u] = IF u = t THEN row ELSE token[u]
  BY <1>3 DEF IInv, TypeOK
<1>5. Counted' /\ UnusedBlank' /\ OneActiveCredential' /\ TokenSingleUse'
  <2>1. row.status \in {"unissued", "active"} => row.failed < MaxFailures
    BY <1>3 DEF IInv, Counted
  <2>2. guesses' = [guesses EXCEPT ![t] = row.failed + lapses[t]] /\ lapses' = lapses
    BY <1>3 DEF LoadToken, IInv, TypeOK, Counted, history
  <2>3. row.status = "consumed" <=> token[t].status = "consumed"
    BY <1>3
  <2>. QED BY <1>3, <2>1, <2>2, <2>3, TokenKeeps DEF LoadToken
<1>6. TypeOK'
  <2>1. seen' \in [Threads -> 0 .. MaxFailures]
    BY <1>1, <1>2 DEF LoadToken, IInv, TypeOK, TokenRows
  <2>. QED BY <1>3, <2>1 DEF IInv, TypeOK, LoadToken, Goes, Answers, history
<1>7. Shape' /\ RotationHeld'
  BY <1>3 DEF IInv, TypeOK, Shape, RotationHeld, LoadToken, Goes
<1>8. TokenHeld'
  <2>1. \A g \in Threads : pc[g] \in {"device", "store"} =>
          request[g].token \in Tokens /\ request[g].token # t
    BY <1>2 DEF IInv, Shape, Enrollments, TokenLocked
  <2>2. \A g \in Threads : g # h => pc'[g] = pc[g] /\ seen'[g] = seen[g]
    BY <1>3 DEF IInv, TypeOK, LoadToken, Goes
  <2>3. pc[h] = "token" /\ pc'[h] = label /\ seen'[h] = token[t].failed
    BY <1>1, <1>3 DEF IInv, TypeOK, LoadToken, Goes
  <2>4. ASSUME NEW g \in Threads, g # h, pc'[g] \in {"device", "store"}
        PROVE  /\ token'[request[g].token].status = "active"
               /\ token'[request[g].token].failed = seen'[g]
               /\ pc'[g] = "store" =>
                    token'[request[g].token].bound \in {NoDevice, request[g].device}
               /\ \A f \in Threads :
                    pc'[f] \in {"device", "store"} /\ request[f].token = request[g].token => f = g
    BY <1>1, <1>4, <2>1, <2>2, <2>4 DEF IInv, TokenHeld
  <2>5. ASSUME pc'[h] \in {"device", "store"}
        PROVE  /\ token'[request[h].token].status = "active"
               /\ token'[request[h].token].failed = seen'[h]
               /\ pc'[h] # "store"
               /\ \A f \in Threads :
                    pc'[f] \in {"device", "store"} /\ request[f].token = request[h].token => f = h
    BY <1>1, <1>3, <1>4, <2>1, <2>2, <2>3, <2>5
  <2>6. request' = request
    BY DEF LoadToken
  <2>. QED BY <2>4, <2>5, <2>6 DEF TokenHeld
<1>. QED BY <1>5, <1>6, <1>7, <1>8 DEF IInv

\* Checking the device.
LEMMA LoadDeviceKeeps ==
  ASSUME IInv, NEW h \in Threads, LoadDevice(h)
  PROVE  IInv'
<1>1. pc[h] = "device"
  BY DEF LoadDevice
<1>2. CASE RecordFailure(h)
  BY <1>1, <1>2, CountFailureKeeps, CountLostKeeps DEF RecordFailure
<1>3. CASE Refuse(h, "conflict")
  BY <1>1, <1>3, RefuseKeeps DEF Answers
<1>4. CASE Refuse(h, "store") /\ token[request[h].token].bound \in {NoDevice, request[h].device}
  BY <1>1, <1>4, RefuseKeeps
<1>. QED BY <1>2, <1>3, <1>4 DEF LoadDevice

\* Changing the row of one credential: r of an enrollment or of a rotation.
LEMMA StoreEnrollmentKeeps ==
  ASSUME IInv, NEW h \in Threads, StoreEnrollment(h)
  PROVE  IInv'
<1>0. pc[h] = "store"
  BY DEF StoreEnrollment
<1>1. CASE Refuse(h, "error")
  BY <1>0, <1>1, RefuseKeeps DEF Answers
<1>2. CASE ~ Refuse(h, "error")
  <2>1. PICK r \in Enrollments : r = request[h]
    BY <1>0 DEF IInv, Shape
  <2>2. r.token \in Tokens /\ r.device \in Devices /\ r.key \in Keys
    BY <2>1 DEF Enrollments
  <2>3. /\ ~ KeyUsed(r.key) /\ ActiveKeys(r.device) = {}
        /\ registered' = registered \union {r.device}
        /\ credential' = [credential EXCEPT ![r.key] = Enrolled(r)]
        /\ token' = [token EXCEPT ![r.token].status = "consumed"]
        /\ pc' = [pc EXCEPT ![h] = "created"]
        /\ UNCHANGED <<request, seen, history>>
    BY <1>2, <2>1 DEF StoreEnrollment, Goes
  <2>4. /\ token[r.token] \in TokenRows /\ token[r.token].status = "active"
        /\ token[r.token].bound \in {NoDevice, r.device}
    BY <1>0, <2>1, <2>2 DEF IInv, TypeOK, TokenHeld
  <2>5. PICK row \in TokenRows :
          /\ token' = [token EXCEPT ![r.token] = row]
          /\ row.status = "consumed" /\ row.bound = token[r.token].bound
          /\ row.failed = token[r.token].failed
    <3>. DEFINE row == [token[r.token] EXCEPT !.status = "consumed"]
    <3>1. /\ row \in TokenRows /\ row.status = "consumed"
          /\ row.bound = token[r.token].bound /\ row.failed = token[r.token].failed
      BY <2>4 DEF TokenRows
    <3>2. token' = [token EXCEPT ![r.token] = row]
      BY <2>2, <2>3 DEF IInv, TypeOK
    <3>. HIDE DEF row
    <3>. QED BY <3>1, <3>2
  <2>6. \A u \in Tokens : token'[u] = IF u = r.token THEN row ELSE token[u]
    BY <2>5 DEF IInv, TypeOK
  <2>7. PICK new \in CredentialRows :
          /\ credential' = [credential EXCEPT ![r.key] = new]
          /\ new.status = "active" /\ new.device = r.device /\ new.token = r.token
    <3>1. /\ Enrolled(r) \in CredentialRows /\ Enrolled(r).status = "active"
          /\ Enrolled(r).device = r.device /\ Enrolled(r).token = r.token
      BY <2>2 DEF Enrolled, CredentialRows, DeviceOrNone
    <3>. QED BY <2>3, <3>1
  <2>8. \A k \in Keys : credential'[k] = IF k = r.key THEN new ELSE credential[k]
    BY <2>7 DEF IInv, TypeOK
  <2>9. credential[r.key].status = "none" /\ credential[r.key].token = NoToken
    BY <2>2, <2>3 DEF KeyUsed, IInv, UnusedBlank
  <2>10. TypeOK'
    <3>1. token' \in [Tokens -> TokenRows] /\ credential' \in [Keys -> CredentialRows]
      BY <2>5, <2>7 DEF IInv, TypeOK
    <3>2. registered' \in SUBSET Devices
      BY <2>2, <2>3 DEF IInv, TypeOK
    <3>. QED BY <1>0, <2>3, <3>1, <3>2 DEF IInv, TypeOK, Answers, history
  <2>11. Shape'
    BY <2>3 DEF IInv, TypeOK, Shape
  <2>12. TokenHeld'
    <3>1. pc'[h] = "created" /\ \A g \in Threads : g # h => pc'[g] = pc[g]
      BY <2>3 DEF IInv, TypeOK
    <3>2. \A g \in Threads : g # h /\ pc[g] \in {"device", "store"} =>
            request[g].token \in Tokens /\ request[g].token # r.token
      BY <1>0, <2>1 DEF IInv, Shape, Enrollments, TokenHeld
    <3>. QED BY <2>3, <2>6, <3>1, <3>2 DEF IInv, TokenHeld
  <2>13. Counted'
    BY <2>3, <2>5, <2>6 DEF IInv, Counted, history
  <2>14. RotationHeld'
    <3>1. pc'[h] = "created" /\ \A g \in Threads : g # h => pc'[g] = pc[g]
      BY <2>3 DEF IInv, TypeOK
    <3>2. \A g \in Threads : pc[g] = "replace" => request[g].current \in Keys
      BY DEF IInv, Shape, Rotations
    <3>. QED BY <2>3, <2>7, <2>8, <3>1, <3>2 DEF IInv, RotationHeld
  <2>15. UnusedBlank'
    BY <2>7, <2>8 DEF IInv, UnusedBlank
  <2>16. OneActiveCredential'
    BY <2>3, <2>7, <2>8 DEF IInv, OneActiveCredential, ActiveKeys
  <2>17. TokenSingleUse'
    <3>1. \A k \in Keys : credential[k].token # r.token
      BY <2>2, <2>4 DEF IInv, TokenSingleUse
    <3>2. \A k \in Keys : k # r.key => credential'[k] = credential[k]
      BY <2>8
    <3>3. credential'[r.key].token = r.token /\ credential'[r.key].device = r.device
      BY <2>2, <2>7, <2>8
    <3>4. ASSUME NEW t \in Tokens, t # r.token
          PROVE  /\ token'[t] = token[t]
                 /\ {k \in Keys : credential'[k].token = t} = {k \in Keys : credential[k].token = t}
                 /\ \A k \in Keys : credential'[k].token = t => credential'[k] = credential[k]
      BY <2>2, <2>6, <2>9, <3>2, <3>3, <3>4, CredentialAssumption
    <3>5. {k \in Keys : credential'[k].token = r.token} = {r.key}
      BY <2>2, <3>1, <3>2, <3>3
    <3>6. token'[r.token].status = "consumed" /\ token'[r.token].bound \in {NoDevice, r.device}
      BY <2>2, <2>4, <2>5, <2>6
    <3>. QED BY <2>2, <3>3, <3>4, <3>5, <3>6 DEF IInv, TokenSingleUse
  <2>. QED BY <2>10, <2>11, <2>12, <2>13, <2>14, <2>15, <2>16, <2>17 DEF IInv
<1>. QED BY <1>1, <1>2

\* Superseding and replacing a credential.
LEMMA ReplaceKeeps ==
  ASSUME IInv, NEW h \in Threads, Replace(h)
  PROVE  IInv'
<1>0. pc[h] = "replace"
  BY DEF Replace
<1>1. CASE Refuse(h, "error")
  BY <1>0, <1>1, RefuseKeeps DEF Answers
<1>2. CASE ~ Refuse(h, "error")
  <2>1. PICK r \in Rotations : r = request[h]
    BY <1>0 DEF IInv, Shape
  <2>2. r.current \in Keys /\ r.key \in Keys
    BY <2>1 DEF Rotations
  <2>3. /\ ~ KeyUsed(r.key)
        /\ ActiveKeys(credential[r.current].device) \ {r.current} = {}
        /\ credential' = Rotated(r)
        /\ pc' = [pc EXCEPT ![h] = "rotated"]
        /\ UNCHANGED <<token, registered, request, seen, history>>
    BY <1>2, <2>1 DEF Replace, Goes
  <2>4. credential[r.current] \in CredentialRows /\ credential[r.key].token = NoToken
        /\ credential[r.key].status = "none"
    BY <2>2, <2>3 DEF KeyUsed, IInv, TypeOK, UnusedBlank
  <2>5. PICK old \in CredentialRows, new \in CredentialRows :
          /\ credential' = [k \in Keys |-> IF k = r.key THEN new
                                           ELSE IF k = r.current THEN old ELSE credential[k]]
          /\ old.status = "superseded" /\ old.device = credential[r.current].device
          /\ old.token = credential[r.current].token
          /\ new.status = "active" /\ new.device = credential[r.current].device
          /\ new.token = NoToken
    <3>. DEFINE old == [credential[r.current] EXCEPT !.status = "superseded", !.successor = r.key]
                new == [status |-> "active", device |-> credential[r.current].device,
                        token |-> NoToken, root |-> credential[r.current].root,
                        successor |-> NoKey]
    <3>1. /\ old \in CredentialRows /\ old.status = "superseded"
          /\ old.device = credential[r.current].device
          /\ old.token = credential[r.current].token
      BY <2>2, <2>4 DEF CredentialRows
    <3>2. /\ new \in CredentialRows /\ new.status = "active"
          /\ new.device = credential[r.current].device /\ new.token = NoToken
      BY <2>4 DEF CredentialRows
    <3>3. credential' = [k \in Keys |-> IF k = r.key THEN new
                                        ELSE IF k = r.current THEN old ELSE credential[k]]
      BY <2>2, <2>3 DEF Rotated, IInv, TypeOK
    <3>. HIDE DEF old, new
    <3>. QED BY <3>1, <3>2, <3>3
  <2>6. TypeOK'
    <3>1. credential' \in [Keys -> CredentialRows]
      BY <2>5 DEF IInv, TypeOK
    <3>. QED BY <1>0, <2>3, <3>1 DEF IInv, TypeOK, Answers, history
  <2>7. Shape' /\ TokenHeld' /\ Counted'
    BY <2>3 DEF IInv, TypeOK, Shape, TokenHeld, Counted, history
  <2>8. RotationHeld'
    <3>1. pc'[h] = "rotated" /\ \A g \in Threads : g # h => pc'[g] = pc[g]
      BY <2>3 DEF IInv, TypeOK
    <3>2. \A g \in Threads : pc[g] = "replace" => request[g].current \in Keys
      BY DEF IInv, Shape, Rotations
    <3>. QED BY <2>3, <2>5, <3>1, <3>2 DEF IInv, RotationHeld
  <2>9. UnusedBlank'
    BY <2>5 DEF IInv, UnusedBlank
  <2>10. OneActiveCredential'
    BY <2>2, <2>3, <2>5 DEF IInv, OneActiveCredential, ActiveKeys
  <2>11. TokenSingleUse'
    <3>1. ASSUME NEW k \in Keys
          PROVE  /\ credential'[k].token = credential[k].token
                 /\ credential'[k].device = credential[k].device \/ credential'[k].token = NoToken
      <4>1. CASE k = r.key
        BY <2>4, <2>5, <4>1
      <4>2. CASE k # r.key
        BY <2>5, <4>2
      <4>. QED BY <4>1, <4>2
    <3>2. NoToken \notin Tokens
      BY CredentialAssumption
    <3>. QED BY <2>3, <3>1, <3>2 DEF IInv, TokenSingleUse
  <2>. QED BY <2>6, <2>7, <2>8, <2>9, <2>10, <2>11 DEF IInv
<1>. QED BY <1>1, <1>2

\* Revoking a credential that no rotation holds.
LEMMA RevokeCredentialKeeps ==
  ASSUME IInv, NEW h \in Threads, RevokeCredential(h)
  PROVE  IInv'
<1>0. pc[h] = "revoke"
  BY DEF RevokeCredential
<1>1. CASE Refuse(h, "not_found")
  BY <1>0, <1>1, RefuseKeeps DEF Answers
<1>2. CASE ~ Refuse(h, "not_found")
  <2>1. PICK k \in Keys : k = request[h].current
    BY <1>0 DEF IInv, Shape
  <2>2. /\ credential' = [credential EXCEPT ![k].status = "revoked"]
        /\ credential[k].status = "active" /\ ~ KeyLocked(k)
        /\ pc' = [pc EXCEPT ![h] = "revoked"]
        /\ UNCHANGED <<token, registered, request, seen, history>>
    BY <1>2, <2>1 DEF RevokeCredential, Goes
  <2>3. PICK row \in CredentialRows :
          /\ credential' = [credential EXCEPT ![k] = row]
          /\ row.status = "revoked" /\ row.device = credential[k].device
          /\ row.token = credential[k].token
    <3>. DEFINE row == [credential[k] EXCEPT !.status = "revoked"]
    <3>1. credential[k] \in CredentialRows
      BY DEF IInv, TypeOK
    <3>2. /\ row \in CredentialRows /\ row.status = "revoked"
          /\ row.device = credential[k].device /\ row.token = credential[k].token
      BY <3>1 DEF CredentialRows
    <3>3. credential' = [credential EXCEPT ![k] = row]
      BY <2>2 DEF IInv, TypeOK
    <3>. HIDE DEF row
    <3>. QED BY <3>2, <3>3
  <2>4. \A j \in Keys : credential'[j] = IF j = k THEN row ELSE credential[j]
    BY <2>3 DEF IInv, TypeOK
  <2>5. TypeOK'
    <3>1. credential' \in [Keys -> CredentialRows]
      BY <2>3 DEF IInv, TypeOK
    <3>. QED BY <1>0, <2>2, <3>1 DEF IInv, TypeOK, Answers, history
  <2>6. Shape' /\ TokenHeld' /\ Counted'
    BY <2>2 DEF IInv, TypeOK, Shape, TokenHeld, Counted, history
  <2>7. RotationHeld'
    <3>1. pc'[h] = "revoked" /\ \A g \in Threads : g # h => pc'[g] = pc[g]
      BY <2>2 DEF IInv, TypeOK
    <3>2. \A g \in Threads : pc[g] = "replace" =>
            request[g].current \in Keys /\ request[g].current # k
      BY <2>2 DEF IInv, Shape, Rotations, KeyLocked
    <3>. QED BY <2>2, <2>4, <3>1, <3>2 DEF IInv, RotationHeld
  <2>8. UnusedBlank' /\ OneActiveCredential'
    BY <2>3, <2>4 DEF IInv, UnusedBlank, OneActiveCredential, ActiveKeys
  <2>9. TokenSingleUse'
    <3>1. \A j \in Keys : /\ credential'[j].token = credential[j].token
                          /\ credential'[j].device = credential[j].device
      BY <2>3, <2>4
    <3>. QED BY <2>2, <3>1 DEF IInv, TokenSingleUse
  <2>. QED BY <2>5, <2>6, <2>7, <2>8, <2>9 DEF IInv
<1>. QED BY <1>1, <1>2

\* Selecting the credential to revoke.
LEMMA SelectActiveKeeps ==
  ASSUME IInv, NEW h \in Threads, SelectActive(h)
  PROVE  IInv'
<1>0. pc[h] = "select" /\ request[h] \in Revocations
  BY DEF SelectActive, IInv, Shape
<1>1. CASE Refuse(h, "not_found")
  BY <1>0, <1>1, RefuseKeeps DEF Answers
<1>2. CASE ~ Refuse(h, "not_found")
  <2>1. PICK k \in Keys, r \in Revocations :
          /\ r.current = k
          /\ request' = [request EXCEPT ![h] = r]
          /\ pc' = [pc EXCEPT ![h] = "revoke"]
          /\ UNCHANGED <<token, registered, credential, seen, history>>
    <3>1. PICK k \in Keys :
            /\ request' = [request EXCEPT ![h].current = k]
            /\ pc' = [pc EXCEPT ![h] = "revoke"]
            /\ UNCHANGED <<token, registered, credential, seen, history>>
      BY <1>2 DEF SelectActive, ActiveKeys, Goes
    <3>. DEFINE r == [request[h] EXCEPT !.current = k]
    <3>2. r \in Revocations /\ r.current = k
      BY <1>0 DEF Revocations
    <3>3. request' = [request EXCEPT ![h] = r]
      BY <3>1 DEF IInv, TypeOK
    <3>. HIDE DEF r
    <3>. QED BY <3>1, <3>2, <3>3
  <2>2. TypeOK'
    BY <2>1, Kinds DEF IInv, TypeOK, history
  <2>3. /\ pc'[h] = "revoke" /\ request'[h] = r
        /\ \A g \in Threads : g # h => pc'[g] = pc[g] /\ request'[g] = request[g]
    BY <2>1 DEF IInv, TypeOK
  <2>4. Shape'
    BY <2>1, <2>3 DEF IInv, Shape
  <2>5. TokenHeld' /\ RotationHeld'
    BY <2>1, <2>3 DEF IInv, TokenHeld, RotationHeld
  <2>. QED BY <2>1, <2>2, <2>4, <2>5, RowsUnchanged DEF IInv
<1>. QED BY <1>1, <1>2

\* Every step keeps the inductive invariant.
LEMMA StepIInv == IInv /\ [Next]_vars => IInv'
<1>. SUFFICES ASSUME IInv, [Next]_vars PROVE IInv'
  OBVIOUS
<1>1. CASE UNCHANGED vars
  <2>1. TypeOK' /\ Shape' /\ TokenHeld' /\ RotationHeld'
    BY <1>1 DEF IInv, vars, history, thread, TypeOK, Shape, TokenHeld, RotationHeld
  <2>. QED BY <1>1, <2>1, RowsUnchanged DEF IInv, vars, history
<1>2. CASE Administer
  BY <1>2, AdministerKeeps
<1>3. ASSUME NEW h \in Threads, Receive(h) PROVE IInv'
  BY <1>3, ReceiveKeeps
<1>4. ASSUME NEW h \in Threads, Abort(h) PROVE IInv'
  BY <1>4, RefuseKeeps DEF Abort, Answers
<1>5. ASSUME NEW h \in Threads, Run(h) PROVE IInv'
  <2>1. CASE LoadToken(h)
    BY <2>1, LoadTokenKeeps
  <2>2. CASE LoadDevice(h)
    BY <2>2, LoadDeviceKeeps
  <2>3. CASE StoreEnrollment(h)
    BY <2>3, StoreEnrollmentKeeps
  <2>4. CASE Authenticate(h)
    BY <2>4, RefuseKeeps DEF Authenticate, Answers
  <2>5. CASE Supersede(h)
    BY <2>5, RefuseKeeps DEF Supersede, Answers
  <2>6. CASE Replace(h)
    BY <2>6, ReplaceKeeps
  <2>7. CASE SelectActive(h)
    BY <2>7, SelectActiveKeeps
  <2>8. CASE RevokeCredential(h)
    BY <2>8, RevokeCredentialKeeps
  <2>9. CASE Answer(h)
    BY <2>9, AnswerKeeps
  <2>. QED BY <1>5, <2>1, <2>2, <2>3, <2>4, <2>5, <2>6, <2>7, <2>8, <2>9 DEF Run
<1>. QED BY <1>1, <1>2, <1>3, <1>4, <1>5 DEF Next

\* The inductive invariant holds always.
THEOREM Invariant == Spec => []IInv
BY InitIInv, StepIInv, PTL DEF Spec
-----------------------------------------------------------------------------
\* Rows and requests keep their types.
THEOREM TypeCorrect == Spec => []TypeOK
<1>1. IInv => TypeOK
  BY DEF IInv
<1>. QED BY <1>1, Invariant, PTL

\* However many enrollments, recoveries and rotations race, a device has one
\* active credential at most.
THEOREM OneActive == Spec => []OneActiveCredential
<1>1. IInv => OneActiveCredential
  BY DEF IInv
<1>. QED BY <1>1, Invariant, PTL

\* A pairing token enrolls one credential of the device it is bound to, and only
\* by being consumed.
THEOREM SingleUse == Spec => []TokenSingleUse
<1>1. IInv => TokenSingleUse
  BY DEF IInv
<1>. QED BY <1>1, Invariant, PTL

\* No token stands more wrong proofs than MaxFailures and those whose count was
\* not committed.
THEOREM GuessesLimited == Spec => []GuessesBounded
<1>1. IInv => GuessesBounded
  BY CredentialAssumption DEF IInv, TypeOK, Counted, TokenRows, GuessesBounded
<1>. QED BY <1>1, Invariant, PTL

\* A revoked credential stays as it is, rotations under way included.
LEMMA RevokedStep ==
  ASSUME IInv, [Next]_vars, NEW k \in Keys, credential[k].status = "revoked"
  PROVE  credential'[k] = credential[k]
<1>1. CASE credential' = credential
  BY <1>1
<1>2. ASSUME NEW h \in Threads, StoreEnrollment(h) PROVE credential'[k] = credential[k]
  <2>1. pc[h] = "store" /\ request[h] \in Enrollments
    BY <1>2 DEF StoreEnrollment, IInv, Shape
  <2>2. \/ credential' = credential
        \/ /\ ~ KeyUsed(request[h].key)
           /\ credential' = [credential EXCEPT ![request[h].key] = Enrolled(request[h])]
    BY <1>2 DEF StoreEnrollment, Refuse
  <2>. QED BY <2>2 DEF KeyUsed, IInv, TypeOK
<1>3. ASSUME NEW h \in Threads, Replace(h) PROVE credential'[k] = credential[k]
  <2>1. pc[h] = "replace" /\ request[h] \in Rotations
    BY <1>3 DEF Replace, IInv, Shape
  <2>2. \/ credential' = credential
        \/ ~ KeyUsed(request[h].key) /\ credential' = Rotated(request[h])
    BY <1>3 DEF Replace, Refuse
  <2>3. k # request[h].current
    BY <2>1 DEF IInv, RotationHeld
  <2>. QED BY <2>2, <2>3 DEF KeyUsed, Rotated, IInv, TypeOK
<1>4. ASSUME NEW h \in Threads, RevokeCredential(h) PROVE credential'[k] = credential[k]
  <2>1. \/ credential' = credential
        \/ /\ credential[request[h].current].status = "active"
           /\ credential' = [credential EXCEPT ![request[h].current].status = "revoked"]
    BY <1>4 DEF RevokeCredential, Refuse
  <2>. QED BY <2>1 DEF IInv, TypeOK
<1>5. CASE Administer \/ UNCHANGED vars
  BY <1>1, <1>5 DEF Administer, RevokeToken, TimePasses, IssueToken, vars, history
<1>6. ASSUME NEW h \in Threads, Receive(h) \/ Abort(h) \/ Run(h)
      PROVE  credential'[k] = credential[k]
  <2>1. \/ StoreEnrollment(h) \/ Replace(h) \/ RevokeCredential(h)
        \/ credential' = credential
    BY <1>6 DEF Receive, Arrive, Abort, Refuse, Run, LoadToken, LoadDevice, RecordFailure,
                CountFailure, CountLost, Authenticate, Supersede, SelectActive, Answer
  <2>. QED BY <1>1, <1>2, <1>3, <1>4, <2>1
<1>. QED BY <1>5, <1>6 DEF Next

\* A revoked credential is never active again and never rotated.
THEOREM RevocationFinal == Spec => RevokedIsFinal
<1>1. IInv /\ [Next]_vars =>
        [\A k \in Keys : credential[k].status = "revoked" => credential'[k] = credential[k]]_vars
  BY RevokedStep
<1>. QED BY <1>1, Invariant, PTL DEF Spec, RevokedIsFinal
=============================================================================
