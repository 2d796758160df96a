-------------------------- MODULE IdempotencyProofs --------------------------
(***************************************************************************)
(* For any number of requests, failures and dead processes: one key lets   *)
(* one body take effect, and as long as no two retries take over the same  *)
(* failed record, every client gets the same, final response.              *)
(***************************************************************************)
EXTENDS Idempotency, FiniteSetTheorems, TLAPS

\* What the type invariant needs: who runs was started, who saves took effect.
Started ==
    /\ \A r \in Request : Running(r) => r \in ran
    /\ \A r \in Request : pc[r] = "saving" => r \in effects

\* The record belongs to one body from its creation on, and whoever looks at it,
\* or was started, finds it created.
OneOwner ==
    /\ key.status = "NONE" => ran = {} /\ \A r \in Request : pc[r] = "new"
    /\ \A r \in ran : body[r] = key.hash
    /\ \A r \in Request : pc[r] = "reclaim" => body[r] = key.hash

\* Without contested retries, one request runs at most, on a record IN_PROGRESS,
\* and whoever was answered has the response of a COMPLETED record.
OneAttempt ==
    ~contested =>
        /\ \A r, s \in Request : Running(r) /\ Running(s) => r = s
        /\ \A r \in Request : Running(r) => key.status = "IN_PROGRESS"
        /\ \A r \in Request : answer[r] # None =>
              key.status = "COMPLETED" /\ answer[r] = key.response

KeyInvariant == IdempotencyTypeOK /\ Started /\ OneOwner /\ OneAttempt

\* The initial states satisfy the invariant.
LEMMA KeyInit == Init => KeyInvariant
<1> SUFFICES ASSUME Init PROVE KeyInvariant
  OBVIOUS
<1>1. /\ key = NoKey
      /\ key.status = "NONE"
      /\ key \in [status: KeyStatus, hash: Body \cup {None}, response: Request \cup {None}]
  BY DEF Init, NoKey, KeyStatus
<1>2. /\ failures \in 0 .. MaxFailures
      /\ crashes \in 0 .. MaxCrashes
  BY IdempotencyAssumption DEF Init, IdempotencyAssumption
<1>3. IdempotencyTypeOK
  BY <1>1, <1>2 DEF Init, IdempotencyTypeOK
<1>4. Started /\ OneOwner /\ OneAttempt
  BY <1>1 DEF Init, Started, OneOwner, OneAttempt, Running
<1> QED
  BY <1>3, <1>4 DEF KeyInvariant

\* Every step keeps the invariant.
LEMMA KeyStep == KeyInvariant /\ [Next]_vars => KeyInvariant'
<1> USE IdempotencyAssumption
<1> SUFFICES ASSUME KeyInvariant, [Next]_vars PROVE KeyInvariant'
  OBVIOUS
<1> USE DEF IdempotencyAssumption, KeyInvariant, IdempotencyTypeOK, KeyStatus, Running, NoKey, Goto
<1>1. CASE UNCHANGED vars
  BY <1>1 DEF vars, Started, OneOwner, OneAttempt
<1>2. ASSUME NEW r \in Request, Begin(r) PROVE KeyInvariant'
  <2>1. CASE key.status # "NONE"
    BY <1>2, <2>1 DEF Begin, Started, OneOwner, OneAttempt
  <2>2. CASE key.status = "NONE"
    <3>1. /\ key' = [status |-> "IN_PROGRESS", hash |-> body[r], response |-> None]
          /\ ran' = {r}
          /\ pc' = [pc EXCEPT ![r] = "handling"]
          /\ UNCHANGED <<body, answer, effects, failures, crashes, contested>>
          /\ \A s \in Request : pc[s] = "new"
      BY <1>2, <2>2 DEF Begin, OneOwner
    <3>2. IdempotencyTypeOK'
      <4>1. key' \in [status: KeyStatus, hash: Body \cup {None},
                     response: Request \cup {None}]
        BY <3>1
      <4>2. effects' \subseteq ran' /\ ran' \subseteq Request
        BY <2>2, <3>1 DEF OneOwner
      <4>3. key'.status # "COMPLETED"
        BY <3>1
      <4> QED
        BY <3>1, <4>1, <4>2, <4>3
    <3>3. (Started /\ OneOwner)'
      BY <3>1 DEF Started, OneOwner
    <3>4. OneAttempt'
      <4>1. \A s \in Request : Running(s)' => s = r
        BY <3>1
      <4>2. ~contested => \A s \in Request : answer[s] = None
        BY <2>2 DEF OneAttempt
      <4> QED
        <5>1. key'.status = "IN_PROGRESS"
          BY <3>1
        <5> QED
          BY <3>1, <4>1, <4>2, <5>1 DEF OneAttempt
    <3> QED
      BY <3>2, <3>3, <3>4
  <2> QED
    BY <2>1, <2>2
<1>3. ASSUME NEW r \in Request, Lookup(r) PROVE KeyInvariant'
  BY <1>3 DEF Lookup, Started, OneOwner, OneAttempt
<1>4. ASSUME NEW r \in Request, Reclaim(r) PROVE KeyInvariant'
  BY <1>4 DEF Reclaim, Started, OneOwner, OneAttempt
<1>5. ASSUME NEW r \in Request, Handle(r) PROVE KeyInvariant'
  BY <1>5 DEF Handle, Started, OneOwner, OneAttempt
<1>6. ASSUME NEW r \in Request, Save(r) PROVE KeyInvariant'
  <2>1. CASE /\ key' = [key EXCEPT !.status = "COMPLETED", !.response = r]
             /\ answer' = [answer EXCEPT ![r] = r]
             /\ pc' = [pc EXCEPT ![r] = "answered"]
             /\ UNCHANGED failures
    <3>1. UNCHANGED <<body, effects, ran, failures, crashes, contested>> /\ pc[r] = "saving"
      BY <1>6, <2>1 DEF Save
    <3>2. /\ key'.status = "COMPLETED" /\ key'.response = r /\ key'.hash = key.hash
          /\ key' \in [status: KeyStatus, hash: Body \cup {None},
                      response: Request \cup {None}]
      BY <2>1
    <3>3. IdempotencyTypeOK'
      BY <2>1, <3>1, <3>2 DEF Started
    <3>4. (Started /\ OneOwner)'
      BY <2>1, <3>1, <3>2 DEF Started, OneOwner
    <3>5. ASSUME ~contested PROVE OneAttempt'
      <4>1. key.status = "IN_PROGRESS"
        BY <3>1, <3>5 DEF OneAttempt
      <4>2. \A s \in Request : answer[s] = None /\ (Running(s) => s = r)
        BY <3>1, <3>5, <4>1 DEF OneAttempt
      <4> QED
        BY <2>1, <3>2, <4>2 DEF OneAttempt
    <3> QED
      BY <3>1, <3>3, <3>4, <3>5 DEF OneAttempt
  <2>2. CASE /\ failures < MaxFailures
             /\ failures' = failures + 1
             /\ pc' = [pc EXCEPT ![r] = "failing"]
             /\ UNCHANGED <<key, answer>>
    BY <1>6, <2>2 DEF Save, Started, OneOwner, OneAttempt
  <2> QED
    BY <1>6, <2>1, <2>2 DEF Save
<1>7. ASSUME NEW r \in Request, Fail(r) PROVE KeyInvariant'
  BY <1>7 DEF Fail, Started, OneOwner, OneAttempt
<1>8. ASSUME NEW r \in Request, Crash(r) PROVE KeyInvariant'
  BY <1>8 DEF Crash, Started, OneOwner, OneAttempt
<1> QED
  BY <1>1, <1>2, <1>3, <1>4, <1>5, <1>6, <1>7, <1>8 DEF Next

\* The invariant holds in every reachable state.
THEOREM KeyInvariantHolds == Spec => []KeyInvariant
  BY KeyInit, KeyStep, PTL DEF Spec

\* Whatever fails, dies or overlaps, requests with different bodies are never
\* both executed under one key.
THEOREM KeyHasOneBody == Spec => []OneBodyPerKey
<1>1. KeyInvariant => OneBodyPerKey
  BY DEF KeyInvariant, OneOwner, OneBodyPerKey
<1> QED
  BY <1>1, KeyInvariantHolds, PTL

\* All clients that are answered got the same response, unless two retries took
\* over the same failed record.
THEOREM KeyAnswersAgree == Spec => []AnswersAgree
<1>1. KeyInvariant => AnswersAgree
  BY DEF KeyInvariant, OneAttempt, AnswersAgree
<1> QED
  BY <1>1, KeyInvariantHolds, PTL

\* A stored response is never changed again, under the same condition.
THEOREM KeyStoredIsFinal == Spec => StoredIsFinal
<1>1. KeyInvariant /\ [Next]_vars
          => [key.status = "COMPLETED" /\ ~contested' => UNCHANGED key]_vars
  <2> SUFFICES ASSUME KeyInvariant, Next, key.status = "COMPLETED", ~contested'
               PROVE  UNCHANGED key
    OBVIOUS
  <2>1. PICK r \in Request : \/ Begin(r) \/ Lookup(r) \/ Reclaim(r)
                             \/ Handle(r) \/ Save(r) \/ Fail(r) \/ Crash(r)
    BY DEF Next
  <2>2. ~contested
    BY <2>1 DEF Begin, Lookup, Reclaim, Handle, Save, Fail, Crash
  <2>3. ~Running(r)
    BY <2>2 DEF KeyInvariant, OneAttempt
  <2> QED
    BY <2>1, <2>3 DEF Begin, Lookup, Reclaim, Handle, Save, Fail, Crash, Running
<1> QED
  BY <1>1, KeyInvariantHolds, PTL DEF Spec, StoredIsFinal

-----------------------------------------------------------------------------
\* Without contested retries, every attempt but the last has failed; once that
\* failure is counted, and until the record is taken over, so has the last.
Attempts ==
    /\ IsFiniteSet(ran)
    /\ ~contested =>
          /\ Cardinality(ran) <= failures + 1
          /\ key.status = "FAILED" \/ (\E r \in Request : pc[r] = "failing")
                => Cardinality(ran) <= failures

\* Every step keeps the count of the attempts.
LEMMA AttemptsStep == KeyInvariant /\ Attempts /\ [Next]_vars => Attempts'
<1> USE IdempotencyAssumption DEF IdempotencyAssumption, Running, Goto
<1> SUFFICES ASSUME KeyInvariant, Attempts, [Next]_vars PROVE Attempts'
  OBVIOUS
<1>0. /\ failures \in Nat /\ Cardinality(ran) \in Nat
      /\ pc \in [Request -> {"new", "lookup", "reclaim", "handling", "saving", "failing",
                             "answered", "refused", "error", "dead"}]
      /\ contested \in BOOLEAN
  BY FS_CardinalityType DEF KeyInvariant, IdempotencyTypeOK, Attempts
<1>a. ASSUME NEW r \in Request
      PROVE  /\ IsFiniteSet(ran \cup {r})
             /\ Cardinality(ran \cup {r}) \in Nat
             /\ Cardinality(ran \cup {r}) <= Cardinality(ran) + 1
  BY <1>0, FS_AddElement DEF Attempts
<1>1. CASE UNCHANGED vars
  BY <1>1 DEF vars, Attempts
<1>2. ASSUME NEW r \in Request, Begin(r) PROVE Attempts'
  <2>1. CASE key.status # "NONE"
    BY <1>0, <1>2, <2>1 DEF Begin, Attempts
  <2>2. CASE key.status = "NONE"
    <3>1. /\ key'.status = "IN_PROGRESS" /\ ran' = {r} /\ failures' = failures
          /\ pc' = [pc EXCEPT ![r] = "handling"]
          /\ \A s \in Request : pc[s] = "new"
      BY <1>2, <2>2 DEF Begin, NoKey, KeyInvariant, OneOwner
    <3>2. IsFiniteSet({r}) /\ Cardinality({r}) = 1
      BY FS_Singleton
    <3> QED
      BY <1>0, <3>1, <3>2 DEF Attempts
  <2> QED
    BY <2>1, <2>2
<1>3. ASSUME NEW r \in Request, Lookup(r) PROVE Attempts'
  BY <1>0, <1>3 DEF Lookup, Attempts
<1>4. ASSUME NEW r \in Request, Reclaim(r) PROVE Attempts'
  <2>1. /\ ran' = ran \cup {r} /\ failures' = failures
        /\ contested' = (contested \/ key.status # "FAILED")
        /\ pc' = [pc EXCEPT ![r] = "handling"]
        /\ key' = [key EXCEPT !.status = "IN_PROGRESS", !.hash = body[r]]
    BY <1>4 DEF Reclaim
  <2>2. IsFiniteSet(ran')
    BY <1>a, <2>1
  <2>3. ASSUME ~contested'
        PROVE  /\ Cardinality(ran') <= failures' + 1
               /\ key'.status # "FAILED"
               /\ \A s \in Request : pc'[s] # "failing"
    <3>1. ~contested /\ key.status = "FAILED"
      BY <1>0, <2>1, <2>3
    <3>2. \A s \in Request : pc[s] # "failing"
      BY <3>1 DEF KeyInvariant, OneAttempt
    <3>3. key'.status = "IN_PROGRESS"
      BY <2>1 DEF KeyInvariant, IdempotencyTypeOK
    <3> QED
      BY <1>0, <1>a, <2>1, <3>1, <3>2, <3>3 DEF Attempts
  <2> QED
    BY <2>2, <2>3 DEF Attempts
<1>5. ASSUME NEW r \in Request, Handle(r) PROVE Attempts'
  BY <1>0, <1>5 DEF Handle, Attempts
<1>6. ASSUME NEW r \in Request, Save(r) PROVE Attempts'
  <2>1. CASE key' = [key EXCEPT !.status = "COMPLETED", !.response = r]
             /\ pc' = [pc EXCEPT ![r] = "answered"] /\ UNCHANGED failures
    <3>1. key'.status = "COMPLETED"
      BY <2>1 DEF KeyInvariant, IdempotencyTypeOK
    <3> QED
      BY <1>0, <1>6, <2>1, <3>1 DEF Save, Attempts
  <2>2. CASE failures' = failures + 1 /\ UNCHANGED key
    BY <1>0, <1>6, <2>2 DEF Save, Attempts
  <2> QED
    BY <1>6, <2>1, <2>2 DEF Save
<1>7. ASSUME NEW r \in Request, Fail(r) PROVE Attempts'
  BY <1>0, <1>7 DEF Fail, Attempts, KeyInvariant, IdempotencyTypeOK
<1>8. ASSUME NEW r \in Request, Crash(r) PROVE Attempts'
  BY <1>0, <1>8 DEF Crash, Attempts
<1> QED
  BY <1>1, <1>2, <1>3, <1>4, <1>5, <1>6, <1>7, <1>8 DEF Next

\* A request is executed again only for an attempt that failed, and never beside
\* another one, unless two retries take over the same failed record.
THEOREM KeyRetriesFollowFailures == Spec => []RetriesFollowFailures
<1>1. Init => Attempts
  <2> SUFFICES ASSUME Init PROVE Attempts
    OBVIOUS
  <2>1. IsFiniteSet(ran) /\ Cardinality(ran) = 0 /\ failures = 0
    BY FS_EmptySet DEF Init
  <2> QED
    BY <2>1 DEF Init, Attempts
<1>2. KeyInvariant /\ Attempts => RetriesFollowFailures
  <2> SUFFICES ASSUME KeyInvariant, Attempts, ~contested
               PROVE  Cardinality({r \in Request : Running(r)}) <= 1
    BY DEF RetriesFollowFailures, Attempts
  <2>1. CASE {r \in Request : Running(r)} = {}
    BY <2>1, FS_EmptySet
  <2>2. ASSUME NEW r \in Request, Running(r) PROVE Cardinality({s \in Request : Running(s)}) = 1
    <3>1. {s \in Request : Running(s)} = {r}
      BY <2>2 DEF KeyInvariant, OneAttempt
    <3> QED
      BY <3>1, FS_Singleton
  <2> QED
    BY <2>1, <2>2
<1> QED
  BY <1>1, <1>2, AttemptsStep, KeyInvariantHolds, PTL DEF Spec
==============================================================================
