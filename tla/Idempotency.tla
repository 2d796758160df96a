----------------------------- MODULE Idempotency -----------------------------
(***************************************************************************)
(* The record of one idempotency key, IdempotencyInterceptor: requests of  *)
(* a till that carry the same key arrive together, again after a failure,  *)
(* or after their process died.  Every statement on the record is one      *)
(* action; the guarded handler is one action, which may fail before or     *)
(* after it has taken effect.                                              *)
(***************************************************************************)
EXTENDS Naturals, FiniteSets

CONSTANTS Request,     \* requests that carry the key
          Body,        \* the bodies they carry
          None,        \* no body, no response
          MaxFailures, \* bound: statements and handlers that fail
          MaxCrashes   \* bound: processes that die

ASSUME IdempotencyAssumption ==
    None \notin Request \cup Body /\ MaxFailures \in Nat /\ MaxCrashes \in Nat

VARIABLES
    key,      \* the IdempotencyKey row: status, requestHash, response
    pc,       \* how far each request is
    body,     \* what it carries
    answer,   \* the response its client has got; a response is named after the
              \* request whose handler computed it
    effects,  \* history: the requests whose handler took effect
    ran,      \* history: the requests whose handler was started
    failures, \* history: failed attempts
    crashes,  \* history: processes that died
    contested \* history: a record was reclaimed that was no longer FAILED

vars == <<key, pc, body, answer, effects, ran, failures, crashes, contested>>

KeyStatus == {"NONE", "IN_PROGRESS", "COMPLETED", "FAILED"}
NoKey == [status |-> "NONE", hash |-> None, response |-> None]
Running(r) == pc[r] \in {"handling", "saving", "failing"}

\* A COMPLETED record has the response of a request that took effect.
IdempotencyTypeOK ==
    /\ key \in [status: KeyStatus, hash: Body \cup {None}, response: Request \cup {None}]
    /\ key.status = "COMPLETED" => key.response \in effects
    /\ pc \in [Request -> {"new", "lookup", "reclaim", "handling", "saving", "failing",
                           "answered", "refused", "error", "dead"}]
    /\ body \in [Request -> Body]
    /\ answer \in [Request -> Request \cup {None}]
    /\ effects \subseteq ran /\ ran \subseteq Request
    /\ failures \in 0 .. MaxFailures /\ crashes \in 0 .. MaxCrashes
    /\ contested \in BOOLEAN

Init ==
    /\ key = NoKey
    /\ pc = [r \in Request |-> "new"]
    /\ body \in [Request -> Body]
    /\ answer = [r \in Request |-> None]
    /\ effects = {} /\ ran = {}
    /\ failures = 0 /\ crashes = 0
    /\ contested = FALSE

Goto(r, to) == pc' = [pc EXCEPT ![r] = to]

-----------------------------------------------------------------------------
\* Mutant: the record is upserted.
BeginUpserting(r) ==
    /\ pc[r] = "new"
    /\ key' = [NoKey EXCEPT !.status = "IN_PROGRESS", !.hash = body[r]]
    /\ ran' = ran \cup {r}
    /\ Goto(r, "handling")
    /\ UNCHANGED <<body, answer, effects, failures, crashes, contested>>

\* create: the first one inserts the record, the others violate its unique key.
Begin(r) ==
    /\ pc[r] = "new"
    /\ IF key.status = "NONE"
       THEN /\ key' = [NoKey EXCEPT !.status = "IN_PROGRESS", !.hash = body[r]]
            /\ ran' = ran \cup {r}
            /\ Goto(r, "handling")
       ELSE /\ Goto(r, "lookup")
            /\ UNCHANGED <<key, ran>>
    /\ UNCHANGED <<body, answer, effects, failures, crashes, contested>>

\* Mutant: a key is looked up, and its body not compared.
LookupAnyBody(r) ==
    /\ pc[r] = "lookup"
    /\ \/ key.status = "IN_PROGRESS" /\ Goto(r, "refused") /\ UNCHANGED answer
       \/ /\ key.status = "COMPLETED"
          /\ Goto(r, "answered")
          /\ answer' = [answer EXCEPT ![r] = key.response]
       \/ key.status = "FAILED" /\ Goto(r, "reclaim") /\ UNCHANGED answer
    /\ UNCHANGED <<key, body, effects, ran, failures, crashes, contested>>

\* findUniqueOrThrow: refused, replayed, or tried again.
Lookup(r) ==
    /\ pc[r] = "lookup"
    /\ \/ /\ key.hash # body[r] \/ key.status = "IN_PROGRESS"
          /\ Goto(r, "refused")
          /\ UNCHANGED answer
       \/ /\ key.hash = body[r] /\ key.status = "COMPLETED"
          /\ Goto(r, "answered")
          /\ answer' = [answer EXCEPT ![r] = key.response]
       \/ /\ key.hash = body[r] /\ key.status = "FAILED"
          /\ Goto(r, "reclaim")
          /\ UNCHANGED answer
    /\ UNCHANGED <<key, body, effects, ran, failures, crashes, contested>>

\* The update that takes a FAILED record over asks nothing about it any more.
Reclaim(r) ==
    /\ pc[r] = "reclaim"
    /\ key' = [key EXCEPT !.status = "IN_PROGRESS", !.hash = body[r]]
    /\ contested' = (contested \/ key.status # "FAILED")
    /\ ran' = ran \cup {r}
    /\ Goto(r, "handling")
    /\ UNCHANGED <<body, answer, effects, failures, crashes>>

\* next.handle(): one that fails may have committed part of its work.
Handle(r) ==
    /\ pc[r] = "handling"
    /\ \/ /\ effects' = effects \cup {r}
          /\ Goto(r, "saving")
          /\ UNCHANGED failures
       \/ /\ failures < MaxFailures
          /\ effects' \in {effects, effects \cup {r}}
          /\ failures' = failures + 1
          /\ Goto(r, "failing")
    /\ UNCHANGED <<key, body, answer, ran, crashes, contested>>

\* Mutant: the client is answered also when the response could not be stored.
SaveAnsweringAnyway(r) ==
    /\ pc[r] = "saving"
    /\ answer' = [answer EXCEPT ![r] = r]
    /\ \/ /\ key' = [key EXCEPT !.status = "COMPLETED", !.response = r]
          /\ Goto(r, "answered")
          /\ UNCHANGED failures
       \/ /\ failures < MaxFailures
          /\ failures' = failures + 1
          /\ Goto(r, "failing")
          /\ UNCHANGED key
    /\ UNCHANGED <<body, effects, ran, crashes, contested>>

\* The response is stored before the client gets it.
Save(r) ==
    /\ pc[r] = "saving"
    /\ \/ /\ key' = [key EXCEPT !.status = "COMPLETED", !.response = r]
          /\ answer' = [answer EXCEPT ![r] = r]
          /\ Goto(r, "answered")
          /\ UNCHANGED failures
       \/ /\ failures < MaxFailures
          /\ failures' = failures + 1
          /\ Goto(r, "failing")
          /\ UNCHANGED <<key, answer>>
    /\ UNCHANGED <<body, effects, ran, crashes, contested>>

\* catchError: the record may be retried; or that update fails as well.
Fail(r) ==
    /\ pc[r] = "failing"
    /\ \/ key' = [key EXCEPT !.status = "FAILED"] /\ UNCHANGED failures
       \/ failures < MaxFailures /\ failures' = failures + 1 /\ UNCHANGED key
    /\ Goto(r, "error")
    /\ UNCHANGED <<body, answer, effects, ran, crashes, contested>>

\* The process dies, in the handler with or without its effect.
Crash(r) ==
    /\ crashes < MaxCrashes
    /\ Running(r) \/ pc[r] \in {"lookup", "reclaim"}
    /\ crashes' = crashes + 1
    /\ effects' \in {effects, IF pc[r] = "handling" THEN effects \cup {r} ELSE effects}
    /\ Goto(r, "dead")
    /\ UNCHANGED <<key, body, answer, ran, failures, contested>>

\* Nothing is left to do when every request has ended.
Next == \E r \in Request :
           \/ Begin(r) \/ Lookup(r) \/ Reclaim(r)
           \/ Handle(r) \/ Save(r) \/ Fail(r) \/ Crash(r)

Spec == Init /\ [][Next]_vars

-----------------------------------------------------------------------------
\* One key never lets two different bodies take effect, whatever fails, dies or
\* overlaps.
OneBodyPerKey == \A r, s \in ran : body[r] = body[s]

\* A request is executed again only for an attempt that failed, and never beside
\* another attempt: a repeat that arrives while the first one runs, or after its
\* process died, is not executed.  Only two retries of one failure can break this.
RetriesFollowFailures ==
    ~contested => /\ Cardinality(ran) <= failures + 1
                  /\ Cardinality({r \in Request : Running(r)}) <= 1

\* Every client that is answered gets the same response.
AnswersAgree ==
    ~contested => \A r, s \in Request :
                     None \notin {answer[r], answer[s]} => answer[r] = answer[s]

\* A response, once stored, is what every later repeat of the request gets.
StoredIsFinal == [][key.status = "COMPLETED" /\ ~contested' => UNCHANGED key]_vars
==============================================================================
