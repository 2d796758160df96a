------------------------------- MODULE Outbox -------------------------------
(***************************************************************************)
(* The outbox: rows written with (or after) a change of the POS, and the   *)
(* relay every server process runs on a timer.  A relay lists the oldest   *)
(* rows that are PENDING and available, publishes each to the broker,      *)
(* marks it, and emits it to the clients of its own process.  Nothing is   *)
(* locked and nothing is checked again: relays work on each other's rows   *)
(* and on what they read at the start of their run.                        *)
(*                                                                         *)
(* publish() waits while the broker cannot be reached; it fails when the   *)
(* channel closes or the broker refuses, maybe after the broker stored the *)
(* message.  A failed relay run is forgotten and the timer starts another. *)
(***************************************************************************)
EXTENDS Sequences, FiniteSets, Integers

CONSTANTS Process,      \* server processes, each with its relay
          Inside,       \* events whose row is written with the change ...
          Aside,        \* ... and events whose row is written after its commit
          BatchSize, MaxAttempts,
          MaxFailures,  \* bound: failures of each event
          MaxCrashes    \* bound: processes that die, runs that are broken off

Event == Inside \cup Aside

ASSUME OutboxAssumption ==
    /\ BatchSize \in Nat \ {0}
    /\ MaxAttempts \in Nat \ {0}

VARIABLES
    changed,   \* the events whose change is committed
    writing,   \* the events whose row a process still has to write
    status,    \* OutboxEvent.status
    attempts,  \* OutboxEvent.attempts
    due,       \* the rows PENDING and available, by availableAt
    pc,        \* what a relay does next
    batch,     \* the rows it listed and has not handled, as it read them
    broker,    \* the events the broker was given
    shown,     \* the events emitted to the clients of some process
    failures,  \* how often an event could not be published or marked
    crashes

rowVars == <<status, attempts, due>>
relayVars == <<pc, batch>>
outboxVars == <<changed, writing, rowVars, relayVars, broker, shown, failures, crashes>>

OutboxStatus == {"PENDING", "PUBLISHED", "FAILED"}

OutboxInit ==
    /\ changed = {}
    /\ writing = [p \in Process |-> {}]
    /\ status = [e \in Event |-> "NONE"]
    /\ attempts = [e \in Event |-> 0]
    /\ due = <<>>
    /\ pc = [p \in Process |-> "idle"]
    /\ batch = [p \in Process |-> <<>>]
    /\ broker = {}
    /\ shown = {}
    /\ failures = [e \in Event |-> 0]
    /\ crashes = 0

-----------------------------------------------------------------------------
\* OutboxService.write: a PENDING row that is available at once.
InsertRow(e) ==
    /\ status' = [status EXCEPT ![e] = "PENDING"]
    /\ due' = Append(due, e)
    /\ UNCHANGED attempts

\* A transaction commits, with the row of its event or without.
CommitChange(p, e) ==
    /\ e \notin changed
    /\ changed' = changed \cup {e}
    /\ IF e \in Inside
       THEN InsertRow(e) /\ UNCHANGED writing
       ELSE writing' = [writing EXCEPT ![p] = @ \cup {e}] /\ UNCHANGED rowVars
    /\ UNCHANGED <<relayVars, broker, shown, failures, crashes>>

\* The row that follows in a statement of its own, which may fail.
WriteRow(p, e) ==
    /\ e \in writing[p]
    /\ writing' = [writing EXCEPT ![p] = @ \ {e}]
    /\ InsertRow(e) \/ UNCHANGED rowVars
    /\ UNCHANGED <<changed, relayVars, broker, shown, failures, crashes>>

\* The backoff of a failed row has passed.
BackoffOver(e) ==
    /\ status[e] = "PENDING"
    /\ \A i \in DOMAIN due : due[i] # e
    /\ due' = Append(due, e)
    /\ UNCHANGED <<changed, writing, status, attempts, relayVars, broker, shown, failures, crashes>>

-----------------------------------------------------------------------------
Listed(n) == [i \in 1 .. n |-> [event |-> due[i], attempts |-> attempts[due[i]]]]

\* Mutant: a row is marked when it is listed.
ListRowsClaiming(p) ==
    LET n == IF Len(due) < BatchSize THEN Len(due) ELSE BatchSize
    IN  /\ pc[p] = "idle"
        /\ due # <<>>
        /\ batch' = [batch EXCEPT ![p] = Listed(n)]
        /\ pc' = [pc EXCEPT ![p] = "publishing"]
        /\ status' = [e \in Event |-> IF \E i \in 1 .. n : due[i] = e THEN "PUBLISHED" ELSE status[e]]
        /\ due' = SubSeq(due, n + 1, Len(due))
        /\ UNCHANGED <<changed, writing, attempts, broker, shown, failures, crashes>>

\* relayPending: findMany.  A process starts no run while one is under way.
ListRows(p) ==
    LET n == IF Len(due) < BatchSize THEN Len(due) ELSE BatchSize
    IN  /\ pc[p] = "idle"
        /\ due # <<>>
        /\ batch' = [batch EXCEPT ![p] = Listed(n)]
        /\ pc' = [pc EXCEPT ![p] = "publishing"]
        /\ UNCHANGED <<changed, writing, rowVars, broker, shown, failures, crashes>>

Current(p) == Head(batch[p]).event
Goto(p, next) == pc' = [pc EXCEPT ![p] = next] /\ UNCHANGED batch
NextInBatch(p) ==
    /\ batch' = [batch EXCEPT ![p] = Tail(@)]
    /\ pc' = [pc EXCEPT ![p] = IF Len(batch[p]) = 1 THEN "idle" ELSE "publishing"]
NotDue(e) ==
    \/ \E i \in DOMAIN due :
          /\ due[i] = e
          /\ due' = [j \in 1 .. Len(due) - 1 |-> due[IF j < i THEN j ELSE j + 1]]
    \/ (\A i \in DOMAIN due : due[i] # e) /\ UNCHANGED due

CountFailure(p) ==
    /\ failures[Current(p)] < MaxFailures
    /\ failures' = [failures EXCEPT ![Current(p)] = @ + 1]
    /\ Goto(p, "failing")

\* Mutant: publish() is not waited for.
PublishUnconfirmed(p) ==
    /\ pc[p] = "publishing"
    /\ broker' \in {broker, broker \cup {Current(p)}}
    /\ Goto(p, "marking")
    /\ UNCHANGED <<changed, writing, rowVars, shown, failures, crashes>>

\* Broker and relay: the broker stores the message and says so, or the call
\* fails, whether the broker stored it or not.
Publish(p) ==
    /\ pc[p] = "publishing"
    /\ \/ /\ broker' = broker \cup {Current(p)}
          /\ Goto(p, "marking")
          /\ UNCHANGED failures
       \/ /\ broker' \in {broker, broker \cup {Current(p)}}
          /\ CountFailure(p)
    /\ UNCHANGED <<changed, writing, rowVars, shown, crashes>>

\* The update to PUBLISHED, whatever the row has become, or its failure.
Mark(p) ==
    /\ pc[p] = "marking"
    /\ \/ /\ status' = [status EXCEPT ![Current(p)] = "PUBLISHED"]
          /\ NotDue(Current(p))
          /\ Goto(p, "emitting")
          /\ UNCHANGED failures
       \/ /\ CountFailure(p)
          /\ UNCHANGED <<status, due>>
    /\ UNCHANGED <<changed, writing, attempts, broker, shown, crashes>>

\* eventBus.publish reaches the websockets of this process only.
Emit(p) ==
    /\ pc[p] = "emitting"
    /\ shown' = shown \cup {Current(p)}
    /\ NextInBatch(p)
    /\ UNCHANGED <<changed, writing, rowVars, broker, failures, crashes>>

\* Mutant: one attempt less.
NoteFailureEarly(p) ==
    LET e == Current(p)
        n == Head(batch[p]).attempts + 1
    IN  /\ pc[p] = "failing"
        /\ attempts' = [attempts EXCEPT ![e] = n]
        /\ status' = [status EXCEPT ![e] = IF n + 1 >= MaxAttempts THEN "FAILED" ELSE "PENDING"]
        /\ NotDue(e)
        /\ NextInBatch(p)
        /\ UNCHANGED <<changed, writing, broker, shown, failures, crashes>>

\* The catch block counts from the row as it was listed, and writes the row
\* back whatever another relay has made of it.
NoteFailure(p) ==
    LET e == Current(p)
        n == Head(batch[p]).attempts + 1
    IN  /\ pc[p] = "failing"
        /\ attempts' = [attempts EXCEPT ![e] = n]
        /\ status' = [status EXCEPT ![e] = IF n >= MaxAttempts THEN "FAILED" ELSE "PENDING"]
        /\ NotDue(e)
        /\ NextInBatch(p)
        /\ UNCHANGED <<changed, writing, broker, shown, failures, crashes>>

\* The update of the catch block fails and ends the run, or the process dies.
BreakOff(p) ==
    /\ crashes < MaxCrashes
    /\ crashes' = crashes + 1
    /\ \/ pc[p] = "failing" /\ UNCHANGED writing
       \/ /\ pc[p] # "idle" \/ writing[p] # {}
          /\ writing' = [writing EXCEPT ![p] = {}]
    /\ pc' = [pc EXCEPT ![p] = "idle"]
    /\ batch' = [batch EXCEPT ![p] = <<>>]
    /\ UNCHANGED <<changed, rowVars, broker, shown, failures>>

-----------------------------------------------------------------------------
RelayStep(p) == ListRows(p) \/ Publish(p) \/ Mark(p) \/ Emit(p) \/ NoteFailure(p)

OutboxNext ==
    \/ \E p \in Process :
          \/ \E e \in Event : CommitChange(p, e) \/ WriteRow(p, e)
          \/ RelayStep(p)
          \/ BreakOff(p)
    \/ \E e \in Event : BackoffOver(e)

OutboxSpec == OutboxInit /\ [][OutboxNext]_outboxVars

\* Timers fire, the broker answers in the end, backoffs pass.
FairOutbox ==
    /\ OutboxSpec
    /\ \A p \in Process : WF_outboxVars(RelayStep(p))
    /\ \A e \in Event : WF_outboxVars(BackoffOver(e))

-----------------------------------------------------------------------------
OutboxTypeOK ==
    /\ changed \subseteq Event
    /\ writing \in [Process -> SUBSET Aside]
    /\ status \in [Event -> OutboxStatus \cup {"NONE"}]
    /\ attempts \in [Event -> Nat]
    /\ due \in Seq(Event)
    /\ pc \in [Process -> {"idle", "publishing", "marking", "emitting", "failing"}]
    /\ batch \in [Process -> Seq([event : Event, attempts : Nat])]
    /\ \A p \in Process : pc[p] = "idle" <=> batch[p] = <<>>
    /\ broker \subseteq Event
    /\ shown \subseteq broker
    /\ failures \in [Event -> Nat]
    /\ crashes \in Nat

\* The outbox keeps what Delivery promises for the events written with their
\* change, whichever relays race, fail or die.
Promised == INSTANCE Delivery WITH
                Event <- Inside,
                Limit <- MaxAttempts,
                happened <- changed \cap Inside,
                delivered <- broker \cap Inside,
                refused <- [e \in Inside |-> failures[e]]
DeliversInside == Promised!DeliverySpec

\* No row is given up before it really failed maxAttempts times, although
\* relays overwrite each other's counts with counts from their own reads.
NeverGivesUpEarly ==
    \A e \in Event : status[e] = "FAILED" => failures[e] >= MaxAttempts

\* docs/pos-backend-api.md: "an event that's been written is guaranteed to
\* eventually reach connected clients even across a process restart".
ReachesClients == \A e \in Event : status[e] # "NONE" ~> e \in shown
=============================================================================
