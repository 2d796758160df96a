---------------------------- MODULE OutboxProofs ----------------------------
(***************************************************************************)
(* The outbox never gives a row up early and never hands the broker an     *)
(* event whose change is not committed, for any number of processes,       *)
(* events, failures and crashes.                                           *)
(***************************************************************************)
EXTENDS Outbox, SequenceTheorems, TLAPS

\* Rows, listed rows and rows to be written belong to committed changes.
OfChanges ==
    /\ \A e \in Event : status[e] # "NONE" => e \in changed
    /\ \A p \in Process : writing[p] \subseteq changed
    /\ \A i \in 1 .. Len(due) : due[i] \in changed
    /\ \A p \in Process : \A i \in 1 .. Len(batch[p]) : batch[p][i].event \in changed

\* No count of attempts, in the row or in a relay's memory, exceeds the
\* failures there were; a failure not noted yet is not counted yet.
CountsAreReal ==
    /\ \A e \in Event : attempts[e] <= failures[e]
    /\ \A p \in Process : \A i \in 1 .. Len(batch[p]) :
          batch[p][i].attempts <= failures[batch[p][i].event]
    /\ \A p \in Process : pc[p] = "failing" => batch[p][1].attempts < failures[batch[p][1].event]

\* What a relay marks and emits, the broker has.
HandedOver == \A p \in Process : pc[p] \in {"marking", "emitting"} => Current(p) \in broker

OutboxInv ==
    /\ OutboxTypeOK
    /\ OfChanges
    /\ CountsAreReal
    /\ HandedOver
    /\ NeverGivesUpEarly

LEMMA EmptyHasNoLength ==
    ASSUME NEW S, NEW s \in Seq(S) PROVE s = <<>> <=> Len(s) = 0
  BY EmptySeq

LEMMA HeadIsFirst ==
    ASSUME NEW S, NEW s \in Seq(S), s # <<>>
    PROVE  Len(s) \in Nat \ {0} /\ Head(s) = s[1] /\ s[1] \in S
  <1>1. Len(s) \in Nat \ {0}
    BY EmptySeq
  <1>2. 1 \in 1 .. Len(s)
    BY <1>1
  <1> QED
    BY <1>1, <1>2, ElementOfSeq

LEMMA FunctionIsSequence ==
    ASSUME NEW S, NEW n \in Nat, NEW f \in [1 .. n -> S]
    PROVE  f \in Seq(S) /\ Len(f) = n
  OBVIOUS

LEMMA OutboxInitInv == OutboxInit => OutboxInv
  <1> SUFFICES ASSUME OutboxInit PROVE OutboxInv
    OBVIOUS
  <1>1. OutboxTypeOK
    BY DEF OutboxInit, OutboxTypeOK, Event
  <1>2. OfChanges /\ CountsAreReal /\ HandedOver /\ NeverGivesUpEarly
    BY OutboxAssumption DEF OutboxInit, OfChanges, CountsAreReal, HandedOver, NeverGivesUpEarly, Event
  <1> QED
    BY <1>1, <1>2 DEF OutboxInv

\* Parts of the invariant that only look at the relays' memory survive a
\* step that leaves it alone and takes back neither changes nor failures.
LEMMA InsertRowInv ==
    ASSUME OutboxInv, NEW e \in Event, e \in changed', changed \subseteq changed',
           changed' \subseteq Event, writing' \in [Process -> SUBSET Aside],
           \A p \in Process : writing'[p] \subseteq changed',
           InsertRow(e), UNCHANGED <<relayVars, broker, shown, failures, crashes>>
    PROVE  OutboxInv'
  <1>1. due' \in Seq(Event) /\ Len(due') = Len(due) + 1
        /\ due'[Len(due) + 1] = e /\ \A i \in 1 .. Len(due) : due'[i] = due[i]
    BY DEF OutboxInv, OutboxTypeOK, InsertRow
  <1>2. OutboxTypeOK'
    BY <1>1 DEF OutboxInv, OutboxTypeOK, InsertRow, relayVars, OutboxStatus
  <1>3. OfChanges'
    <2>1. \A i \in 1 .. Len(due') : due'[i] \in changed'
      <3>1. Len(due) \in Nat /\ \A i \in 1 .. Len(due) : due[i] \in changed
        BY DEF OutboxInv, OutboxTypeOK, OfChanges
      <3> QED
        BY <1>1, <3>1
    <2> QED
      BY <2>1 DEF OutboxInv, OutboxTypeOK, OfChanges, InsertRow, relayVars
  <1>4. CountsAreReal' /\ HandedOver' /\ NeverGivesUpEarly'
    BY DEF OutboxInv, OutboxTypeOK, CountsAreReal, HandedOver, NeverGivesUpEarly, Current, InsertRow, relayVars
  <1> QED
    BY <1>2, <1>3, <1>4 DEF OutboxInv

\* Taking a row out of the list of available rows leaves rows of the list.
LEMMA NotDueKeeps ==
    ASSUME OutboxInv, NEW e \in Event, NotDue(e)
    PROVE  /\ due' \in Seq(Event)
           /\ \A i \in 1 .. Len(due') : due'[i] \in changed
  <1>0. due \in Seq(Event) /\ Len(due) \in Nat /\ DOMAIN due = 1 .. Len(due)
        /\ \A i \in 1 .. Len(due) : due[i] \in changed
    BY DEF OutboxInv, OutboxTypeOK, OfChanges
  <1>1. CASE UNCHANGED due
    BY <1>0, <1>1
  <1>2. CASE \E i \in DOMAIN due :
               due' = [j \in 1 .. Len(due) - 1 |-> due[IF j < i THEN j ELSE j + 1]]
    <2>1. PICK i \in 1 .. Len(due) :
               due' = [j \in 1 .. Len(due) - 1 |-> due[IF j < i THEN j ELSE j + 1]]
      BY <1>0, <1>2
    <2>2. Len(due) - 1 \in Nat
      BY <1>0
    <2>3. \A j \in 1 .. Len(due) - 1 : due'[j] \in Event \cap changed
      BY <1>0, <2>1
    <2>4. due' \in Seq(Event) /\ Len(due') = Len(due) - 1
      <3>1. due' \in [1 .. Len(due) - 1 -> Event]
        BY <2>1, <2>3
      <3> QED
        BY <2>2, <3>1
    <2> QED
      BY <2>3, <2>4
  <1> QED
    BY <1>1, <1>2 DEF NotDue

\* A relay that goes on to its next row forgets the first.
LEMMA NextInBatchKeeps ==
    ASSUME OutboxInv, NEW p \in Process, NextInBatch(p), pc[p] # "idle"
    PROVE  /\ batch' \in [Process -> Seq([event : Event, attempts : Nat])]
           /\ pc' \in [Process -> {"idle", "publishing", "marking", "emitting", "failing"}]
           /\ pc'[p] \in {"idle", "publishing"}
           /\ pc'[p] = "idle" <=> batch'[p] = <<>>
           /\ \A i \in 1 .. Len(batch'[p]) : i + 1 \in 1 .. Len(batch[p])
                                               /\ batch'[p][i] = batch[p][i + 1]
           /\ \A q \in Process \ {p} : batch'[q] = batch[q] /\ pc'[q] = pc[q]
  <1>1. batch[p] \in Seq([event : Event, attempts : Nat]) /\ batch[p] # <<>>
    BY DEF OutboxInv, OutboxTypeOK
  <1>2. /\ Tail(batch[p]) \in Seq([event : Event, attempts : Nat])
        /\ Len(Tail(batch[p])) = Len(batch[p]) - 1
        /\ Len(batch[p]) \in Nat \ {0}
        /\ \A i \in 1 .. Len(batch[p]) - 1 : Tail(batch[p])[i] = batch[p][i + 1]
    BY <1>1
  <1>3. Tail(batch[p]) = <<>> <=> Len(batch[p]) = 1
    <2>1. Tail(batch[p]) = <<>> <=> Len(Tail(batch[p])) = 0
      BY <1>2, EmptyHasNoLength
    <2> QED
      BY <1>2, <2>1
  <1>4. batch' = [batch EXCEPT ![p] = Tail(batch[p])] /\ batch'[p] = Tail(batch[p])
        /\ pc' = [pc EXCEPT ![p] = IF Len(batch[p]) = 1 THEN "idle" ELSE "publishing"]
        /\ batch \in [Process -> Seq([event : Event, attempts : Nat])]
        /\ pc \in [Process -> {"idle", "publishing", "marking", "emitting", "failing"}]
    BY DEF NextInBatch, OutboxInv, OutboxTypeOK
  <1>5. \A i \in 1 .. Len(batch'[p]) : i + 1 \in 1 .. Len(batch[p])
                                               /\ batch'[p][i] = batch[p][i + 1]
    BY <1>2, <1>4
  <1> QED
    BY <1>2, <1>3, <1>4, <1>5

\* The row a relay works on is the first of its list.
LEMMA FirstRow ==
    ASSUME OutboxInv, NEW p \in Process, pc[p] # "idle"
    PROVE  /\ Head(batch[p]) = batch[p][1]
           /\ batch[p][1] \in [event : Event, attempts : Nat]
           /\ 1 \in 1 .. Len(batch[p])
           /\ Current(p) = batch[p][1].event
           /\ Current(p) \in Event \cap changed
           /\ batch[p][1].attempts <= failures[Current(p)]
  <1>1. batch[p] \in Seq([event : Event, attempts : Nat]) /\ batch[p] # <<>>
    BY DEF OutboxInv, OutboxTypeOK
  <1>2. /\ Len(batch[p]) \in Nat \ {0}
        /\ Head(batch[p]) = batch[p][1]
        /\ batch[p][1] \in [event : Event, attempts : Nat]
    BY <1>1, HeadIsFirst
  <1>3. 1 \in 1 .. Len(batch[p])
    BY <1>2
  <1> QED
    BY <1>2, <1>3 DEF OutboxInv, OfChanges, CountsAreReal, Current

LEMMA ListedRow ==
    ASSUME OutboxInv, NEW q \in Process, NEW i \in 1 .. Len(batch[q])
    PROVE  /\ batch[q][i] \in [event : Event, attempts : Nat]
           /\ batch[q][i].event \in Event \cap changed /\ batch[q][i].attempts \in Nat
           /\ batch[q][i].attempts <= failures[batch[q][i].event]
  <1>1. batch[q] \in Seq([event : Event, attempts : Nat])
    BY DEF OutboxInv, OutboxTypeOK
  <1>2. batch[q][i] \in [event : Event, attempts : Nat]
    BY <1>1, ElementOfSeq
  <1> QED
    BY <1>2 DEF OutboxInv, OfChanges, CountsAreReal

LEMMA CommitChangeInv ==
    ASSUME OutboxInv, NEW p \in Process, NEW e \in Event, CommitChange(p, e)
    PROVE  OutboxInv'
  <1>1. changed' = changed \cup {e} /\ e \in changed' /\ changed' \subseteq Event
    BY DEF CommitChange, OutboxInv, OutboxTypeOK
  <1>2. CASE e \in Inside
    <2>1. InsertRow(e) /\ writing' = writing
      BY <1>2 DEF CommitChange
    <2>2. writing' \in [Process -> SUBSET Aside] /\ \A q \in Process : writing'[q] \subseteq changed'
      BY <1>1, <2>1 DEF OutboxInv, OutboxTypeOK, OfChanges
    <2> QED
      BY <1>1, <2>1, <2>2, InsertRowInv DEF CommitChange
  <1>3. CASE e \notin Inside
    <2>1. e \in Aside
      BY <1>3 DEF Event
    <2>2. /\ writing' = [writing EXCEPT ![p] = @ \cup {e}]
          /\ UNCHANGED <<status, attempts, due, pc, batch, broker, shown, failures, crashes>>
      BY <1>3 DEF CommitChange, rowVars, relayVars
    <2>3. OutboxTypeOK'
      BY <1>1, <2>1, <2>2 DEF OutboxInv, OutboxTypeOK
    <2>4. OfChanges' /\ CountsAreReal' /\ HandedOver' /\ NeverGivesUpEarly'
      BY <1>1, <2>2 DEF OutboxInv, OutboxTypeOK, OfChanges, CountsAreReal, HandedOver, NeverGivesUpEarly, Current
    <2> QED
      BY <2>3, <2>4 DEF OutboxInv
  <1> QED
    BY <1>2, <1>3

LEMMA WriteRowInv ==
    ASSUME OutboxInv, NEW p \in Process, NEW e \in Event, WriteRow(p, e)
    PROVE  OutboxInv'
  <1>1. /\ writing' = [writing EXCEPT ![p] = @ \ {e}]
        /\ UNCHANGED <<changed, pc, batch, broker, shown, failures, crashes>>
    BY DEF WriteRow, relayVars
  <1>2. /\ changed' = changed /\ changed \subseteq Event /\ e \in changed
        /\ writing' \in [Process -> SUBSET Aside]
        /\ \A q \in Process : writing'[q] \subseteq changed'
    BY <1>1 DEF WriteRow, OutboxInv, OutboxTypeOK, OfChanges
  <1>3. CASE InsertRow(e)
    BY <1>1, <1>2, <1>3, InsertRowInv DEF relayVars
  <1>4. CASE UNCHANGED rowVars
    BY <1>1, <1>2, <1>4
       DEF OutboxInv, OutboxTypeOK, OfChanges, CountsAreReal, HandedOver, NeverGivesUpEarly, Current, rowVars
  <1> QED
    BY <1>3, <1>4 DEF WriteRow

LEMMA BackoffOverInv ==
    ASSUME OutboxInv, NEW e \in Event, BackoffOver(e)
    PROVE  OutboxInv'
  <1>1. InsertRow(e)
    <2>1. status \in [Event -> OutboxStatus \cup {"NONE"}] /\ status[e] = "PENDING"
      BY DEF BackoffOver, OutboxInv, OutboxTypeOK
    <2>2. status' = [status EXCEPT ![e] = "PENDING"]
      BY <2>1 DEF BackoffOver
    <2> QED
      BY <2>2 DEF BackoffOver, InsertRow
  <1>2. /\ changed' = changed /\ changed \subseteq Event /\ e \in changed
        /\ writing' \in [Process -> SUBSET Aside]
        /\ \A q \in Process : writing'[q] \subseteq changed'
    BY DEF BackoffOver, OutboxInv, OutboxTypeOK, OfChanges
  <1> QED
    BY <1>1, <1>2, InsertRowInv DEF BackoffOver, relayVars

LEMMA ListRowsInv ==
    ASSUME OutboxInv, NEW p \in Process, ListRows(p)
    PROVE  OutboxInv'
  <1> DEFINE n == IF Len(due) < BatchSize THEN Len(due) ELSE BatchSize
  <1>1. /\ due \in Seq(Event) /\ due # <<>> /\ Len(due) \in Nat \ {0}
        /\ attempts \in [Event -> Nat] /\ failures \in [Event -> Nat]
    BY DEF ListRows, OutboxInv, OutboxTypeOK
  <1>2. n \in Nat \ {0} /\ n <= Len(due)
    BY <1>1, OutboxAssumption
  <1>3. \A i \in 1 .. n : due[i] \in Event /\ due[i] \in changed
                              /\ attempts[due[i]] \in Nat /\ attempts[due[i]] <= failures[due[i]]
    <2> SUFFICES ASSUME NEW i \in 1 .. n
                 PROVE  due[i] \in Event /\ due[i] \in changed
                          /\ attempts[due[i]] \in Nat /\ attempts[due[i]] <= failures[due[i]]
      OBVIOUS
    <2>1. i \in 1 .. Len(due)
      BY <1>1, <1>2
    <2>2. due[i] \in Event
      BY <1>1, <2>1
    <2> QED
      BY <1>1, <2>1, <2>2 DEF OutboxInv, OfChanges, CountsAreReal
  <1>4. /\ Listed(n) \in Seq([event : Event, attempts : Nat])
        /\ Len(Listed(n)) = n
        /\ \A i \in 1 .. n : Listed(n)[i] = [event |-> due[i], attempts |-> attempts[due[i]]]
    <2>1. Listed(n) \in [1 .. n -> [event : Event, attempts : Nat]]
      BY <1>3 DEF Listed
    <2>2. Listed(n) \in Seq([event : Event, attempts : Nat]) /\ Len(Listed(n)) = n
      BY <1>2, <2>1, FunctionIsSequence
    <2> QED
      BY <2>2 DEF Listed
  <1>5. Listed(n) # <<>>
    BY <1>2, <1>4
  <1>6. /\ batch' = [batch EXCEPT ![p] = Listed(n)]
        /\ pc' = [pc EXCEPT ![p] = "publishing"]
        /\ UNCHANGED <<changed, writing, status, attempts, due, broker, shown, failures, crashes>>
    BY DEF ListRows, rowVars
  <1> HIDE DEF n
  <1>7. OutboxTypeOK'
    BY <1>4, <1>5, <1>6 DEF OutboxInv, OutboxTypeOK
  <1>8. \A q \in Process : \A i \in 1 .. Len(batch'[q]) :
           /\ batch'[q][i].event \in changed
           /\ batch'[q][i].attempts <= failures[batch'[q][i].event]
    <2> TAKE q \in Process
    <2>1. CASE q = p
      <3>1. batch'[q] = Listed(n)
        BY <1>6, <2>1 DEF OutboxInv, OutboxTypeOK
      <3> TAKE i \in 1 .. Len(batch'[q])
      <3>2. batch'[q][i] = [event |-> due[i], attempts |-> attempts[due[i]]] /\ i \in 1 .. n
        BY <1>4, <3>1
      <3> QED
        BY <1>3, <3>2
    <2>2. CASE q # p
      BY <1>6, <2>2, ListedRow DEF OutboxInv, OutboxTypeOK
    <2> QED
      BY <2>1, <2>2
  <1>9. \A q \in Process : pc'[q] \notin {"idle", "publishing"} => pc'[q] = pc[q] /\ batch'[q] = batch[q]
    BY <1>6 DEF OutboxInv, OutboxTypeOK
  <1>10. OfChanges' /\ CountsAreReal' /\ HandedOver' /\ NeverGivesUpEarly'
    BY <1>6, <1>8, <1>9 DEF OutboxInv, OfChanges, CountsAreReal, HandedOver, NeverGivesUpEarly, Current
  <1> QED
    BY <1>7, <1>10 DEF OutboxInv

\* Publishing or marking fails: the relay keeps its list and counts.
LEMMA CountFailureInv ==
    ASSUME OutboxInv, NEW p \in Process, pc[p] # "idle", CountFailure(p),
           UNCHANGED <<changed, writing, rowVars, shown, crashes>>,
           broker' \in {broker, broker \cup {Current(p)}}
    PROVE  OutboxInv'
  <1>1. /\ batch[p][1] \in [event : Event, attempts : Nat] /\ 1 \in 1 .. Len(batch[p])
        /\ Current(p) = batch[p][1].event /\ Current(p) \in Event
        /\ batch[p][1].attempts <= failures[Current(p)]
    BY FirstRow
  <1>2. /\ failures' = [failures EXCEPT ![Current(p)] = @ + 1]
        /\ pc' = [pc EXCEPT ![p] = "failing"] /\ batch' = batch
        /\ UNCHANGED <<changed, writing, status, attempts, due, shown, crashes>>
    BY DEF CountFailure, Goto, rowVars
  <1>3. \A e \in Event : failures[e] \in Nat /\ failures'[e] \in Nat /\ failures[e] <= failures'[e]
    BY <1>1, <1>2 DEF OutboxInv, OutboxTypeOK
  <1>4. OutboxTypeOK'
    BY <1>1, <1>2 DEF OutboxInv, OutboxTypeOK
  <1>5. OfChanges'
    BY <1>2 DEF OutboxInv, OfChanges
  <1>6. CountsAreReal'
    <2>1. \A e \in Event : attempts'[e] <= failures'[e]
      BY <1>2, <1>3 DEF OutboxInv, OutboxTypeOK, CountsAreReal
    <2>2. \A q \in Process : \A i \in 1 .. Len(batch[q]) :
             batch[q][i] \in [event : Event, attempts : Nat]
      BY ListedRow
    <2>3. \A q \in Process : \A i \in 1 .. Len(batch[q]) :
             batch[q][i].attempts <= failures'[batch[q][i].event]
      <3> TAKE q \in Process
      <3> TAKE i \in 1 .. Len(batch[q])
      <3>1. batch[q][i].attempts \in Nat /\ batch[q][i].event \in Event
        BY <2>2
      <3>2. batch[q][i].attempts <= failures[batch[q][i].event]
        BY DEF OutboxInv, CountsAreReal
      <3> QED
        BY <1>3, <3>1, <3>2
    <2>4. \A q \in Process : pc'[q] = "failing" => batch[q][1].attempts < failures'[batch[q][1].event]
      <3> TAKE q \in Process
      <3>1. CASE q = p
        BY <1>1, <1>2, <3>1 DEF OutboxInv, OutboxTypeOK
      <3>2. CASE q # p /\ pc'[q] = "failing"
        <4>1. pc[q] = "failing"
          BY <1>2, <3>2 DEF OutboxInv, OutboxTypeOK
        <4>2. /\ batch[q][1] \in [event : Event, attempts : Nat]
              /\ batch[q][1].attempts < failures[batch[q][1].event]
          BY <4>1, FirstRow DEF OutboxInv, CountsAreReal
        <4> QED
          BY <1>3, <4>2
      <3> QED
        BY <3>1, <3>2
    <2> QED
      BY <1>2, <2>1, <2>3, <2>4 DEF CountsAreReal
  <1>7. NeverGivesUpEarly'
    BY <1>2, <1>3, OutboxAssumption DEF OutboxInv, NeverGivesUpEarly
  <1>8. HandedOver'
    BY <1>2 DEF OutboxInv, OutboxTypeOK, HandedOver, Current
  <1> QED
    BY <1>4, <1>5, <1>6, <1>7, <1>8 DEF OutboxInv

LEMMA PublishInv ==
    ASSUME OutboxInv, NEW p \in Process, Publish(p)
    PROVE  OutboxInv'
  <1>1. pc[p] # "idle" /\ UNCHANGED <<changed, writing, rowVars, shown, crashes>>
    BY DEF Publish
  <1>2. CASE broker' \in {broker, broker \cup {Current(p)}} /\ CountFailure(p)
    BY <1>1, <1>2, CountFailureInv
  <1>3. CASE broker' = broker \cup {Current(p)} /\ Goto(p, "marking") /\ UNCHANGED failures
    BY <1>1, <1>3, FirstRow
       DEF OutboxInv, OutboxTypeOK, OfChanges, CountsAreReal, HandedOver, NeverGivesUpEarly, Current, Goto, rowVars
  <1> QED
    BY <1>2, <1>3 DEF Publish

LEMMA MarkInv ==
    ASSUME OutboxInv, NEW p \in Process, Mark(p)
    PROVE  OutboxInv'
  <1>1. pc[p] = "marking" /\ UNCHANGED <<changed, writing, attempts, broker, shown, crashes>>
    BY DEF Mark
  <1>2. CASE CountFailure(p) /\ UNCHANGED <<status, due>>
    BY <1>1, <1>2, CountFailureInv DEF rowVars
  <1>3. CASE /\ status' = [status EXCEPT ![Current(p)] = "PUBLISHED"]
             /\ NotDue(Current(p))
             /\ Goto(p, "emitting")
             /\ UNCHANGED failures
    <2>1. Current(p) \in Event \cap changed
      BY <1>1, FirstRow
    <2>2. due' \in Seq(Event) /\ \A i \in 1 .. Len(due') : due'[i] \in changed
      BY <1>3, <2>1, NotDueKeeps
    <2>3. OutboxTypeOK'
      BY <1>1, <1>3, <2>1, <2>2 DEF OutboxInv, OutboxTypeOK, Goto, OutboxStatus
    <2>4. OfChanges' /\ CountsAreReal' /\ HandedOver' /\ NeverGivesUpEarly'
      BY <1>1, <1>3, <2>1, <2>2
         DEF OutboxInv, OutboxTypeOK, OfChanges, CountsAreReal, HandedOver, NeverGivesUpEarly, Current, Goto
    <2> QED
      BY <2>3, <2>4 DEF OutboxInv
  <1> QED
    BY <1>2, <1>3 DEF Mark

\* A relay that drops its first row keeps what holds of the other rows.
LEMMA OtherRowsKeep ==
    ASSUME OutboxInv, NEW p \in Process, NextInBatch(p), pc[p] # "idle"
    PROVE  /\ \A q \in Process : \A i \in 1 .. Len(batch'[q]) :
                 /\ batch'[q][i].event \in changed
                 /\ batch'[q][i].attempts <= failures[batch'[q][i].event]
           /\ \A q \in Process : pc'[q] \notin {"idle", "publishing"} => pc'[q] = pc[q] /\ batch'[q] = batch[q]
           /\ \A q \in Process : pc'[q] = "idle" <=> batch'[q] = <<>>
  <1>1. \A q \in Process : \A i \in 1 .. Len(batch'[q]) :
                 /\ batch'[q][i].event \in changed
                 /\ batch'[q][i].attempts <= failures[batch'[q][i].event]
    <2> TAKE q \in Process
    <2> TAKE i \in 1 .. Len(batch'[q])
    <2>1. CASE q = p
      <3>1. i + 1 \in 1 .. Len(batch[p]) /\ batch'[p][i] = batch[p][i + 1]
        BY <2>1, NextInBatchKeeps
      <3> QED
        BY <2>1, <3>1, ListedRow
    <2>2. CASE q # p
      <3>1. batch'[q] = batch[q]
        BY <2>2, NextInBatchKeeps
      <3> QED
        BY <3>1, ListedRow
    <2> QED
      BY <2>1, <2>2
  <1>2. \A q \in Process : pc'[q] \notin {"idle", "publishing"} => pc'[q] = pc[q] /\ batch'[q] = batch[q]
    <2> TAKE q \in Process
    <2>1. CASE q = p
      BY <2>1, NextInBatchKeeps
    <2>2. CASE q # p
      BY <2>2, NextInBatchKeeps
    <2> QED
      BY <2>1, <2>2
  <1>3. \A q \in Process : pc'[q] = "idle" <=> batch'[q] = <<>>
    <2> TAKE q \in Process
    <2>1. CASE q = p
      BY <2>1, NextInBatchKeeps
    <2>2. CASE q # p
      BY <2>2, NextInBatchKeeps DEF OutboxInv, OutboxTypeOK
    <2> QED
      BY <2>1, <2>2
  <1> QED
    BY <1>1, <1>2, <1>3

LEMMA EmitInv ==
    ASSUME OutboxInv, NEW p \in Process, Emit(p)
    PROVE  OutboxInv'
  <1>1. /\ pc[p] = "emitting" /\ NextInBatch(p)
        /\ shown' = shown \cup {Current(p)}
        /\ UNCHANGED <<changed, writing, status, attempts, due, broker, failures, crashes>>
    BY DEF Emit, rowVars
  <1>2. /\ batch' \in [Process -> Seq([event : Event, attempts : Nat])]
        /\ pc' \in [Process -> {"idle", "publishing", "marking", "emitting", "failing"}]
    BY <1>1, NextInBatchKeeps
  <1>3. OutboxTypeOK'
    <2>1. shown' \subseteq broker'
      BY <1>1 DEF OutboxInv, OutboxTypeOK, HandedOver
    <2> QED
      BY <1>1, <1>2, <2>1, OtherRowsKeep DEF OutboxInv, OutboxTypeOK
  <1>4. OfChanges' /\ CountsAreReal' /\ HandedOver' /\ NeverGivesUpEarly'
    BY <1>1, OtherRowsKeep DEF OutboxInv, OfChanges, CountsAreReal, HandedOver, NeverGivesUpEarly, Current
  <1> QED
    BY <1>3, <1>4 DEF OutboxInv

LEMMA NoteFailureInv ==
    ASSUME OutboxInv, NEW p \in Process, NoteFailure(p)
    PROVE  OutboxInv'
  <1> DEFINE e == Current(p)
             n == Head(batch[p]).attempts + 1
  <1>1. /\ pc[p] = "failing" /\ NextInBatch(p) /\ NotDue(e)
        /\ attempts' = [attempts EXCEPT ![e] = n]
        /\ status' = [status EXCEPT ![e] = IF n >= MaxAttempts THEN "FAILED" ELSE "PENDING"]
        /\ UNCHANGED <<changed, writing, broker, shown, failures, crashes>>
    BY DEF NoteFailure
  <1>2. e \in Event /\ e \in changed /\ n \in Nat /\ n <= failures[e] /\ failures[e] \in Nat
    <2>1. /\ batch[p][1] \in [event : Event, attempts : Nat] /\ e = batch[p][1].event
          /\ e \in Event /\ e \in changed /\ n = batch[p][1].attempts + 1
      BY <1>1, FirstRow
    <2>2. batch[p][1].attempts < failures[e]
      BY <1>1, <2>1 DEF OutboxInv, CountsAreReal
    <2>3. failures[e] \in Nat
      BY <2>1 DEF OutboxInv, OutboxTypeOK
    <2> HIDE DEF e, n
    <2> QED
      BY <2>1, <2>2, <2>3
  <1> HIDE DEF e, n
  <1>3. due' \in Seq(Event) /\ \A i \in 1 .. Len(due') : due'[i] \in changed
    BY <1>1, <1>2, NotDueKeeps
  <1>4. /\ batch' \in [Process -> Seq([event : Event, attempts : Nat])]
        /\ pc' \in [Process -> {"idle", "publishing", "marking", "emitting", "failing"}]
    BY <1>1, NextInBatchKeeps
  <1>5. OutboxTypeOK'
    BY <1>1, <1>2, <1>3, <1>4, OtherRowsKeep DEF OutboxInv, OutboxTypeOK, OutboxStatus
  <1>6. OfChanges'
    BY <1>1, <1>2, <1>3, OtherRowsKeep DEF OutboxInv, OutboxTypeOK, OfChanges
  <1>7. CountsAreReal'
    BY <1>1, <1>2, OtherRowsKeep DEF OutboxInv, OutboxTypeOK, CountsAreReal
  <1>8. NeverGivesUpEarly'
    BY <1>1, <1>2, OutboxAssumption DEF OutboxInv, OutboxTypeOK, NeverGivesUpEarly
  <1>9. HandedOver'
    BY <1>1, OtherRowsKeep DEF OutboxInv, HandedOver, Current
  <1> QED
    BY <1>5, <1>6, <1>7, <1>8, <1>9 DEF OutboxInv

LEMMA BreakOffInv ==
    ASSUME OutboxInv, NEW p \in Process, BreakOff(p)
    PROVE  OutboxInv'
  <1>1. /\ writing' = writing \/ writing' = [writing EXCEPT ![p] = {}]
        /\ pc' = [pc EXCEPT ![p] = "idle"]
        /\ batch' = [batch EXCEPT ![p] = <<>>]
        /\ crashes' = crashes + 1
        /\ UNCHANGED <<changed, status, attempts, due, broker, shown, failures>>
    BY DEF BreakOff, rowVars
  <1>2. OutboxTypeOK'
    <2>1. batch' \in [Process -> Seq([event : Event, attempts : Nat])]
      BY <1>1, EmptySeq DEF OutboxInv, OutboxTypeOK
    <2>2. /\ pc' \in [Process -> {"idle", "publishing", "marking", "emitting", "failing"}]
          /\ \A q \in Process : pc'[q] = "idle" <=> batch'[q] = <<>>
      BY <1>1 DEF OutboxInv, OutboxTypeOK
    <2>3. writing' \in [Process -> SUBSET Aside]
      BY <1>1 DEF OutboxInv, OutboxTypeOK
    <2>4. crashes' \in Nat /\ failures' \in [Event -> Nat] /\ due' \in Seq(Event)
          /\ attempts' \in [Event -> Nat] /\ status' \in [Event -> OutboxStatus \cup {"NONE"}]
          /\ changed' \subseteq Event /\ broker' \subseteq Event /\ shown' \subseteq broker'
      BY <1>1 DEF OutboxInv, OutboxTypeOK
    <2> QED
      BY <2>1, <2>2, <2>3, <2>4 DEF OutboxTypeOK
  <1>3. \A q \in Process : \A i \in 1 .. Len(batch'[q]) : batch'[q] = batch[q]
    BY <1>1, EmptySeq DEF OutboxInv, OutboxTypeOK
  <1>4. OfChanges'
    BY <1>1, <1>3 DEF OutboxInv, OutboxTypeOK, OfChanges
  <1>5. \A q \in Process : pc'[q] \notin {"idle", "publishing"} => pc'[q] = pc[q] /\ batch'[q] = batch[q]
    BY <1>1 DEF OutboxInv, OutboxTypeOK
  <1>6. CountsAreReal' /\ HandedOver' /\ NeverGivesUpEarly'
    BY <1>1, <1>3, <1>5 DEF OutboxInv, CountsAreReal, HandedOver, NeverGivesUpEarly, Current
  <1> QED
    BY <1>2, <1>4, <1>6 DEF OutboxInv

LEMMA OutboxStepInv == OutboxInv /\ [OutboxNext]_outboxVars => OutboxInv'
  <1> SUFFICES ASSUME OutboxInv, [OutboxNext]_outboxVars PROVE OutboxInv'
    OBVIOUS
  <1>1. CASE UNCHANGED outboxVars
    BY <1>1 DEF OutboxInv, OutboxTypeOK, OfChanges, CountsAreReal, HandedOver, NeverGivesUpEarly, Current,
                outboxVars, rowVars, relayVars
  <1>2. ASSUME NEW p \in Process, NEW e \in Event, CommitChange(p, e) \/ WriteRow(p, e)
        PROVE  OutboxInv'
    BY <1>2, CommitChangeInv, WriteRowInv
  <1>3. ASSUME NEW p \in Process, RelayStep(p) PROVE OutboxInv'
    BY <1>3, ListRowsInv, PublishInv, MarkInv, EmitInv, NoteFailureInv DEF RelayStep
  <1>4. ASSUME NEW p \in Process, BreakOff(p) PROVE OutboxInv'
    BY <1>4, BreakOffInv
  <1>5. ASSUME NEW e \in Event, BackoffOver(e) PROVE OutboxInv'
    BY <1>5, BackoffOverInv
  <1> QED
    BY <1>1, <1>2, <1>3, <1>4, <1>5 DEF OutboxNext

LEMMA OutboxInvariant == OutboxSpec => []OutboxInv
  BY OutboxInitInv, OutboxStepInv, PTL DEF OutboxSpec

\* Every variable of the outbox keeps its type, and clients are shown only
\* events the broker has.
THEOREM OutboxTypeCorrect == OutboxSpec => []OutboxTypeOK
  <1>1. OutboxInv => OutboxTypeOK
    BY DEF OutboxInv
  <1> QED
    BY <1>1, OutboxInvariant, PTL

\* A row is FAILED only after it really failed maxAttempts times, although
\* relays overwrite each other's counts with counts from their own reads.
THEOREM OutboxGivesUpLate == OutboxSpec => []NeverGivesUpEarly
  <1>1. OutboxInv => NeverGivesUpEarly
    BY DEF OutboxInv
  <1> QED
    BY <1>1, OutboxInvariant, PTL

-----------------------------------------------------------------------------
\* The outbox as a delivery of the events written with their change.
LEMMA OutboxInitDelivers == OutboxInit => Promised!DeliveryInit
  BY DEF OutboxInit, Promised!DeliveryInit, Event

\* A step that hands the current row over is a delivery, or nothing when the
\* row was written aside.
LEMMA HandingOverDelivers ==
    ASSUME OutboxInv, NEW p \in Process, pc[p] # "idle",
           broker' = broker \cup {Current(p)}, UNCHANGED <<changed, failures>>
    PROVE  [Promised!DeliveryNext]_Promised!deliveryVars
  <1>1. Current(p) \in Event \cap changed
    BY FirstRow
  <1>2. CASE Current(p) \in Inside
    <2>1. Promised!Deliver(Current(p))
      BY <1>1, <1>2 DEF Promised!Deliver
    <2> QED
      BY <1>2, <2>1 DEF Promised!DeliveryNext
  <1>3. CASE Current(p) \notin Inside
    BY <1>1, <1>3 DEF Promised!deliveryVars
  <1> QED
    BY <1>2, <1>3

LEMMA FailingRefuses ==
    ASSUME OutboxInv, NEW p \in Process, pc[p] # "idle", CountFailure(p),
           broker' \in {broker, broker \cup {Current(p)}}, UNCHANGED changed
    PROVE  [Promised!DeliveryNext]_Promised!deliveryVars
  <1> DEFINE r == [f \in Inside |-> failures[f]]
  <1>1. Current(p) \in Event \cap changed
    BY FirstRow
  <1>2. failures' = [failures EXCEPT ![Current(p)] = @ + 1] /\ failures \in [Event -> Nat]
    BY DEF CountFailure, OutboxInv, OutboxTypeOK
  <1>3. Inside \subseteq Event
    BY DEF Event
  <1>4. CASE Current(p) \in Inside
    <2> PICK e \in Inside : e = Current(p)
      BY <1>4
    <2>1. [f \in Inside |-> failures'[f]] = [r EXCEPT ![e] = @ + 1]
      BY <1>2, <1>3
    <2>2. broker' \cap Inside \in {broker \cap Inside, (broker \cap Inside) \cup {e}}
      OBVIOUS
    <2>3. Promised!Refuse(e)
      BY <1>1, <2>1, <2>2 DEF Promised!Refuse
    <2> QED
      BY <2>3 DEF Promised!DeliveryNext
  <1>5. CASE Current(p) \notin Inside
    <2>1. [f \in Inside |-> failures'[f]] = r
      BY <1>2, <1>3, <1>5
    <2>2. broker' \cap Inside = broker \cap Inside
      BY <1>5
    <2> QED
      BY <2>1, <2>2 DEF Promised!deliveryVars
  <1> QED
    BY <1>4, <1>5

LEMMA OutboxStepDelivers ==
    OutboxInv /\ [OutboxNext]_outboxVars => [Promised!DeliveryNext]_Promised!deliveryVars
  <1> SUFFICES ASSUME OutboxInv, [OutboxNext]_outboxVars
               PROVE  [Promised!DeliveryNext]_Promised!deliveryVars
    OBVIOUS
  <1>1. CASE UNCHANGED <<changed, broker, failures>>
    BY <1>1 DEF Promised!deliveryVars
  <1>2. ASSUME NEW p \in Process, NEW e \in Event, CommitChange(p, e)
        PROVE  [Promised!DeliveryNext]_Promised!deliveryVars
    <2>1. e \notin changed /\ changed' = changed \cup {e} /\ UNCHANGED <<broker, failures>>
      BY <1>2 DEF CommitChange
    <2>2. CASE e \in Inside
      <3>1. Promised!Happen(e)
        BY <2>1, <2>2 DEF Promised!Happen
      <3> QED
        BY <2>2, <3>1 DEF Promised!DeliveryNext
    <2>3. CASE e \notin Inside
      BY <2>1, <2>3 DEF Promised!deliveryVars
    <2> QED
      BY <2>2, <2>3
  <1>3. ASSUME NEW p \in Process, Publish(p)
        PROVE  [Promised!DeliveryNext]_Promised!deliveryVars
    <2>1. pc[p] # "idle" /\ changed' = changed
      BY <1>3 DEF Publish
    <2> QED
      BY <1>3, <2>1, HandingOverDelivers, FailingRefuses DEF Publish
  <1>4. ASSUME NEW p \in Process, Mark(p)
        PROVE  [Promised!DeliveryNext]_Promised!deliveryVars
    <2>1. pc[p] # "idle" /\ UNCHANGED <<changed, broker>>
      BY <1>4 DEF Mark
    <2> QED
      BY <1>1, <1>4, <2>1, FailingRefuses DEF Mark
  <1>5. ASSUME NEW p \in Process,
               ListRows(p) \/ Emit(p) \/ NoteFailure(p) \/ BreakOff(p) \/ \E e \in Event : WriteRow(p, e)
        PROVE  UNCHANGED <<changed, broker, failures>>
    BY <1>5 DEF ListRows, Emit, NoteFailure, BreakOff, WriteRow
  <1>6. ASSUME NEW e \in Event, BackoffOver(e) PROVE UNCHANGED <<changed, broker, failures>>
    BY <1>6 DEF BackoffOver
  <1>7. CASE UNCHANGED outboxVars
    BY <1>1, <1>7 DEF outboxVars
  <1> QED
    BY <1>1, <1>2, <1>3, <1>4, <1>5, <1>6, <1>7 DEF OutboxNext, RelayStep

\* The broker gets an event only after its change is committed and keeps it,
\* whichever relays race, fail or die: the safety half of DeliversInside.
THEOREM OutboxDelivers == OutboxSpec => Promised!SafeDelivery
  BY OutboxInvariant, OutboxInitDelivers, OutboxStepDelivers, PTL
     DEF OutboxSpec, Promised!SafeDelivery
=============================================================================
