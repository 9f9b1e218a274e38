-------------------------- MODULE ChangeStreamProofs --------------------------
(***************************************************************************)
(* Proofs about change data capture: for any table, any number of source   *)
(* changes, failures and crashes and any batch sizes, no captured change   *)
(* is forgotten, up to the events that set lost.                           *)
(***************************************************************************)
EXTENDS ChangeStream, FiniteSetTheorems, WellFoundedInduction, TLAPS

\* Which lists of the cycle are in use at each stage.
Stages ==
    /\ cycle.pc \in {"idle", "poll", "apply", "ack"} => cycle.todo = <<>>
    /\ cycle.pc \in {"idle", "poll", "dump", "push", "ack"} => cycle.work = <<>> /\ cycle.deferred = <<>>
    /\ cycle.pc \in {"idle", "poll", "dump", "push"} => cycle.acks = <<>>
    /\ cycle.caller = "start" => cycle.pc = "dump" /\ cycle.todo = <<>>

Captured == records \cup Range(cycle.todo)

\* No event is numbered ahead of the count.
SeenBound == \A e \in Captured : e.seen <= seen

\* Events on record or about to be are told apart by number and by id.
Numbered == \A e, f \in Captured : e.seen = f.seen \/ e.id = f.id => e = f

\* Events to be pushed are newer than every record, in order, and not applied.
TodoIsNew ==
    /\ \A i \in DOMAIN cycle.todo :
         /\ cycle.todo[i].id \notin applied
         /\ \A r \in records : r.seen < cycle.todo[i].seen
    /\ \A i, j \in DOMAIN cycle.todo : i < j => cycle.todo[i].seen < cycle.todo[j].seen

\* Memory holds records, in the order of capture, and none of the batch.
MemoryInOrder ==
    /\ Range(memory) \subseteq records
    /\ \A i, j \in DOMAIN memory : i < j => memory[i].seen < memory[j].seen
    /\ Range(memory) \cap Range(cycle.acks) = {}

\* The map leads from an id to the record of its event.
MapIsRight == \A r \in records : r.id \in DOMAIN message => message[r.id] = r.seen

Older(r, e) == r.key = e.key /\ r.seen < e.seen

\* The changes of a row are applied in order, and the target has the newest.
AppliedInOrder ==
    \A r \in records : r.id \in applied =>
        /\ \A s \in records : Older(s, r) => s.id \in applied
        /\ (\A s \in records : Older(r, s) => s.id \notin applied) => target[r.key] = r.val

\* Before an event is written every older record of its row is.
WorkInOrder ==
    /\ \A i \in DOMAIN cycle.work :
         /\ cycle.work[i] \in records
         /\ \A r \in records : Older(r, cycle.work[i]) =>
              r.id \in applied \/ \E j \in 1..(i - 1) : cycle.work[j] = r
    /\ \A e \in Range(cycle.deferred) :
         e \in records /\ \A r \in records : Older(r, e) => r.id \in applied

\* Before a record goes every older record of its row has gone, and what is to
\* go was applied or still will be.
AcksInOrder ==
    /\ \A i \in DOMAIN cycle.acks :
         /\ cycle.acks[i] \in records
         /\ \/ cycle.acks[i].id \in applied
            \/ cycle.acks[i] \in Range(cycle.work) \cup Range(cycle.deferred)
         /\ \A r \in records : Older(r, cycle.acks[i]) =>
              \E j \in 1..(i - 1) : cycle.acks[j] = r
    /\ \A i, j \in DOMAIN cycle.acks : cycle.acks[i] = cycle.acks[j] => i = j

\* NoChangeForgotten, with a witness for the newest change of a row.
RowIsKept(k) ==
    \/ Pending(k) = {} /\ RowsEqual(target[k], table_state[k])
    \/ \E e \in Pending(k) : /\ \A f \in Pending(k) : f.seen <= e.seen
                             /\ RowsEqual(e.val, table_state[k])

NothingLost ==
    /\ Numbered /\ TodoIsNew /\ MemoryInOrder /\ MapIsRight
    /\ AppliedInOrder /\ WorkInOrder /\ AcksInOrder
    /\ \A k \in Key : RowIsKept(k)

IInv == TypeOK /\ Stages /\ SeenBound /\ (~lost => NothingLost)

-----------------------------------------------------------------------------
\* Facts about the sequences the cycle works on.

\* The empty sequence has no elements.
LEMMA NothingInEmpty == Range(<<>>) = {} /\ DOMAIN <<>> = {}
<1>1. DOMAIN <<>> = {}
  OBVIOUS
<1> QED
  BY <1>1 DEF Range

\* The empty sequence is a sequence of events.
LEMMA EmptyTyped == <<>> \in Seq(Event)
  OBVIOUS

\* Places and elements of a sequence.
LEMMA SeqDomain ==
    ASSUME NEW S, NEW s \in Seq(S)
    PROVE  /\ DOMAIN s = 1..Len(s) /\ Len(s) \in Nat
           /\ Range(s) \subseteq S /\ \A i \in DOMAIN s : s[i] \in S /\ s[i] \in Range(s)
           /\ s # <<>> => Len(s) # 0
  BY DEF Range

\* What is left when the first element is taken off.
LEMMA TailFacts ==
    ASSUME NEW S, NEW s \in Seq(S), s # <<>>
    PROVE  /\ Head(s) \in S /\ Head(s) = s[1] /\ 1 \in DOMAIN s /\ Head(s) \in Range(s)
           /\ Tail(s) \in Seq(S)
           /\ \A i \in DOMAIN Tail(s) : i + 1 \in DOMAIN s /\ Tail(s)[i] = s[i + 1] /\ i \in Nat \ {0}
           /\ \A i \in DOMAIN s : i # 1 => i - 1 \in DOMAIN Tail(s) /\ s[i] = Tail(s)[i - 1]
           /\ Range(s) = {Head(s)} \cup Range(Tail(s))
<1>1. /\ Head(s) \in S /\ Head(s) = s[1] /\ Tail(s) \in Seq(S) /\ Len(s) \in Nat /\ Len(s) # 0
      /\ Len(Tail(s)) = Len(s) - 1 /\ \A i \in 1..(Len(s) - 1) : Tail(s)[i] = s[i + 1]
      /\ DOMAIN s = 1..Len(s) /\ DOMAIN Tail(s) = 1..(Len(s) - 1)
  OBVIOUS
<1>2. \A i \in DOMAIN Tail(s) : i + 1 \in DOMAIN s /\ Tail(s)[i] = s[i + 1] /\ i \in Nat \ {0}
  BY <1>1
<1>3. \A i \in DOMAIN s : i # 1 => i - 1 \in DOMAIN Tail(s) /\ s[i] = Tail(s)[i - 1]
  BY <1>1
<1>4. 1 \in DOMAIN s
  BY <1>1
<1>5. Range(s) = {Head(s)} \cup Range(Tail(s))
  <2>1. ASSUME NEW i \in DOMAIN s PROVE s[i] = Head(s) \/ s[i] \in Range(Tail(s))
    BY <1>1, <1>3, i = 1 \/ i # 1 DEF Range
  <2>2. Head(s) \in Range(s)
    BY <1>1, <1>4 DEF Range
  <2>3. ASSUME NEW i \in DOMAIN Tail(s) PROVE Tail(s)[i] \in Range(s)
    BY <1>2, <2>3 DEF Range
  <2>4. Range(s) \subseteq {Head(s)} \cup Range(Tail(s))
    BY <2>1 DEF Range
  <2>5. Range(Tail(s)) \subseteq Range(s)
    BY <2>3 DEF Range
  <2> QED
    BY <2>2, <2>4, <2>5
<1> QED
  BY <1>1, <1>2, <1>3, <1>4, <1>5

\* A sequence with one element more.
LEMMA AppendFacts ==
    ASSUME NEW S, NEW s \in Seq(S), NEW e \in S
    PROVE  /\ Append(s, e) \in Seq(S)
           /\ DOMAIN Append(s, e) = DOMAIN s \cup {Len(s) + 1}
           /\ \A i \in DOMAIN s : Append(s, e)[i] = s[i] /\ i < Len(s) + 1 /\ i \in Nat
           /\ Append(s, e)[Len(s) + 1] = e
           /\ Range(Append(s, e)) = Range(s) \cup {e}
<1>1. /\ Append(s, e) \in Seq(S) /\ DOMAIN s = 1..Len(s) /\ Len(s) \in Nat
      /\ Len(Append(s, e)) = Len(s) + 1 /\ DOMAIN Append(s, e) = 1..(Len(s) + 1)
      /\ \A i \in DOMAIN s : Append(s, e)[i] = s[i]
      /\ Append(s, e)[Len(s) + 1] = e
  OBVIOUS
<1>2. DOMAIN Append(s, e) = DOMAIN s \cup {Len(s) + 1} /\ \A i \in DOMAIN s : i < Len(s) + 1 /\ i \in Nat
  BY <1>1
<1>3. Range(Append(s, e)) = Range(s) \cup {e}
  BY <1>1, <1>2 DEF Range
<1> QED
  BY <1>1, <1>2, <1>3

\* The first elements of a sequence.
LEMMA AtMostFacts ==
    ASSUME NEW S, NEW s \in Seq(S), NEW n \in Nat
    PROVE  /\ AtMost(n, s) \in Seq(S)
           /\ Len(AtMost(n, s)) \in 0..Len(s)
           /\ DOMAIN AtMost(n, s) = 1..Len(AtMost(n, s))
           /\ \A i \in DOMAIN AtMost(n, s) : i \in DOMAIN s /\ AtMost(n, s)[i] = s[i]
<1> DEFINE m == IF Len(s) < n THEN Len(s) ELSE n
<1>1. m \in 0..Len(s) /\ Len(s) \in Nat /\ DOMAIN s = 1..Len(s)
  OBVIOUS
<1>2. AtMost(n, s) = SubSeq(s, 1, m)
  BY DEF AtMost
<1> HIDE DEF m
<1>3. /\ SubSeq(s, 1, m) \in Seq(S) /\ Len(SubSeq(s, 1, m)) = m
      /\ \A i \in 1..m : SubSeq(s, 1, m)[i] = s[i]
  <2>1. \A i \in 1..m : s[i] \in S
    BY <1>1
  <2>2. SubSeq(s, 1, m) = [i \in 1..m |-> s[i]]
    BY <1>1
  <2> QED
    BY <1>1, <2>1, <2>2
<1>4. DOMAIN SubSeq(s, 1, m) = 1..m
  BY <1>3
<1> QED
  BY <1>1, <1>2, <1>3, <1>4

\* A sequence without its first elements.
LEMMA SuffixFacts ==
    ASSUME NEW S, NEW s \in Seq(S), NEW m \in 0..Len(s)
    PROVE  /\ SubSeq(s, m + 1, Len(s)) \in Seq(S)
           /\ \A i \in DOMAIN SubSeq(s, m + 1, Len(s)) :
                /\ i + m \in DOMAIN s /\ i \in Nat \ {0}
                /\ SubSeq(s, m + 1, Len(s))[i] = s[i + m]
<1>1. m \in Nat /\ m <= Len(s) /\ Len(s) \in Nat /\ DOMAIN s = 1..Len(s)
  OBVIOUS
<1>2. SubSeq(s, m + 1, Len(s)) = [i \in 1..(Len(s) - m) |-> s[i + m]]
  BY <1>1
<1>3. \A i \in 1..(Len(s) - m) : i + m \in DOMAIN s /\ i \in Nat \ {0} /\ s[i + m] \in S
  BY <1>1
<1>4. [i \in 1..(Len(s) - m) |-> s[i + m]] \in Seq(S)
  BY <1>1, <1>3
<1> QED
  BY <1>2, <1>3, <1>4

-----------------------------------------------------------------------------
\* Types.

\* The fields of a cycle.
LEMMA CycleTyped ==
    ASSUME cycle \in Cycle
    PROVE  /\ cycle.todo \in Seq(Event) /\ cycle.work \in Seq(Event)
           /\ cycle.deferred \in Seq(Event) /\ cycle.acks \in Seq(Event)
           /\ cycle.pass \in 0..MaxPasses /\ cycle.full \in BOOLEAN
           /\ cycle.caller \in Caller
           /\ cycle.pc \in {"idle", "poll", "dump", "push", "apply", "ack"}
  BY DEF Cycle

\* Alike once normalized: an equivalence.
LEMMA RowsEqualFacts ==
    ASSUME NEW a, NEW b, NEW c
    PROVE  /\ RowsEqual(a, a)
           /\ RowsEqual(a, b) => RowsEqual(b, a)
           /\ RowsEqual(a, b) /\ RowsEqual(b, c) => RowsEqual(a, c)
  BY DEF RowsEqual

\* Between cycles every list is empty.
LEMMA IdleTyped ==
    /\ Idle \in Cycle
    /\ Idle.pc = "idle" /\ Idle.todo = <<>> /\ Idle.work = <<>>
    /\ Idle.deferred = <<>> /\ Idle.acks = <<>> /\ Idle.caller = "stream"
<1>1. 0 \in 0..MaxPasses
  BY ChangeBounds
<1> QED
  BY <1>1, EmptyTyped DEF Idle, Cycle, Caller

\* A listing is a sequence without gaps of the set's members.
LEMMA ListingFacts ==
    ASSUME NEW S, IsFiniteSet(S), NEW s \in Listings(S)
    PROVE  s \in Seq(S) /\ DOMAIN s = 1..Len(s) /\ Len(s) \in Nat /\ Range(s) = S
<1>1. Cardinality(S) \in Nat
  BY FS_CardinalityType
<1>2. s \in [1..Cardinality(S) -> S] /\ Range(s) = S
  BY DEF Listings
<1> QED
  BY <1>1, <1>2

\* A table comparison lists the rows that differ.
LEMMA ChangesFacts ==
    ASSUME NEW keys \in Changes
    PROVE  /\ keys \in Seq(Key) /\ DOMAIN keys = 1..Len(keys) /\ Len(keys) \in Nat
           /\ Range(keys) = Changed
           /\ \A i, j \in DOMAIN keys : keys[i] = keys[j] => i = j
<1>1. Changed \subseteq Key /\ IsFiniteSet(Changed)
  BY ChangeBounds, FS_Subset DEF Changed
<1>2. keys \in Listings(Changed)
  BY DEF Changes
<1>3. keys \in Seq(Changed) /\ DOMAIN keys = 1..Len(keys) /\ Len(keys) \in Nat /\ Range(keys) = Changed
  BY <1>1, <1>2, ListingFacts
<1>4. keys \in Seq(Key)
  BY <1>1, <1>3
<1>5. \A i, j \in DOMAIN keys : i < j => keys[i] # keys[j]
  <2> SUFFICES ASSUME NEW i \in DOMAIN keys, NEW j \in DOMAIN keys, i < j, keys[i] = keys[j] PROVE FALSE
    OBVIOUS
  <2>1. Kind(keys[i]) < Kind(keys[j]) \/ keys[i] < keys[j]
    BY DEF Changes
  <2>2. Kind(keys[i]) \in {1, 2, 3}
    BY DEF Kind
  <2>3. keys[i] \in Nat
    <3>1. keys[i] \in Key
      BY <1>4
    <3>2. \A k \in Key : k \in Nat
      BY ChangeBounds
    <3> QED
      BY <3>1, <3>2, Zenon
  <2>4. Kind(keys[i]) = Kind(keys[j])
    OBVIOUS
  <2> QED
    BY <2>1, <2>2, <2>3, <2>4
<1> QED
  BY <1>3, <1>4, <1>5

\* A call asks for one event at least.
LEMMA MaxEventsTyped == MaxEvents \in Nat \ {0} /\ MaxPerFetch \in Nat \ {0}
  BY ChangeBounds DEF MaxEvents

\* p takes each place of w to the place its event had in the batch.
Arranges(p, w, batch) ==
    /\ \A i \in DOMAIN batch : w[i] = batch[p[i]]
    /\ \A j \in DOMAIN batch : \E i \in DOMAIN batch : p[i] = j
    /\ \A i, j \in DOMAIN batch : i < j =>
         IF IsDelete(batch[p[i]]) <=> IsDelete(batch[p[j]])
         THEN p[i] < p[j] ELSE IsDelete(batch[p[j]])

\* Events in the order a group is applied: a rearrangement of the batch.
LEMMA OrderedFacts ==
    ASSUME NEW batch \in Seq(Event), NEW w \in Ordered(batch)
    PROVE  /\ w \in Seq(Event) /\ DOMAIN w = DOMAIN batch /\ Range(w) = Range(batch)
           /\ \E p \in [DOMAIN batch -> DOMAIN batch] : Arranges(p, w, batch)
<1> DEFINE D == DOMAIN batch
<1>1. PICK p \in [D -> D] :
        /\ Range(p) = D
        /\ \A i, j \in D : i < j => IF IsDelete(batch[p[i]]) <=> IsDelete(batch[p[j]])
                                    THEN p[i] < p[j] ELSE IsDelete(batch[p[j]])
        /\ w = [i \in D |-> batch[p[i]]]
  BY DEF Ordered
<1>2. D = 1..Len(batch) /\ Len(batch) \in Nat /\ \A i \in D : batch[i] \in Event
  OBVIOUS
<1>3. DOMAIN w = D /\ \A i \in D : w[i] = batch[p[i]]
  BY <1>1
<1>4. \A j \in D : \E i \in D : p[i] = j
  BY <1>1 DEF Range
<1>5. w \in [1..Len(batch) -> Event]
  BY <1>1, <1>2
<1>6. w \in Seq(Event)
  BY <1>2, <1>5
<1>7. Range(w) = Range(batch)
  <2>1. \A i \in D : w[i] \in Range(batch)
    BY <1>3 DEF Range
  <2>2. \A j \in D : batch[j] \in Range(w)
    BY <1>3, <1>4 DEF Range
  <2>3. Range(w) \subseteq Range(batch)
    BY <1>3, <2>1 DEF Range
  <2>4. Range(batch) \subseteq Range(w)
    BY <2>2 DEF Range
  <2> QED
    BY <2>3, <2>4
<1>8. Arranges(p, w, batch)
  BY <1>1, <1>3, <1>4 DEF Arranges
<1> QED
  BY <1>3, <1>6, <1>7, <1>8

\* The event of the i-th key of a comparison.
Reported(keys, i) ==
    [seen |-> seen + i, id |-> seq + i, key |-> keys[i], val |-> source[keys[i]]]

\* What a poll does.
LEMMA PollEffect ==
    ASSUME TypeOK, Poll
    PROVE  \E keys \in Changes, events \in Seq(Event) :
             /\ DOMAIN events = DOMAIN keys /\ \A i \in DOMAIN keys : events[i] = Reported(keys, i)
             /\ seen' = seen + Len(keys) /\ seq' = seq + Len(keys)
             /\ \E pc \in {"dump", "push"} :
                  cycle' = [cycle EXCEPT !.pc = pc, !.todo = AtMost(MaxEvents, events)]
             /\ lost' = (lost \/ AtMost(MaxEvents, events) # events \/ ReusesId(events))
             /\ saved' \in {saved, Torn} /\ (UNCHANGED faults \/ Fault)
<1>1. PICK keys \in Changes :
        LET events == [i \in 1..Len(keys) |-> Reported(keys, i)]
        IN /\ seen' = seen + Len(keys) /\ seq' = seq + Len(keys)
           /\ \E pc \in {"dump", "push"} :
                cycle' = [cycle EXCEPT !.pc = pc, !.todo = AtMost(MaxEvents, events)]
           /\ lost' = (lost \/ AtMost(MaxEvents, events) # events \/ ReusesId(events))
           /\ saved' \in {saved, Torn} /\ (UNCHANGED faults \/ Fault)
  BY DEF Poll, Reported
<1> DEFINE events == [i \in 1..Len(keys) |-> Reported(keys, i)]
<1>2. keys \in Seq(Key) /\ DOMAIN keys = 1..Len(keys) /\ Len(keys) \in Nat
  BY ChangesFacts
<1>3. \A i \in 1..Len(keys) : Reported(keys, i) \in Event
  BY <1>2 DEF Reported, Event, TypeOK
<1>4. events \in Seq(Event) /\ DOMAIN events = DOMAIN keys
      /\ \A i \in DOMAIN keys : events[i] = Reported(keys, i)
  BY <1>2, <1>3
<1> QED
  BY <1>1, <1>4

\* What the end of fetch_events does.
LEMMA TakeEffect ==
    ASSUME TypeOK, Take
    PROVE  \E fetched, batch \in Seq(Event) :
             /\ Len(fetched) \in 0..Len(memory) /\ Len(batch) \in 0..Len(fetched)
             /\ DOMAIN batch = 1..Len(batch)
             /\ \A i \in DOMAIN batch : i \in DOMAIN memory /\ batch[i] = memory[i]
             /\ memory' = SubSeq(memory, Len(fetched) + 1, Len(memory)) /\ memory' \in Seq(Event)
             /\ \/ AfterDrain /\ UNCHANGED lost
                \/ cycle' = Idle /\ UNCHANGED <<cutover, lost>>
                \/ /\ UNCHANGED cutover
                   /\ lost' = (lost \/ Reorders(batch) \/ Overtakes(batch))
                   /\ \E ordered \in Ordered(batch) :
                        cycle' = [cycle EXCEPT !.pc = "apply", !.work = ordered, !.acks = ordered,
                                               !.pass = 0, !.full = Len(batch) >= MaxEvents]
<1> DEFINE fetched == AtMost(MaxEvents, memory)
<1>5. PICK n \in 1..MaxPerFetch :
      /\ memory' = SubSeq(memory, Len(fetched) + 1, Len(memory))
      /\ \/ AfterDrain /\ UNCHANGED lost
         \/ cycle' = Idle /\ UNCHANGED <<cutover, lost>>
         \/ /\ UNCHANGED cutover
            /\ lost' = (lost \/ Reorders(AtMost(n, fetched)) \/ Overtakes(AtMost(n, fetched)))
            /\ \E ordered \in Ordered(AtMost(n, fetched)) :
                   cycle' = [cycle EXCEPT !.pc = "apply", !.work = ordered, !.acks = ordered,
                                          !.pass = 0, !.full = Len(AtMost(n, fetched)) >= MaxEvents]
  BY DEF Take
<1> DEFINE batch == AtMost(n, fetched)
<1>1. memory \in Seq(Event) /\ n \in Nat
  BY MaxEventsTyped DEF TypeOK
<1>2. fetched \in Seq(Event) /\ Len(fetched) \in 0..Len(memory)
      /\ DOMAIN fetched = 1..Len(fetched)
      /\ \A i \in DOMAIN fetched : i \in DOMAIN memory /\ fetched[i] = memory[i]
  BY <1>1, AtMostFacts, MaxEventsTyped
<1> HIDE DEF fetched
<1>3. batch \in Seq(Event) /\ Len(batch) \in 0..Len(fetched)
      /\ DOMAIN batch = 1..Len(batch)
      /\ \A i \in DOMAIN batch : i \in DOMAIN fetched /\ batch[i] = fetched[i]
  BY <1>1, <1>2, AtMostFacts
<1>4. SubSeq(memory, Len(fetched) + 1, Len(memory)) \in Seq(Event)
  BY <1>1, <1>2, SuffixFacts
<1> HIDE DEF batch
<1>6. \A i \in DOMAIN batch : i \in DOMAIN memory /\ batch[i] = memory[i]
  BY <1>2, <1>3
<1>7. \/ AfterDrain /\ UNCHANGED lost
      \/ cycle' = Idle /\ UNCHANGED <<cutover, lost>>
      \/ /\ UNCHANGED cutover
         /\ lost' = (lost \/ Reorders(batch) \/ Overtakes(batch))
         /\ \E ordered \in Ordered(batch) :
                cycle' = [cycle EXCEPT !.pc = "apply", !.work = ordered, !.acks = ordered,
                                       !.pass = 0, !.full = Len(batch) >= MaxEvents]
  BY <1>5 DEF batch
<1> QED
  BY <1>2, <1>3, <1>4, <1>5, <1>6, <1>7

\* What is taken is applied and then acknowledged; without a batch the cycle
\* is over.
LEMMA TakeCycle ==
    ASSUME TypeOK, Take
    PROVE  \/ cycle' = Idle
           \/ \E ordered, full : cycle' = [cycle EXCEPT !.pc = "apply", !.work = ordered,
                                                       !.acks = ordered, !.pass = 0, !.full = full]
<1>1. PICK fetched, batch \in Seq(Event) :
        \/ AfterDrain
        \/ cycle' = Idle
        \/ \E ordered \in Ordered(batch) :
              cycle' = [cycle EXCEPT !.pc = "apply", !.work = ordered, !.acks = ordered,
                                     !.pass = 0, !.full = Len(batch) >= MaxEvents]
  BY TakeEffect
<1> QED
  BY <1>1 DEF AfterDrain

\* Idle or the next poll, and the lists as they were.
LEMMA AfterDrainEffect ==
    ASSUME AfterDrain, TypeOK
    PROVE  cycle' = Idle /\ cutover' \in {"OPEN", "CUTOVER_COMPLETE"}
  BY DEF AfterDrain, TypeOK

\* The types of what the calls inside a cycle change.
LEMMA CycleKeepsTypes == TypeOK /\ RunCycle => TypeOK'
<1> SUFFICES ASSUME TypeOK, RunCycle PROVE TypeOK'
  OBVIOUS
<1> USE CycleTyped, IdleTyped, AfterDrainEffect
<1>f. ASSUME Fault PROVE faults' \in 0..MaxFaults
  BY <1>f, ChangeBounds DEF Fault, TypeOK
<1>1. CASE drain_and_sync("stream")
  <2>1. cycle' \in Cycle
    BY <1>1 DEF drain_and_sync, Cycle, Caller
  <2> QED
    BY <1>1, <2>1 DEF drain_and_sync, TypeOK
<1>2. CASE Poll
  <2>1. PICK keys \in Changes, events \in Seq(Event), pc \in {"dump", "push"} :
          /\ seen' = seen + Len(keys) /\ seq' = seq + Len(keys)
          /\ cycle' = [cycle EXCEPT !.pc = pc, !.todo = AtMost(MaxEvents, events)]
          /\ lost' = (lost \/ AtMost(MaxEvents, events) # events \/ ReusesId(events))
          /\ saved' \in {saved, Torn} /\ (UNCHANGED faults \/ Fault)
    BY <1>2, PollEffect
  <2>2. Len(keys) \in Nat
    BY ChangesFacts
  <2>3. AtMost(MaxEvents, events) \in Seq(Event)
    BY AtMostFacts, MaxEventsTyped
  <2>4. cycle' \in Cycle
    BY <2>1, <2>3 DEF Cycle, TypeOK
  <2>5. lost' \in BOOLEAN /\ saved' \in [Key -> Row] \cup {Torn} /\ faults' \in 0..MaxFaults
    BY <1>f, <2>1 DEF TypeOK
  <2>6. seen' \in Nat /\ seq' \in Nat
    <3>1. seen \in Nat /\ seq \in Nat
      BY DEF TypeOK
    <3>2. seen' = seen + Len(keys) /\ seq' = seq + Len(keys)
      BY <2>1
    <3> QED
      BY <2>2, <3>1, <3>2
  <2> QED
    BY <1>2, <2>4, <2>5, <2>6 DEF Poll, TypeOK
<1>3. CASE PollPaused
  BY <1>3 DEF PollPaused, TypeOK
<1>4. CASE push
  <2> DEFINE e == Head(cycle.todo)
  <2>1. cycle.todo \in Seq(Event) /\ cycle.todo # <<>>
    BY <1>4 DEF push, TypeOK
  <2>2. e \in Event /\ Tail(cycle.todo) \in Seq(Event) /\ e.id \in Nat /\ e.seen \in Nat
    <3>1. e \in Event /\ Tail(cycle.todo) \in Seq(Event)
      BY <2>1, TailFacts
    <3>2. \A f \in Event : f.id \in Nat /\ f.seen \in Nat
      BY DEF Event
    <3> QED
      BY <3>1, <3>2
  <2>3. cycle' \in Cycle
    BY <1>4, <2>2 DEF push, Cycle, TypeOK
  <2>4. memory' \in Seq(Event)
    BY <1>4, <2>2, AppendFacts DEF push, TypeOK
  <2>t. faults' \in 0..MaxFaults /\ open_tx' \in Thread \cup {"none"}
    BY <1>4, <1>f DEF push, TypeOK
  <2>5. CASE UNCHANGED <<records, message>> /\ lost' = TRUE
    BY <1>4, <2>t, <2>3, <2>4, <2>5 DEF push, TypeOK
  <2>6. CASE /\ records' = records \cup {e} /\ UNCHANGED lost
             /\ message' = [i \in DOMAIN message \cup {e.id} |->
                                IF i = e.id THEN e.seen ELSE message[i]]
    <3>1. records' \subseteq Event /\ IsFiniteSet(records')
      BY <2>2, <2>6, FS_AddElement DEF TypeOK
    <3>2. \A i \in DOMAIN message' : message'[i] \in Nat
      BY <2>2, <2>6 DEF TypeOK
    <3> QED
      BY <1>4, <2>t, <2>3, <2>4, <2>6, <3>1, <3>2 DEF push, TypeOK
  <2> QED
    BY <1>4, <2>5, <2>6 DEF push
<1>5. CASE Take
  <2>1. PICK batch \in Seq(Event) :
          /\ memory' \in Seq(Event)
          /\ lost' \in {lost, lost \/ Reorders(batch) \/ Overtakes(batch)}
          /\ \/ AfterDrain
             \/ cycle' = Idle /\ UNCHANGED cutover
             \/ /\ UNCHANGED cutover
                /\ \E ordered \in Ordered(batch) :
                        cycle' = [cycle EXCEPT !.pc = "apply", !.work = ordered, !.acks = ordered,
                                               !.pass = 0, !.full = Len(batch) >= MaxEvents]
    BY <1>5, TakeEffect
  <2>2. cycle' \in Cycle /\ cutover' \in {"OPEN", "CUTOVER_COMPLETE"}
    <3>1. CASE AfterDrain
      BY <3>1
    <3>i. CASE cycle' = Idle /\ UNCHANGED cutover
      BY <3>i DEF TypeOK
    <3>2. ASSUME NEW ordered \in Ordered(batch), UNCHANGED cutover,
                 cycle' = [cycle EXCEPT !.pc = "apply", !.work = ordered, !.acks = ordered,
                                        !.pass = 0, !.full = Len(batch) >= MaxEvents]
          PROVE  cycle' \in Cycle /\ cutover' \in {"OPEN", "CUTOVER_COMPLETE"}
      <4>1. ordered \in Seq(Event) /\ 0 \in 0..MaxPasses /\ (Len(batch) >= MaxEvents) \in BOOLEAN
        BY OrderedFacts, ChangeBounds
      <4> QED
        BY <3>2, <4>1 DEF Cycle, TypeOK
    <3> QED
      BY <2>1, <3>1, <3>i, <3>2
  <2>3. lost' \in BOOLEAN
    BY <2>1 DEF TypeOK
  <2> QED
    BY <1>5, <2>1, <2>2, <2>3 DEF Take, TypeOK
<1>6. CASE apply_event
  <2>1. Head(cycle.work) \in Event /\ Tail(cycle.work) \in Seq(Event)
    BY <1>6, TailFacts DEF apply_event, TypeOK
  <2>2. cycle' \in Cycle
    BY <1>6, <2>1 DEF apply_event, Cycle, TypeOK
  <2>3. target' \in [Key -> Row] /\ applied' \subseteq Nat
    BY <1>6, <2>1 DEF apply_event, TypeOK, Event
  <2> QED
    BY <1>6, <2>2, <2>3 DEF apply_event, TypeOK
<1>7. CASE Defer
  <2>1. Head(cycle.work) \in Event /\ Tail(cycle.work) \in Seq(Event)
    BY <1>7, TailFacts DEF Defer, TypeOK
  <2>2. Append(cycle.deferred, Head(cycle.work)) \in Seq(Event)
    BY <2>1, AppendFacts DEF TypeOK
  <2>3. cycle' \in Cycle
    BY <1>7, <2>1, <2>2 DEF Defer, Cycle, TypeOK
  <2>4. lost' \in BOOLEAN /\ faults' \in 0..MaxFaults
    BY <1>7, <1>f DEF Defer, TypeOK
  <2> QED
    BY <1>7, <2>3, <2>4 DEF Defer, TypeOK
<1>8. CASE NextPass
  <2>1. CASE cycle' = Idle
    BY <1>8, <2>1 DEF NextPass, TypeOK
  <2>2. CASE PassLeft /\ cycle' = [cycle EXCEPT !.work = cycle.deferred, !.deferred = <<>>, !.pass = @ + 1]
    <3>1. cycle.pass + 1 \in 0..MaxPasses
      <4>1. cycle.pass \in 0..MaxPasses /\ cycle.pass < MaxPasses
        BY <2>2 DEF PassLeft, TypeOK
      <4>2. MaxPasses \in Nat
        BY ChangeBounds
      <4> QED
        BY <4>1, <4>2
    <3>2. cycle' \in Cycle
      BY <2>2, <3>1, EmptyTyped DEF Cycle, TypeOK
    <3> QED
      BY <1>8, <3>2 DEF NextPass, TypeOK
  <2> QED
    BY <1>8, <2>1, <2>2 DEF NextPass
<1>9. CASE ApplyFails
  BY <1>9, <1>f DEF ApplyFails, TypeOK
<1>10. CASE AllApplied
  <2>1. cycle' \in Cycle
    BY <1>10 DEF AllApplied, Cycle, TypeOK
  <2> QED
    BY <1>10, <2>1 DEF AllApplied, TypeOK
<1>11. CASE ack_event
  <2>1. Tail(cycle.acks) \in Seq(Event)
    BY <1>11, TailFacts DEF ack_event, TypeOK
  <2>2. cycle' \in Cycle
    BY <1>11, <2>1 DEF ack_event, Cycle, TypeOK
  <2>3. records' \subseteq Event /\ IsFiniteSet(records')
    BY <1>11, FS_Subset DEF ack_event, TypeOK
  <2>4. \A i \in DOMAIN message' : message'[i] \in Nat
    BY <1>11 DEF ack_event, TypeOK
  <2>5. lost' \in BOOLEAN /\ faults' \in 0..MaxFaults /\ open_tx' \in Thread \cup {"none"}
    BY <1>11, <1>f DEF ack_event, TypeOK, Current, Thread
  <2> QED
    BY <1>11, <2>2, <2>3, <2>4, <2>5 DEF ack_event, TypeOK
<1>12. CASE EndBatch
  <2>1. cycle' \in Cycle /\ cutover' \in {"OPEN", "CUTOVER_COMPLETE"}
    <3>1. CASE AfterDrain
      BY <3>1
    <3>2. CASE cycle' = [cycle EXCEPT !.pc = "poll"] /\ UNCHANGED cutover
      BY <3>2 DEF Cycle, TypeOK
    <3> QED
      BY <1>12, <3>1, <3>2 DEF EndBatch
  <2> QED
    BY <1>12, <2>1 DEF EndBatch, TypeOK
<1>13. CASE EndSave
  <2>1. cycle' \in Cycle
    BY <1>13 DEF EndSave, Cycle, TypeOK
  <2>2. saved' \in [Key -> Row] \cup {Torn} /\ faults' \in 0..MaxFaults
    BY <1>13, <1>f DEF EndSave, TypeOK
  <2> QED
    BY <1>13, <2>1, <2>2 DEF EndSave, TypeOK
<1>14. CASE PollNothing \/ PollRaises
  <2>1. cycle' \in Cycle
    BY <1>14 DEF PollNothing, PollRaises, Cycle, TypeOK
  <2>2. faults' \in 0..MaxFaults
    BY <1>14, <1>f DEF PollNothing, PollRaises, TypeOK
  <2> QED
    BY <1>14, <2>1, <2>2 DEF PollNothing, PollRaises, TypeOK
<1> QED
  BY <1>1, <1>2, <1>3, <1>4, <1>5, <1>6, <1>7, <1>8, <1>9, <1>10, <1>11, <1>12, <1>13, <1>14 DEF RunCycle

\* The map of a recovery leads every id on record to a number.
LEMMA RecoverEffect ==
    ASSUME TypeOK, recover_from_durability
    PROVE  /\ memory' \in Seq(Event) /\ Range(memory') = records
           /\ \A i, j \in DOMAIN memory' : i < j => memory'[i].seen < memory'[j].seen
           /\ DOMAIN message' = {r.id : r \in records}
           /\ \A r \in records : message'[r.id] =
                CHOOSE n \in {s.seen : s \in {t \in records : t.id = r.id}} :
                    \A m \in {s.seen : s \in {t \in records : t.id = r.id}} : m <= n
<1>1. memory' \in Listings(records) /\ \A i, j \in DOMAIN memory' : i < j => memory'[i].seen < memory'[j].seen
  BY DEF recover_from_durability, Recovered
<1>2. records \subseteq Event /\ IsFiniteSet(records)
  BY DEF TypeOK
<1>3. memory' \in Seq(records) /\ Range(memory') = records
  BY <1>1, <1>2, ListingFacts
<1>4. memory' \in Seq(Event)
  BY <1>2, <1>3
<1>5. /\ DOMAIN message' = {r.id : r \in records}
      /\ \A r \in records : message'[r.id] =
            CHOOSE n \in {s.seen : s \in {t \in records : t.id = r.id}} :
                \A m \in {s.seen : s \in {t \in records : t.id = r.id}} : m <= n
  BY DEF recover_from_durability
<1> QED
  BY <1>1, <1>3, <1>4, <1>5

\* A bounded set of numbers that is not empty has a greatest member.
LEMMA GreatestExists ==
    ASSUME NEW N \in Nat, NEW S \in SUBSET (0..N), S # {}
    PROVE  \E x \in S : \A y \in S : y <= x
<1> DEFINE T == {N - x : x \in S}
<1>1. T \in SUBSET Nat
  <2>1. \A x \in S : N - x \in Nat
    OBVIOUS
  <2> QED
    BY <2>1
<1>2. T # {}
  OBVIOUS
<1>3. \E t \in T : \A u \in T : t <= u
  <2> HIDE DEF T
  <2>1. PICK t \in T : \A u \in T : ~ (<<u, t>> \in OpToRel(<, Nat))
    BY <1>1, <1>2, WFMin, NatLessThanWellFounded
  <2>2. \A u \in T : ~ (u < t)
    BY <1>1, <2>1 DEF OpToRel
  <2> QED
    BY <1>1, <2>2
<1>4. PICK x \in S : \A u \in T : N - x <= u
  BY <1>3
<1>5. \A y \in S : N - x <= N - y
  BY <1>4
<1> QED
  BY <1>5

\* The types of what everybody else changes.
LEMMA OthersKeepTypes ==
    ASSUME TypeOK, SeenBound,
           (\E k \in Key, v \in Row : Write(k, v)) \/ Operator \/ UNCHANGED vars
    PROVE  TypeOK'
<1> USE IdleTyped
<1>f. ASSUME Fault PROVE faults' \in 0..MaxFaults
  BY <1>f, ChangeBounds DEF Fault, TypeOK
<1>1. ASSUME NEW k \in Key, NEW v \in Row, Write(k, v) PROVE TypeOK'
  <2>1. source' \in [Key -> Row] /\ writes' \in 0..MaxWrites
    <3>1. source \in [Key -> Row] /\ writes \in 0..MaxWrites
      BY DEF TypeOK
    <3>2. source' = [source EXCEPT ![k] = v] /\ writes < MaxWrites /\ writes' = writes + 1
      BY <1>1 DEF Write
    <3>3. MaxWrites \in Nat
      BY ChangeBounds
    <3> QED
      BY <3>1, <3>2, <3>3
  <2> QED
    BY <1>1, <2>1 DEF Write, TypeOK
<1>2. ASSUME NEW caller \in Caller, drain_and_sync(caller) PROVE TypeOK'
  <2>1. cycle' \in Cycle
    BY <1>2 DEF drain_and_sync, Cycle
  <2> QED
    BY <1>2, <2>1 DEF drain_and_sync, TypeOK
<1>3. CASE recover_from_durability
  <2>1. ASSUME NEW r \in records PROVE message'[r.id] \in Nat
    <3> DEFINE S == {s.seen : s \in {t \in records : t.id = r.id}}
    <3>1. \A s \in records : s.seen \in 0..seen
      BY DEF TypeOK, Event, SeenBound, Captured
    <3>2. S \in SUBSET (0..seen) /\ S # {} /\ seen \in Nat
      BY <3>1 DEF TypeOK
    <3>3. message'[r.id] = CHOOSE n \in S : \A m \in S : m <= n
      BY <1>3, RecoverEffect
    <3> HIDE DEF S
    <3>4. \E n \in S : \A m \in S : m <= n
      BY <3>2, GreatestExists
    <3>5. (CHOOSE n \in S : \A m \in S : m <= n) \in S
      BY <3>4
    <3>6. \A n \in S : n \in Nat
      BY <3>2
    <3> QED
      BY <3>3, <3>5, <3>6
  <2>2. \A i \in DOMAIN message' : message'[i] \in Nat
    BY <1>3, <2>1, RecoverEffect
  <2> QED
    BY <1>3, <2>2, RecoverEffect DEF recover_from_durability, TypeOK
<1>4. CASE abort_pre_cutover
  BY <1>4, EmptyTyped DEF abort_pre_cutover, TypeOK
<1>5. CASE RolledBack \/ set_active_adapter \/ bind_target_writer \/ BeginDdl \/ EndDdl
  BY <1>5 DEF RolledBack, set_active_adapter, bind_target_writer, BeginDdl, EndDdl, TypeOK
<1>8. CASE start_capture
  <2>1. StartView \in [Key -> Row] /\ lost' \in BOOLEAN
    BY <1>8 DEF start_capture, StartView, TypeOK
  <2>2. cycle' \in Cycle
    BY <1>8 DEF start_capture, Cycle, Caller, TypeOK
  <2>3. paused' \in BOOLEAN /\ cutover' \in {"OPEN", "CUTOVER_COMPLETE"}
    BY <1>8 DEF start_capture, TypeOK
  <2> QED
    BY <1>8, <2>1, <2>2, <2>3 DEF start_capture, TypeOK
<1>6. CASE Crash
  <2>1. lost' \in BOOLEAN /\ crashes' \in 0..MaxCrashes
    BY <1>6, ChangeBounds DEF Crash, TypeOK
  <2>2. \A i \in DOMAIN message' : message'[i] \in Nat
    BY <1>6 DEF Crash, NoMessages
  <2> QED
    BY <1>6, <2>1, <2>2, EmptyTyped DEF Crash, TypeOK
<1>7. CASE UNCHANGED vars
  BY <1>7 DEF vars, TypeOK
<1> QED
  BY <1>1, <1>2, <1>3, <1>4, <1>5, <1>6, <1>7, <1>8 DEF Operator, Caller

\* Steps that leave the cycle alone or end it.
LEMMA OtherCycles ==
    ASSUME TypeOK, (\E k \in Key, v \in Row : Write(k, v)) \/ Operator \/ UNCHANGED vars
    PROVE  \/ cycle' = cycle \/ cycle' = Idle
           \/ cycle.pc = "idle" /\ \E pc \in {"poll", "dump"}, caller \in Caller :
                /\ cycle' = [Idle EXCEPT !.pc = pc, !.caller = caller]
                /\ caller = "start" => pc = "dump"
<1>1. CASE start_capture
  BY <1>1 DEF start_capture, Caller
<1>2. ASSUME NEW caller \in Calls, drain_and_sync(caller)
      PROVE  /\ cycle.pc = "idle" /\ caller \in Caller /\ caller # "start"
             /\ cycle' = [Idle EXCEPT !.pc = "poll", !.caller = caller]
  BY <1>2, ChangeBounds DEF drain_and_sync, Caller
<1>3. CASE \/ \E k \in Key, v \in Row : Write(k, v)
           \/ recover_from_durability \/ abort_pre_cutover \/ RolledBack \/ set_active_adapter
           \/ bind_target_writer \/ BeginDdl \/ EndDdl \/ Crash \/ UNCHANGED vars
  BY <1>3 DEF Write, recover_from_durability, abort_pre_cutover, RolledBack, set_active_adapter,
              bind_target_writer, BeginDdl, EndDdl, Crash, vars
<1> QED
  BY <1>1, <1>2, <1>3 DEF Operator

\* At every stage of a cycle only the lists of that stage are in use.
LEMMA StagesStep == TypeOK /\ Stages /\ [Next]_vars => Stages'
<1> SUFFICES ASSUME TypeOK, Stages, [Next]_vars PROVE Stages'
  OBVIOUS
<1> USE CycleTyped, IdleTyped
<1>0. cycle \in Cycle
  BY DEF TypeOK
<1>1. CASE cycle' = Idle
  BY <1>1 DEF Stages
<1>2. CASE cycle' = cycle
  BY <1>2 DEF Stages
<1>3. ASSUME NEW pc \in {"poll", "dump"}, NEW caller \in Caller, caller = "start" => pc = "dump",
             cycle' = [Idle EXCEPT !.pc = pc, !.caller = caller]
      PROVE  Stages'
  BY <1>3 DEF Stages, Idle
<1>4. CASE Poll
  <2>0. PICK events \in Seq(Event) :
          \E pc \in {"dump", "push"} :
            cycle' = [cycle EXCEPT !.pc = pc, !.todo = AtMost(MaxEvents, events)]
    BY <1>4, PollEffect
  <2>1. PICK pc \in {"dump", "push"} :
          cycle' = [cycle EXCEPT !.pc = pc, !.todo = AtMost(MaxEvents, events)]
    BY <2>0
  <2>2. cycle.pc = "poll"
    BY <1>4 DEF Poll
  <2> QED
    BY <1>0, <2>1, <2>2 DEF Stages, Cycle
<1>5. CASE push
  BY <1>0, <1>5 DEF push, Stages, Cycle
<1>6. CASE Take
  <2>1. \/ cycle' = Idle
        \/ \E ordered, full : cycle' = [cycle EXCEPT !.pc = "apply", !.work = ordered,
                                                     !.acks = ordered, !.pass = 0, !.full = full]
    BY <1>6, TakeCycle
  <2>2. CASE cycle' # Idle
    <3>1. PICK ordered, full : cycle' = [cycle EXCEPT !.pc = "apply", !.work = ordered,
                                                     !.acks = ordered, !.pass = 0, !.full = full]
      BY <2>1, <2>2
    <3>2. cycle.todo = <<>> /\ cycle.pc = "push"
      BY <1>6 DEF Take
    <3> QED
      BY <1>0, <3>1, <3>2 DEF Stages, Cycle
  <2> QED
    BY <1>1, <2>2
<1>7. CASE apply_event \/ Defer \/ NextPass \/ ApplyFails
  BY <1>0, <1>1, <1>7 DEF apply_event, Defer, NextPass, ApplyFails, Stages, Cycle
<1>8. CASE AllApplied \/ ack_event \/ EndBatch \/ PollPaused
  BY <1>0, <1>1, <1>8 DEF AllApplied, ack_event, EndBatch, PollPaused, AfterDrain, Stages, Cycle
<1>10. CASE EndSave \/ PollNothing \/ PollRaises
  BY <1>0, <1>1, <1>10 DEF EndSave, PollNothing, PollRaises, Stages, Cycle
<1>9. CASE drain_and_sync("stream")
  BY <1>3, <1>9 DEF drain_and_sync, Caller
<1> QED
  BY <1>1, <1>2, <1>3, <1>4, <1>5, <1>6, <1>7, <1>8, <1>9, <1>10, OtherCycles DEF Next, RunCycle

\* What a push does to the first event to be pushed.
LEMMA PushEffect ==
    ASSUME TypeOK, push
    PROVE  \E e \in Event :
             /\ e = Head(cycle.todo) /\ e = cycle.todo[1] /\ 1 \in DOMAIN cycle.todo
             /\ e \in Range(cycle.todo)
             /\ cycle'.todo = Tail(cycle.todo) /\ cycle'.work = cycle.work
             /\ cycle'.deferred = cycle.deferred /\ cycle'.acks = cycle.acks
             /\ memory' = Append(memory, e)
             /\ \/ /\ records' = records \cup {e} /\ UNCHANGED lost
                   /\ message' = [i \in DOMAIN message \cup {e.id} |->
                                      IF i = e.id THEN e.seen ELSE message[i]]
                \/ UNCHANGED <<records, message>> /\ lost' = TRUE
             /\ Range(cycle.todo) = {e} \cup Range(cycle'.todo)
             /\ Range(cycle'.todo) \subseteq Event
             /\ UNCHANGED <<source, target, table_state, seq, applied, seen>>
<1>1. cycle.todo \in Seq(Event) /\ cycle.todo # <<>> /\ cycle \in Cycle
  BY CycleTyped DEF push, TypeOK
<1>2. cycle'.todo = Tail(cycle.todo) /\ cycle'.work = cycle.work
      /\ cycle'.deferred = cycle.deferred /\ cycle'.acks = cycle.acks
  BY <1>1 DEF push, Cycle
<1> DEFINE e == Head(cycle.todo)
<1>3. /\ e \in Event /\ e = cycle.todo[1] /\ 1 \in DOMAIN cycle.todo /\ e \in Range(cycle.todo)
      /\ Range(cycle.todo) = {e} \cup Range(Tail(cycle.todo)) /\ Tail(cycle.todo) \in Seq(Event)
  BY <1>1, TailFacts
<1>4. Range(Tail(cycle.todo)) \subseteq Event
  BY <1>3, SeqDomain
<1>5. /\ memory' = Append(memory, e)
      /\ \/ /\ records' = records \cup {e} /\ UNCHANGED lost
            /\ message' = [i \in DOMAIN message \cup {e.id} |->
                                      IF i = e.id THEN e.seen ELSE message[i]]
         \/ UNCHANGED <<records, message>> /\ lost' = TRUE
      /\ UNCHANGED <<source, target, table_state, seq, applied, seen>>
  BY DEF push
<1> QED
  BY <1>2, <1>3, <1>4, <1>5

\* No event is numbered ahead of the count, at the next step.
LEMMA SeenStep == TypeOK /\ Stages /\ SeenBound /\ [Next]_vars => SeenBound'
<1> SUFFICES ASSUME TypeOK, Stages, SeenBound, [Next]_vars PROVE SeenBound'
  OBVIOUS
<1>0. cycle \in Cycle
  BY DEF TypeOK
<1>1. ASSUME records' \subseteq records, seen' = seen,
             cycle'.todo = cycle.todo \/ cycle'.todo = <<>>
      PROVE  SeenBound'
  BY <1>1, NothingInEmpty DEF SeenBound, Captured
<1>2. CASE Poll
  <2>1. PICK keys \in Changes, events \in Seq(Event) :
             /\ DOMAIN events = DOMAIN keys /\ \A i \in DOMAIN keys : events[i] = Reported(keys, i)
             /\ seen' = seen + Len(keys)
             /\ \E pc \in {"dump", "push"} :
                  cycle' = [cycle EXCEPT !.pc = pc, !.todo = AtMost(MaxEvents, events)]
    BY <1>2, PollEffect
  <2>2. cycle'.todo = AtMost(MaxEvents, events)
    BY <1>0, <2>1 DEF Cycle
  <2>3. seen \in Nat /\ Len(keys) \in Nat /\ DOMAIN keys = 1..Len(keys)
    BY ChangesFacts DEF TypeOK
  <2>4. ASSUME NEW i \in DOMAIN cycle'.todo PROVE cycle'.todo[i].seen <= seen'
    <3>1. i \in DOMAIN keys /\ cycle'.todo[i] = Reported(keys, i)
      BY <2>1, <2>2, AtMostFacts, MaxEventsTyped
    <3> QED
      BY <2>1, <2>3, <3>1 DEF Reported
  <2>5. ASSUME NEW e \in records PROVE e.seen <= seen'
    <3>1. e.seen \in Nat /\ e.seen <= seen
      BY DEF SeenBound, Captured, TypeOK, Event
    <3> QED
      BY <2>1, <2>3, <3>1
  <2>6. records' = records
    BY <1>2 DEF Poll
  <2> QED
    BY <2>4, <2>5, <2>6 DEF SeenBound, Captured, Range
<1>3. CASE push
  BY <1>3, PushEffect DEF SeenBound, Captured
<1>4. CASE Take
  <2>1. cycle.todo = <<>> /\ records' = records /\ seen' = seen
    BY <1>4 DEF Take
  <2>2. cycle'.todo = cycle.todo \/ cycle'.todo = <<>>
    <3>1. ASSUME NEW ordered, NEW full,
               cycle' = [cycle EXCEPT !.pc = "apply", !.work = ordered, !.acks = ordered,
                                      !.pass = 0, !.full = full]
          PROVE  cycle'.todo = cycle.todo
      BY <1>0, <3>1 DEF Cycle
    <3>2. \/ cycle' = Idle
          \/ \E ordered, full :
                cycle' = [cycle EXCEPT !.pc = "apply", !.work = ordered, !.acks = ordered,
                                       !.pass = 0, !.full = full]
      BY <1>4, TakeCycle
    <3>3. CASE cycle' = Idle
      BY <3>3, IdleTyped
    <3> QED
      BY <3>1, <3>2, <3>3
  <2> QED
    BY <1>1, <2>1, <2>2
<1>5. CASE apply_event \/ Defer \/ NextPass \/ ApplyFails
  BY <1>0, <1>1, <1>5, IdleTyped DEF apply_event, Defer, NextPass, ApplyFails, Cycle
<1>6. CASE AllApplied \/ ack_event \/ EndBatch \/ PollPaused
  BY <1>0, <1>1, <1>6, IdleTyped DEF AllApplied, ack_event, EndBatch, PollPaused, AfterDrain, Cycle
<1>9. CASE EndSave \/ PollNothing \/ PollRaises
  BY <1>0, <1>1, <1>9, IdleTyped DEF EndSave, PollNothing, PollRaises, Cycle
<1>7. CASE (\E k \in Key, v \in Row : Write(k, v)) \/ Operator \/ UNCHANGED vars
  <2>1. records' = records /\ seen' = seen
    BY <1>7 DEF Write, Operator, drain_and_sync, recover_from_durability, abort_pre_cutover,
                RolledBack, set_active_adapter, start_capture, bind_target_writer,
                BeginDdl, EndDdl, Crash, vars
  <2>2. cycle'.todo = cycle.todo \/ cycle'.todo = <<>>
    BY <1>7, OtherCycles, IdleTyped DEF Idle
  <2> QED
    BY <1>1, <2>1, <2>2
<1>8. CASE drain_and_sync("stream")
  BY <1>1, <1>8 DEF drain_and_sync, Idle
<1> QED
  BY <1>2, <1>3, <1>4, <1>5, <1>6, <1>7, <1>8, <1>9 DEF Next, RunCycle

-----------------------------------------------------------------------------
\* Nothing is lost, one step at a time.

\* A row is kept when neither its target nor its pending changes are touched and
\* the adapter's view of it stays alike.
LEMMA AlikeKeeps ==
    ASSUME NEW k \in Key, RowIsKept(k), Pending(k)' = Pending(k), target'[k] = target[k],
           RowsEqual(table_state[k], table_state'[k])
    PROVE  RowIsKept(k)'
<1>1. CASE Pending(k) = {} /\ RowsEqual(target[k], table_state[k])
  <2>1. RowsEqual(target'[k], table_state'[k])
    BY <1>1, RowsEqualFacts
  <2> QED
    BY <1>1, <2>1 DEF RowIsKept, RowsEqual
<1>2. ASSUME NEW e \in Pending(k), \A f \in Pending(k) : f.seen <= e.seen,
             RowsEqual(e.val, table_state[k])
      PROVE  RowIsKept(k)'
  <2>1. RowsEqual(e.val, table_state'[k])
    BY <1>2, RowsEqualFacts
  <2> QED
    BY <1>2, <2>1 DEF RowIsKept, RowsEqual
<1> QED
  BY <1>1, <1>2 DEF RowIsKept

\* Steps that touch neither records nor target, keep the batch or drop it, and
\* leave the adapter a view alike.
LEMMA QuietKeeps ==
    ASSUME NothingLost, UNCHANGED <<target, records>>,
           \A k \in Key : RowsEqual(table_state[k], table_state'[k]),
           cycle'.todo = cycle.todo,
           \/ /\ cycle'.work = cycle.work /\ cycle'.deferred = cycle.deferred
              /\ cycle'.acks = cycle.acks
              /\ applied' = applied
           \/ /\ cycle'.work = <<>> /\ cycle'.deferred = <<>> /\ cycle'.acks = <<>>
              /\ applied' = applied \/ applied' = {},
           memory' = memory \/ memory' = <<>>,
           message' = message \/ message' = NoMessages
    PROVE  NothingLost'
<1> USE NothingInEmpty
<1>1. Numbered'
  BY DEF NothingLost, Numbered, Captured
<1>2. TodoIsNew'
  BY DEF NothingLost, TodoIsNew
<1>3. MemoryInOrder'
  BY DEF NothingLost, MemoryInOrder
<1>4. MapIsRight'
  BY DEF NothingLost, MapIsRight, NoMessages
<1>5. AppliedInOrder'
  BY DEF NothingLost, AppliedInOrder
<1>6. WorkInOrder'
  BY DEF NothingLost, WorkInOrder
<1>7. AcksInOrder'
  BY DEF NothingLost, AcksInOrder
<1>8. \A k \in Key : RowIsKept(k)'
  BY AlikeKeeps DEF NothingLost, Pending
<1> QED
  BY <1>1, <1>2, <1>3, <1>4, <1>5, <1>6, <1>7, <1>8 DEF NothingLost

\* A poll adds events newer than every record, with ids nobody has.
LEMMA PollKeeps ==
    ASSUME TypeOK, Stages, SeenBound, NothingLost, Poll, ~lost'
    PROVE  NothingLost'
<1>0. cycle \in Cycle /\ cycle.todo = <<>>
  BY DEF TypeOK, Stages, Poll
<1>1. PICK keys \in Changes, events \in Seq(Event) :
             /\ DOMAIN events = DOMAIN keys /\ \A i \in DOMAIN keys : events[i] = Reported(keys, i)
             /\ \E pc \in {"dump", "push"} :
                  cycle' = [cycle EXCEPT !.pc = pc, !.todo = AtMost(MaxEvents, events)]
             /\ AtMost(MaxEvents, events) = events /\ ~ReusesId(events)
  BY PollEffect
<1>2. /\ cycle'.todo = events /\ cycle'.work = cycle.work
      /\ cycle'.deferred = cycle.deferred /\ cycle'.acks = cycle.acks
  BY <1>0, <1>1 DEF Cycle
<1>3. Range(keys) = Changed /\ DOMAIN keys \subseteq Nat \ {0}
  BY ChangesFacts
<1>4. UNCHANGED <<source, target, records, memory, message, applied>> /\ table_state' = source
  BY DEF Poll
<1>5. seen \in Nat /\ seq \in Nat
  BY DEF TypeOK
<1>6. ASSUME NEW i \in DOMAIN events
      PROVE  /\ events[i].seen = seen + i /\ events[i].id = seq + i /\ i \in Nat \ {0}
             /\ events[i].key = keys[i] /\ events[i].val = source[keys[i]]
             /\ keys[i] \in Changed
             /\ events[i].id \notin applied /\ \A r \in records : r.id # events[i].id
  <2>1. events[i] \in Range(events) /\ keys[i] \in Range(keys)
    BY <1>1 DEF Range
  <2> QED
    BY <1>1, <1>3, <2>1 DEF Reported, ReusesId
<1>r. \A r \in records : r.seen \in Nat /\ r.seen <= seen
  BY DEF SeenBound, Captured, TypeOK, Event
<1>7. ASSUME NEW i \in DOMAIN events, NEW r \in records PROVE r.seen < events[i].seen
  <2>1. r.seen \in Nat /\ r.seen <= seen
    BY <1>r
  <2> QED
    BY <1>5, <1>6, <2>1
<1>8. Numbered'
  <2> SUFFICES ASSUME NEW e \in Captured', NEW f \in Captured', e.seen = f.seen \/ e.id = f.id
               PROVE  e = f
    BY DEF Numbered
  <2>1. /\ e \in records \/ \E i \in DOMAIN events : e = events[i]
        /\ f \in records \/ \E i \in DOMAIN events : f = events[i]
    BY <1>2, <1>4 DEF Captured, Range
  <2>2. CASE e \in records /\ f \in records
    BY <2>2 DEF NothingLost, Numbered, Captured
  <2>3. \A r \in records : \A i \in DOMAIN events :
          r.seen # events[i].seen /\ events[i].seen # r.seen /\ r.id # events[i].id
    <3> SUFFICES ASSUME NEW r \in records, NEW i \in DOMAIN events
                 PROVE  r.seen # events[i].seen /\ r.id # events[i].id
      OBVIOUS
    <3>1. r.seen \in Nat /\ events[i].seen \in Nat
      BY <1>5, <1>6, <1>r
    <3> QED
      BY <1>6, <1>7, <3>1
  <2>4. \A i, j \in DOMAIN events : events[i].seen = events[j].seen \/ events[i].id = events[j].id => i = j
    BY <1>5, <1>6
  <2> QED
    BY <2>1, <2>2, <2>3, <2>4
<1>9. TodoIsNew'
  <2>1. \A i, j \in DOMAIN events : i < j => events[i].seen < events[j].seen
    BY <1>5, <1>6
  <2> QED
    BY <1>2, <1>4, <1>6, <1>7, <2>1 DEF TodoIsNew
<1>10. MemoryInOrder' /\ MapIsRight' /\ AppliedInOrder' /\ WorkInOrder' /\ AcksInOrder'
  BY <1>2, <1>4 DEF NothingLost, MemoryInOrder, MapIsRight, AppliedInOrder, WorkInOrder, AcksInOrder
<1>11. ASSUME NEW k \in Key PROVE RowIsKept(k)'
  <2>1. CASE k \in Changed
    <3>1. PICK i \in DOMAIN keys : keys[i] = k
      BY <1>3, <2>1 DEF Range
    <3>2. i \in DOMAIN events /\ events[i].key = k /\ events[i].val = table_state'[k]
      BY <1>1, <1>4, <1>6, <3>1
    <3>3. events[i] \in Pending(k)'
      BY <1>2, <3>2 DEF Pending, Range
    <3>4. ASSUME NEW f \in Pending(k)' PROVE f.seen <= events[i].seen
      <4>1. CASE f \in records
        <5>1. f.seen \in Nat /\ events[i].seen \in Nat
          BY <1>5, <1>6, <1>r, <3>2, <4>1
        <5> QED
          BY <1>7, <3>2, <4>1, <5>1
      <4>2. ASSUME NEW j \in DOMAIN events, f = events[j] PROVE f.seen <= events[i].seen
        <5>1. keys[j] = k
          BY <1>6, <4>2, <3>4 DEF Pending
        <5>2. \A a, b \in DOMAIN keys : keys[a] = keys[b] => a = b
          BY ChangesFacts
        <5> QED
          BY <1>1, <3>1, <4>2, <5>1, <5>2, <1>6, <1>5
      <4> QED
        BY <1>2, <1>4, <4>1, <4>2 DEF Pending, Range
    <3>5. RowsEqual(events[i].val, table_state'[k])
      BY <3>2, RowsEqualFacts
    <3> QED
      BY <3>3, <3>4, <3>5 DEF RowIsKept, RowsEqual
  <2>2. CASE k \notin Changed
    <3>1. RowsEqual(table_state[k], table_state'[k])
      BY <1>4, <2>2, RowsEqualFacts DEF Changed
    <3>2. Pending(k)' = Pending(k)
      <4>1. \A j \in DOMAIN events : events[j].key # k
        BY <1>6, <2>2
      <4> QED
        BY <1>0, <1>2, <1>4, <4>1, NothingInEmpty DEF Pending, Range
    <3> QED
      BY <1>4, <3>1, <3>2, AlikeKeeps DEF NothingLost
  <2> QED
    BY <2>1, <2>2
<1> QED
  BY <1>1, <1>4, <1>8, <1>9, <1>10, <1>11 DEF NothingLost

\* A push that stores its record loses nothing.
LEMMA PushKeeps ==
    ASSUME TypeOK, Stages, NothingLost, push, ~lost'
    PROVE  NothingLost'
<1>1. PICK e \in Event :
             /\ e = cycle.todo[1] /\ 1 \in DOMAIN cycle.todo
             /\ e \in Range(cycle.todo)
             /\ cycle'.todo = Tail(cycle.todo) /\ cycle'.work = cycle.work
             /\ cycle'.deferred = cycle.deferred /\ cycle'.acks = cycle.acks
             /\ memory' = Append(memory, e)
             /\ records' = records \cup {e}
             /\ message' = [i \in DOMAIN message \cup {e.id} |->
                                      IF i = e.id THEN e.seen ELSE message[i]]
             /\ Range(cycle.todo) = {e} \cup Range(cycle'.todo)
             /\ UNCHANGED <<target, table_state, applied>>
  BY PushEffect
<1>2. cycle.work = <<>> /\ cycle.deferred = <<>> /\ cycle.acks = <<>>
  BY DEF Stages, push
<1>3. e.id \notin applied /\ \A r \in records : r.seen < e.seen
  BY <1>1 DEF NothingLost, TodoIsNew
<1>r. e.seen \in Nat /\ \A r \in records : r.seen \in Nat
  BY DEF TypeOK, Event
<1>4. Captured' = Captured
  BY <1>1 DEF Captured
<1>5. Numbered'
  BY <1>4 DEF NothingLost, Numbered
<1>6. TodoIsNew'
  <2>1. cycle.todo \in Seq(Event) /\ cycle.todo # <<>>
    BY CycleTyped DEF TypeOK, push
  <2>2. \A i \in DOMAIN cycle'.todo : i + 1 \in DOMAIN cycle.todo /\ cycle'.todo[i] = cycle.todo[i + 1]
                                      /\ i \in Nat \ {0}
    BY <1>1, <2>1, TailFacts
  <2>3. \A i \in DOMAIN cycle'.todo : cycle'.todo[i].id \notin applied /\ e.seen < cycle'.todo[i].seen
                                      /\ \A r \in records : r.seen < cycle'.todo[i].seen
    <3> SUFFICES ASSUME NEW i \in DOMAIN cycle'.todo
                 PROVE  cycle'.todo[i].id \notin applied /\ e.seen < cycle'.todo[i].seen
                        /\ \A r \in records : r.seen < cycle'.todo[i].seen
      OBVIOUS
    <3>1. i + 1 \in DOMAIN cycle.todo /\ cycle'.todo[i] = cycle.todo[i + 1] /\ 1 < i + 1
      BY <2>2
    <3> QED
      BY <1>1, <3>1 DEF NothingLost, TodoIsNew
  <2>4. \A i, j \in DOMAIN cycle'.todo : i < j => cycle'.todo[i].seen < cycle'.todo[j].seen
    <3> SUFFICES ASSUME NEW i \in DOMAIN cycle'.todo, NEW j \in DOMAIN cycle'.todo, i < j
                 PROVE  cycle'.todo[i].seen < cycle'.todo[j].seen
      OBVIOUS
    <3>1. i + 1 < j + 1
      BY <2>2
    <3> QED
      BY <2>2, <3>1 DEF NothingLost, TodoIsNew
  <2> QED
    BY <1>1, <2>3, <2>4 DEF TodoIsNew
<1>7. MemoryInOrder'
  <2> DEFINE n == Len(memory) + 1
  <2>1. memory \in Seq(Event)
    BY DEF TypeOK
  <2>2. /\ DOMAIN memory' = DOMAIN memory \cup {n} /\ memory'[n] = e
        /\ \A i \in DOMAIN memory : memory'[i] = memory[i] /\ i < n /\ i \in Nat
        /\ Range(memory') = Range(memory) \cup {e}
    BY <1>1, <2>1, AppendFacts
  <2>3. n \in Nat
    BY <2>1
  <2>4. \A i \in DOMAIN memory : memory[i] \in records
    BY DEF NothingLost, MemoryInOrder, Range
  <2> HIDE DEF n
  <2>5. ASSUME NEW i \in DOMAIN memory', NEW j \in DOMAIN memory', i < j
        PROVE  memory'[i].seen < memory'[j].seen
    <3>1. i \in DOMAIN memory
      BY <2>2, <2>3, <2>5
    <3>2. CASE j \in DOMAIN memory
      BY <2>2, <2>5, <3>1, <3>2 DEF NothingLost, MemoryInOrder
    <3>3. CASE j = n
      BY <1>3, <2>2, <2>4, <3>1, <3>3
    <3> QED
      BY <2>2, <3>2, <3>3
  <2>6. Range(memory') \subseteq records'
    BY <1>1, <2>2 DEF NothingLost, MemoryInOrder
  <2> QED
    BY <1>1, <1>2, <2>5, <2>6, NothingInEmpty DEF MemoryInOrder
<1>8. MapIsRight'
  <2>1. \A r \in records : r.id # e.id
    <3> SUFFICES ASSUME NEW r \in records, r.id = e.id PROVE FALSE
      OBVIOUS
    <3>1. r = e
      BY <1>1 DEF NothingLost, Numbered, Captured
    <3> QED
      BY <1>3, <1>r, <3>1
  <2> QED
    BY <1>1, <2>1 DEF NothingLost, MapIsRight
<1>9. AppliedInOrder'
  <2> SUFFICES ASSUME NEW r \in records', r.id \in applied'
               PROVE  /\ \A s \in records' : Older(s, r) => s.id \in applied'
                      /\ (\A s \in records' : Older(r, s) => s.id \notin applied') => target'[r.key] = r.val
    BY DEF AppliedInOrder
  <2>1. r \in records /\ r.id \in applied
    BY <1>1, <1>3
  <2>2. ~Older(e, r)
    BY <1>3, <1>r, <2>1 DEF Older
  <2> QED
    BY <1>1, <1>3, <2>1, <2>2 DEF NothingLost, AppliedInOrder
<1>10. WorkInOrder' /\ AcksInOrder'
  BY <1>1, <1>2, NothingInEmpty DEF WorkInOrder, AcksInOrder
<1>11. \A k \in Key : RowIsKept(k)'
  <2>1. \A k \in Key : Pending(k)' = Pending(k)
    BY <1>4 DEF Pending, Captured
  <2> QED
    BY <1>1, <2>1 DEF NothingLost, RowIsKept, RowsEqual
<1> QED
  BY <1>1, <1>5, <1>6, <1>7, <1>8, <1>9, <1>10, <1>11 DEF NothingLost

\* A batch is a run of records of each row without gaps, in order; what is left
\* in memory is newer.
LEMMA TakeKeeps ==
    ASSUME TypeOK, Stages, NothingLost, Take, ~lost'
    PROVE  NothingLost'
<1>0. /\ cycle \in Cycle /\ cycle.todo = <<>> /\ cycle.work = <<>> /\ cycle.deferred = <<>>
      /\ cycle.acks = <<>> /\ memory \in Seq(Event)
  BY DEF TypeOK, Stages, Take
<1>1. PICK fetched, batch \in Seq(Event) :
             /\ Len(fetched) \in 0..Len(memory) /\ Len(batch) \in 0..Len(fetched)
             /\ DOMAIN batch = 1..Len(batch)
             /\ \A i \in DOMAIN batch : i \in DOMAIN memory /\ batch[i] = memory[i]
             /\ memory' = SubSeq(memory, Len(fetched) + 1, Len(memory))
             /\ \/ cycle' = Idle
                \/ /\ ~Reorders(batch) /\ ~Overtakes(batch)
                   /\ \E ordered \in Ordered(batch) :
                        cycle' = [cycle EXCEPT !.pc = "apply", !.work = ordered, !.acks = ordered,
                                               !.pass = 0, !.full = Len(batch) >= MaxEvents]
  BY TakeEffect DEF AfterDrain
<1>2. UNCHANGED <<target, table_state, records, message, applied>>
  BY DEF Take
<1>n. /\ Len(fetched) \in 0..Len(memory) /\ Len(batch) \in 0..Len(fetched)
      /\ DOMAIN batch = 1..Len(batch)
      /\ \A i \in DOMAIN batch : i \in DOMAIN memory /\ batch[i] = memory[i]
  BY <1>1
<1>s. memory' = SubSeq(memory, Len(fetched) + 1, Len(memory))
  BY <1>1
<1>3. \A i \in DOMAIN memory' : /\ i + Len(fetched) \in DOMAIN memory /\ i \in Nat \ {0}
                                /\ memory'[i] = memory[i + Len(fetched)]
  BY <1>0, <1>n, <1>s, SuffixFacts
<1>m. /\ Len(fetched) \in Nat /\ Len(batch) \in Nat /\ Len(batch) <= Len(fetched)
      /\ Len(memory) \in Nat /\ DOMAIN memory = 1..Len(memory)
  <2>1. Len(memory) \in Nat /\ DOMAIN memory = 1..Len(memory)
    BY <1>0
  <2> QED
    BY <1>n, <2>1
<1>4. /\ \A i \in DOMAIN memory : memory[i] \in records /\ memory[i].seen \in Nat
      /\ \A i, j \in DOMAIN memory : i < j => memory[i].seen < memory[j].seen
  BY DEF NothingLost, MemoryInOrder, Range, TypeOK, Event
<1>5. \A i, j \in DOMAIN memory' : i < j => memory'[i].seen < memory'[j].seen
  <2> SUFFICES ASSUME NEW i \in DOMAIN memory', NEW j \in DOMAIN memory', i < j
               PROVE  memory'[i].seen < memory'[j].seen
    OBVIOUS
  <2>1. i + Len(fetched) < j + Len(fetched)
    BY <1>3, <1>m
  <2> QED
    BY <1>3, <1>4, <2>1
<1>6. Range(memory') \subseteq records'
  BY <1>2, <1>3, <1>4 DEF Range
<1>7. Range(memory') \cap Range(batch) = {}
  <2> SUFFICES ASSUME NEW i \in DOMAIN memory', NEW j \in DOMAIN batch, memory'[i] = batch[j]
               PROVE  FALSE
    BY DEF Range
  <2>1. j \in DOMAIN memory /\ j < i + Len(fetched)
    BY <1>n, <1>3, <1>m
  <2>2. memory[j].seen < memory[i + Len(fetched)].seen
    BY <1>3, <1>4, <2>1
  <2>3. memory[j] = memory[i + Len(fetched)]
    BY <1>n, <1>3
  <2> QED
    BY <1>4, <2>1, <2>2, <2>3
<1>8. Numbered' /\ MapIsRight' /\ AppliedInOrder' /\ TodoIsNew' /\ (\A k \in Key : RowIsKept(k)')
  <2>1. cycle'.todo = <<>>
    BY <1>0, TakeCycle, IdleTyped DEF Cycle
  <2> QED
    BY <1>0, <1>2, <2>1 DEF NothingLost, Numbered, Captured, MapIsRight, AppliedInOrder, TodoIsNew,
                            RowIsKept, RowsEqual, Pending
<1>9. CASE cycle' = Idle
  <2>2. MemoryInOrder' /\ WorkInOrder' /\ AcksInOrder'
    BY <1>5, <1>6, <1>9, IdleTyped, NothingInEmpty DEF MemoryInOrder, WorkInOrder, AcksInOrder
  <2> QED
    BY <1>2, <1>8, <2>2 DEF NothingLost
<1>10. ASSUME NEW w \in Ordered(batch), ~Reorders(batch), ~Overtakes(batch),
              cycle' = [cycle EXCEPT !.pc = "apply", !.work = w, !.acks = w,
                                     !.pass = 0, !.full = Len(batch) >= MaxEvents]
       PROVE  NothingLost'
  <2>1. cycle'.work = w /\ cycle'.acks = w /\ cycle'.deferred = <<>>
    BY <1>0, <1>10 DEF Cycle
  <2>2. /\ w \in Seq(Event) /\ DOMAIN w = DOMAIN batch /\ Range(w) = Range(batch)
    BY OrderedFacts
  <2>p. PICK p \in [DOMAIN batch -> DOMAIN batch] : Arranges(p, w, batch)
    BY OrderedFacts
  <2>3. /\ \A i \in DOMAIN batch : w[i] = batch[p[i]]
        /\ \A j \in DOMAIN batch : \E i \in DOMAIN batch : p[i] = j
        /\ \A i, j \in DOMAIN batch : i < j =>
             IF IsDelete(batch[p[i]]) <=> IsDelete(batch[p[j]])
             THEN p[i] < p[j] ELSE IsDelete(batch[p[j]])
    BY <2>p DEF Arranges
  <2>4. \A i \in DOMAIN batch : i \in Nat /\ p[i] \in DOMAIN batch /\ p[i] \in Nat
    BY <1>n, <1>m
  <2>5. \A i \in DOMAIN w : w[i] \in records
    BY <1>n, <1>4, <2>2, <2>3
  \* Records older than one of the batch come before it.
  <2>6. ASSUME NEW b \in DOMAIN w, NEW r \in records, Older(r, w[b])
        PROVE  \E a \in 1..(b - 1) : w[a] = r
    <3>1. p[b] \in DOMAIN batch /\ w[b] = batch[p[b]] /\ w[b] \in Range(batch)
      BY <2>2, <2>3 DEF Range
    <3>2. r \notin Stranded
      BY <1>10, <2>6, <3>1 DEF Overtakes, Older
    <3>3. r \in Range(memory)
      BY <1>0, <3>2, NothingInEmpty DEF Stranded
    <3>4. PICK j \in DOMAIN memory : memory[j] = r
      BY <3>3 DEF Range
    <3>5. p[b] \in DOMAIN memory /\ batch[p[b]] = memory[p[b]] /\ p[b] \in Nat /\ j \in Nat
      BY <1>n, <1>m, <2>4, <3>1, <3>4
    <3>6. memory[j].seen < memory[p[b]].seen
      BY <2>6, <3>1, <3>4, <3>5 DEF Older
    <3>7. j < p[b]
      <4>1. CASE p[b] < j
        BY <1>4, <3>4, <3>5, <3>6, <4>1
      <4>2. CASE p[b] = j
        BY <1>4, <3>4, <3>6, <4>2
      <4> QED
        BY <3>5, <4>1, <4>2
    <3>8. j \in DOMAIN batch /\ batch[j] = r
      BY <1>n, <1>m, <3>1, <3>4, <3>7
    <3>9. PICK a \in DOMAIN batch : p[a] = j
      BY <2>3, <3>8
    <3>10. w[a] = r /\ a \in Nat /\ b \in Nat /\ a # b /\ b \in DOMAIN batch
      BY <2>2, <2>3, <2>4, <3>5, <3>7, <3>8, <3>9
    <3>11. ~(b < a)
      <4> SUFFICES ASSUME b < a PROVE FALSE
        OBVIOUS
      <4>1. IF IsDelete(batch[p[b]]) <=> IsDelete(batch[p[a]])
            THEN p[b] < p[a] ELSE IsDelete(batch[p[a]])
        BY <2>3, <3>10
      <4>2. IsDelete(batch[p[a]]) /\ ~IsDelete(batch[p[b]])
        BY <3>5, <3>7, <3>9, <4>1
      <4>3. batch[j].key = batch[p[b]].key
        BY <2>6, <3>1, <3>8 DEF Older
      <4> QED
        BY <1>10, <3>1, <3>7, <3>8, <3>9, <4>2, <4>3 DEF Reorders
    <3>12. a \in 1..(b - 1)
      BY <1>n, <1>m, <3>9, <3>10, <3>11
    <3> QED
      BY <3>10, <3>12
  <2>7. \A i, j \in DOMAIN w : w[i] = w[j] => i = j
    <3> SUFFICES ASSUME NEW i \in DOMAIN w, NEW j \in DOMAIN w, i < j, w[i] = w[j] PROVE FALSE
      BY <2>2, <2>4
    <3>1. batch[p[i]] = batch[p[j]] /\ p[i] < p[j]
      BY <2>2, <2>3
    <3>2. memory[p[i]].seen < memory[p[j]].seen /\ memory[p[i]] = memory[p[j]] /\ p[i] \in DOMAIN memory
      BY <1>n, <1>4, <2>2, <2>4, <3>1
    <3> QED
      BY <1>4, <3>2
  <2>8. MemoryInOrder'
    BY <1>5, <1>6, <1>7, <2>1, <2>2 DEF MemoryInOrder
  <2>9. WorkInOrder'
    BY <1>2, <2>1, <2>5, <2>6, NothingInEmpty DEF WorkInOrder
  <2>10. AcksInOrder'
    <3>1. \A i \in DOMAIN w : w[i] \in Range(w)
      BY DEF Range
    <3> QED
      BY <1>2, <2>1, <2>5, <2>6, <2>7, <3>1 DEF AcksInOrder
  <2> QED
    BY <1>2, <1>8, <2>8, <2>9, <2>10 DEF NothingLost
<1> QED
  BY <1>1, <1>9, <1>10

\* An event is written when every older record of its row is: the target then
\* has the newest change of the row that was written.
LEMMA ApplyKeeps ==
    ASSUME TypeOK, Stages, NothingLost, apply_event
    PROVE  NothingLost'
<1> DEFINE e == Head(cycle.work)
           ws == Tail(cycle.work)
<1>0. cycle \in Cycle /\ cycle.work \in Seq(Event) /\ cycle.work # <<>> /\ cycle.todo = <<>>
  BY CycleTyped DEF TypeOK, Stages, apply_event
<1>1. /\ cycle'.todo = cycle.todo /\ cycle'.work = ws
      /\ cycle'.deferred = cycle.deferred /\ cycle'.acks = cycle.acks
      /\ UNCHANGED <<records, memory, message, table_state>>
  BY <1>0 DEF apply_event, Cycle
<1>2. /\ e \in Event /\ e = cycle.work[1] /\ 1 \in DOMAIN cycle.work
      /\ \A i \in DOMAIN ws : i + 1 \in DOMAIN cycle.work /\ ws[i] = cycle.work[i + 1] /\ i \in Nat \ {0}
      /\ Range(cycle.work) = {e} \cup Range(ws)
  BY <1>0, TailFacts
<1>3. \/ e.id \in applied /\ UNCHANGED <<target, applied>>
      \/ /\ e.id \notin applied /\ applied' = applied \cup {e.id}
         /\ target' = [target EXCEPT ![e.key] = e.val]
  BY DEF apply_event, IsDuplicate
<1> HIDE DEF e, ws
<1>4. e \in records /\ \A r \in records : Older(r, e) => r.id \in applied
  <2>1. \A r \in records : Older(r, cycle.work[1]) => r.id \in applied \/ \E j \in 1..(1 - 1) : cycle.work[j] = r
    BY <1>2 DEF NothingLost, WorkInOrder
  <2> QED
    BY <1>2, <2>1 DEF NothingLost, WorkInOrder
<1>5. e.id \in applied' /\ applied \subseteq applied' /\ \A i \in applied' : i \in applied \/ i = e.id
  BY <1>3
<1>r. target \in [Key -> Row] /\ e.key \in Key /\ \A r \in records : r.seen \in Nat /\ r.key \in Key
  BY <1>2 DEF TypeOK, Event
<1>u. \A r, s \in records : r.id = s.id \/ r.seen = s.seen => r = s
  BY DEF NothingLost, Numbered, Captured
<1>6. Numbered' /\ MapIsRight' /\ MemoryInOrder'
  BY <1>1 DEF NothingLost, Numbered, Captured, MapIsRight, MemoryInOrder
<1>7. TodoIsNew'
  BY <1>0, <1>1, NothingInEmpty DEF TodoIsNew
<1>8. AppliedInOrder'
  <2>1. CASE e.id \in applied /\ UNCHANGED <<target, applied>>
    BY <1>1, <2>1 DEF NothingLost, AppliedInOrder
  <2>2. CASE e.id \notin applied /\ applied' = applied \cup {e.id} /\ target' = [target EXCEPT ![e.key] = e.val]
    <3> SUFFICES ASSUME NEW r \in records, r.id \in applied'
                 PROVE  /\ \A s \in records : Older(s, r) => s.id \in applied'
                        /\ (\A s \in records : Older(r, s) => s.id \notin applied') => target'[r.key] = r.val
      BY <1>1 DEF AppliedInOrder
    <3>1. CASE r = e
      BY <1>4, <1>5, <1>r, <2>2, <3>1
    <3>2. CASE r # e
      <4>1. r.id \in applied
        BY <1>4, <1>5, <1>u, <3>2
      <4>2. \A s \in records : Older(s, r) => s.id \in applied
        BY <4>1 DEF NothingLost, AppliedInOrder
      <4>3. ASSUME \A s \in records : Older(r, s) => s.id \notin applied'
            PROVE  target'[r.key] = r.val
        <5>1. target[r.key] = r.val
          BY <1>5, <4>1, <4>3 DEF NothingLost, AppliedInOrder
        <5>2. e.key # r.key
          <6> SUFFICES ASSUME e.key = r.key PROVE FALSE
            OBVIOUS
          <6>1. ~Older(r, e)
            BY <1>4, <1>5, <4>3
          <6>2. ~Older(e, r)
            BY <1>4, <2>2, <4>2
          <6>3. r.seen = e.seen
            BY <1>4, <1>r, <6>1, <6>2 DEF Older
          <6> QED
            BY <1>4, <1>u, <3>2, <6>3
        <5> QED
          BY <1>r, <2>2, <5>1, <5>2
      <4> QED
        BY <1>5, <4>2, <4>3
    <3> QED
      BY <3>1, <3>2
  <2> QED
    BY <1>3, <2>1, <2>2
<1>9. WorkInOrder'
  <2>1. ASSUME NEW i \in DOMAIN ws
        PROVE  /\ ws[i] \in records
               /\ \A r \in records : Older(r, ws[i]) => r.id \in applied' \/ \E j \in 1..(i - 1) : ws[j] = r
    <3>1. i + 1 \in DOMAIN cycle.work /\ ws[i] = cycle.work[i + 1] /\ i \in Nat \ {0}
      BY <1>2
    <3>2. ASSUME NEW r \in records, Older(r, ws[i]), r.id \notin applied'
          PROVE  \E j \in 1..(i - 1) : ws[j] = r
      <4>1. PICK j \in 1..i : cycle.work[j] = r
        <5>1. \E j \in 1..((i + 1) - 1) : cycle.work[j] = r
          BY <1>5, <3>1, <3>2 DEF NothingLost, WorkInOrder
        <5>2. (i + 1) - 1 = i
          BY <3>1
        <5> QED
          BY <5>1, <5>2
      <4>2. j # 1
        BY <1>2, <1>5, <3>2, <4>1
      <4>3. j - 1 \in 1..(i - 1) /\ (j - 1) + 1 = j
        BY <3>1, <4>1, <4>2
      <4>4. j - 1 \in DOMAIN ws
        <5>1. DOMAIN cycle.work = 1..Len(cycle.work) /\ Len(cycle.work) \in Nat
          BY <1>0
        <5>2. j \in DOMAIN cycle.work
          BY <3>1, <4>1, <5>1
        <5> QED
          BY <1>0, <4>2, <5>2, TailFacts DEF ws
      <4> QED
        BY <1>2, <4>1, <4>3, <4>4
    <3> QED
      BY <3>1, <3>2 DEF NothingLost, WorkInOrder
  <2> QED
    BY <1>1, <1>5, <2>1 DEF NothingLost, WorkInOrder
<1>10. AcksInOrder'
  BY <1>1, <1>2, <1>5 DEF NothingLost, AcksInOrder
<1>11. \A k \in Key : RowIsKept(k)'
  <2> SUFFICES ASSUME NEW k \in Key PROVE RowIsKept(k)'
    OBVIOUS
  <2>1. Pending(k)' = Pending(k)
    BY <1>1 DEF Pending
  <2>2. CASE Pending(k) = {}
    <3>1. e.key # k
      BY <1>4, <2>2 DEF Pending
    <3>2. target'[k] = target[k]
      BY <1>3, <1>r, <3>1
    <3> QED
      BY <1>1, <2>1, <2>2, <3>2 DEF NothingLost, RowIsKept, RowsEqual
  <2>3. CASE Pending(k) # {}
    BY <1>1, <2>1, <2>3 DEF NothingLost, RowIsKept, RowsEqual
  <2> QED
    BY <2>2, <2>3
<1> QED
  BY <1>1, <1>6, <1>7, <1>8, <1>9, <1>10, <1>11 DEF NothingLost

\* An event that waits for the next pass is overtaken by no change of its row.
LEMMA DeferKeeps ==
    ASSUME TypeOK, Stages, NothingLost, Defer, ~lost'
    PROVE  NothingLost'
<1> DEFINE e == Head(cycle.work)
           ws == Tail(cycle.work)
<1>0. /\ cycle \in Cycle /\ cycle.work \in Seq(Event) /\ cycle.work # <<>> /\ cycle.todo = <<>>
      /\ cycle.deferred \in Seq(Event)
  BY CycleTyped DEF TypeOK, Stages, Defer
<1>1. /\ cycle'.todo = cycle.todo /\ cycle'.work = ws
      /\ cycle'.deferred = Append(cycle.deferred, e) /\ cycle'.acks = cycle.acks
      /\ UNCHANGED <<records, memory, message, table_state, target, applied>>
  BY <1>0 DEF Defer, Cycle
<1>2. /\ e \in Event /\ e = cycle.work[1] /\ 1 \in DOMAIN cycle.work
      /\ \A i \in DOMAIN ws : i + 1 \in DOMAIN cycle.work /\ ws[i] = cycle.work[i + 1] /\ i \in Nat \ {0}
      /\ \A i \in DOMAIN cycle.work : i # 1 => i - 1 \in DOMAIN ws
      /\ Range(cycle.work) = {e} \cup Range(ws)
  BY <1>0, TailFacts
<1>3. \A f \in Range(ws) : f.key # e.key
  BY DEF Defer, Followed
<1>d. Range(cycle'.deferred) = Range(cycle.deferred) \cup {e}
  BY <1>0, <1>1, <1>2, AppendFacts
<1> HIDE DEF e, ws
<1>4. e \in records /\ \A r \in records : Older(r, e) => r.id \in applied
  <2>1. \A r \in records : Older(r, cycle.work[1]) => r.id \in applied \/ \E j \in 1..(1 - 1) : cycle.work[j] = r
    BY <1>2 DEF NothingLost, WorkInOrder
  <2> QED
    BY <1>2, <2>1 DEF NothingLost, WorkInOrder
<1>5. Numbered' /\ MapIsRight' /\ MemoryInOrder' /\ AppliedInOrder' /\ TodoIsNew'
  BY <1>1 DEF NothingLost, Numbered, Captured, MapIsRight, MemoryInOrder, AppliedInOrder, TodoIsNew
<1>6. WorkInOrder'
  <2>1. ASSUME NEW i \in DOMAIN ws
        PROVE  /\ ws[i] \in records
               /\ \A r \in records : Older(r, ws[i]) => r.id \in applied \/ \E j \in 1..(i - 1) : ws[j] = r
    <3>1. i + 1 \in DOMAIN cycle.work /\ ws[i] = cycle.work[i + 1] /\ i \in Nat \ {0}
      BY <1>2
    <3>2. ASSUME NEW r \in records, Older(r, ws[i]), r.id \notin applied
          PROVE  \E j \in 1..(i - 1) : ws[j] = r
      <4>1. PICK j \in 1..i : cycle.work[j] = r
        <5>1. \E j \in 1..((i + 1) - 1) : cycle.work[j] = r
          BY <3>1, <3>2 DEF NothingLost, WorkInOrder
        <5>2. (i + 1) - 1 = i
          BY <3>1
        <5> QED
          BY <5>1, <5>2
      <4>2. j # 1
        <5>1. ws[i] \in Range(ws)
          BY DEF Range
        <5> QED
          BY <1>2, <1>3, <3>2, <4>1, <5>1 DEF Older
      <4>3. j - 1 \in 1..(i - 1) /\ (j - 1) + 1 = j
        BY <3>1, <4>1, <4>2
      <4>4. j - 1 \in DOMAIN ws
        <5>1. DOMAIN cycle.work = 1..Len(cycle.work) /\ Len(cycle.work) \in Nat
          BY <1>0
        <5>2. j \in DOMAIN cycle.work
          BY <3>1, <4>1, <5>1
        <5> QED
          BY <1>2, <4>2, <5>2
      <4> QED
        BY <1>2, <4>1, <4>3, <4>4
    <3> QED
      BY <3>1, <3>2 DEF NothingLost, WorkInOrder
  <2> QED
    BY <1>1, <1>4, <1>d, <2>1 DEF NothingLost, WorkInOrder
<1>7. AcksInOrder'
  BY <1>1, <1>2, <1>d DEF NothingLost, AcksInOrder
<1>8. \A k \in Key : RowIsKept(k)'
  BY <1>1 DEF NothingLost, RowIsKept, RowsEqual, Pending
<1> QED
  BY <1>1, <1>5, <1>6, <1>7, <1>8 DEF NothingLost

\* The next pass takes up the deferred events.
LEMMA PassKeeps ==
    ASSUME TypeOK, Stages, NothingLost, NextPass, cycle' # Idle
    PROVE  NothingLost'
<1>0. cycle \in Cycle /\ cycle.work = <<>>
  BY DEF TypeOK, NextPass
<1>1. /\ cycle'.todo = cycle.todo /\ cycle'.work = cycle.deferred
      /\ cycle'.deferred = <<>> /\ cycle'.acks = cycle.acks
      /\ UNCHANGED <<records, memory, message, table_state, target, applied>>
  BY <1>0 DEF NextPass, Cycle
<1>2. Numbered' /\ MapIsRight' /\ MemoryInOrder' /\ AppliedInOrder' /\ TodoIsNew'
  BY <1>1 DEF NothingLost, Numbered, Captured, MapIsRight, MemoryInOrder, AppliedInOrder, TodoIsNew
<1>3. WorkInOrder'
  BY <1>1, NothingInEmpty DEF NothingLost, WorkInOrder, Range
<1>4. AcksInOrder'
  BY <1>0, <1>1, NothingInEmpty DEF NothingLost, AcksInOrder
<1>5. \A k \in Key : RowIsKept(k)'
  BY <1>1 DEF NothingLost, RowIsKept, RowsEqual, Pending
<1> QED
  BY <1>1, <1>2, <1>3, <1>4, <1>5 DEF NothingLost

\* The oldest record of a row goes first, and the last one when the target has
\* its value.
LEMMA AckKeeps ==
    ASSUME TypeOK, Stages, NothingLost, ack_event, ~lost'
    PROVE  NothingLost'
<1> DEFINE e == Head(cycle.acks)
           as == Tail(cycle.acks)
<1>0. /\ cycle \in Cycle /\ cycle.acks \in Seq(Event) /\ cycle.acks # <<>> /\ cycle.todo = <<>>
      /\ cycle.work = <<>> /\ cycle.deferred = <<>>
  BY CycleTyped DEF TypeOK, Stages, ack_event
<1>1. /\ cycle'.todo = <<>> /\ cycle'.work = <<>> /\ cycle'.deferred = <<>> /\ cycle'.acks = as
      /\ UNCHANGED <<memory, table_state, target, applied>>
      /\ message' = [i \in DOMAIN message \ {e.id} |-> message[i]]
  BY <1>0 DEF ack_event, Cycle
<1>2. /\ e \in Event /\ e = cycle.acks[1] /\ 1 \in DOMAIN cycle.acks /\ e \in Range(cycle.acks)
      /\ \A i \in DOMAIN as : i + 1 \in DOMAIN cycle.acks /\ as[i] = cycle.acks[i + 1] /\ i \in Nat \ {0}
      /\ \A i \in DOMAIN cycle.acks : i # 1 => i - 1 \in DOMAIN as
      /\ Range(cycle.acks) = {e} \cup Range(as)
  BY <1>0, TailFacts
<1>3. \/ records' = records \ Matched(e)
      \/ records' = records /\ \A f \in Range(as) : f.key # e.key
  BY DEF ack_event, Followed
<1> HIDE DEF e, as
<1>u. \A r, s \in records : r.id = s.id \/ r.seen = s.seen => r = s
  BY DEF NothingLost, Numbered, Captured
<1>4. e \in records /\ e.id \in applied
  BY <1>0, <1>2, NothingInEmpty DEF NothingLost, AcksInOrder
<1>5. \A r \in records : ~Older(r, e)
  <2>1. \A r \in records : Older(r, cycle.acks[1]) => \E j \in 1..(1 - 1) : cycle.acks[j] = r
    BY <1>2 DEF NothingLost, AcksInOrder
  <2> QED
    BY <1>2, <2>1
<1>6. Matched(e) = {e}
  <2>1. CASE e.id \in DOMAIN message
    <3>1. message[e.id] = e.seen
      BY <1>4, <2>1 DEF NothingLost, MapIsRight
    <3> QED
      BY <1>4, <1>u, <2>1, <3>1 DEF Matched
  <2>2. CASE e.id \notin DOMAIN message
    BY <1>4, <1>u, <2>2 DEF Matched
  <2> QED
    BY <2>1, <2>2
<1>7. \/ records' = records \ {e}
      \/ records' = records /\ \A f \in Range(as) : f.key # e.key
  BY <1>3, <1>6
<1>8. records' \subseteq records /\ \A r \in records : r # e => r \in records'
  BY <1>7
<1>r. e.seen \in Nat /\ \A r \in records : r.seen \in Nat
  BY <1>2 DEF TypeOK, Event
<1>9. Numbered' /\ MapIsRight' /\ TodoIsNew'
  BY <1>0, <1>1, <1>8, NothingInEmpty DEF NothingLost, Numbered, Captured, MapIsRight, TodoIsNew
<1>10. MemoryInOrder'
  <2>1. e \notin Range(memory)
    BY <1>2 DEF NothingLost, MemoryInOrder
  <2> QED
    BY <1>1, <1>2, <1>8, <2>1 DEF NothingLost, MemoryInOrder
<1>11. AppliedInOrder'
  <2> SUFFICES ASSUME NEW r \in records', r.id \in applied
               PROVE  /\ \A s \in records' : Older(s, r) => s.id \in applied
                      /\ (\A s \in records' : Older(r, s) => s.id \notin applied) => target[r.key] = r.val
    BY <1>1 DEF AppliedInOrder
  <2>1. r \in records
    BY <1>8
  <2>2. ~Older(r, e)
    BY <1>5, <2>1
  <2> QED
    BY <1>8, <2>1, <2>2 DEF NothingLost, AppliedInOrder
<1>12. WorkInOrder'
  BY <1>1, NothingInEmpty DEF WorkInOrder
<1>13. AcksInOrder'
  <2>1. ASSUME NEW i \in DOMAIN as
        PROVE  /\ as[i] \in records' /\ as[i].id \in applied
               /\ \A r \in records' : Older(r, as[i]) => \E j \in 1..(i - 1) : as[j] = r
    <3>1. i + 1 \in DOMAIN cycle.acks /\ as[i] = cycle.acks[i + 1] /\ i \in Nat \ {0}
      BY <1>2
    <3>n. i + 1 # 1
      BY <3>1
    <3>2. as[i] # e
      BY <1>2, <3>1, <3>n DEF NothingLost, AcksInOrder
    <3>3. as[i] \in records' /\ as[i].id \in applied
      BY <1>0, <1>8, <3>1, <3>2, NothingInEmpty DEF NothingLost, AcksInOrder
    <3>4. ASSUME NEW r \in records', Older(r, as[i]) PROVE \E j \in 1..(i - 1) : as[j] = r
      <4>1. PICK j \in 1..i : cycle.acks[j] = r
        <5>1. \E j \in 1..((i + 1) - 1) : cycle.acks[j] = r
          BY <1>8, <3>1, <3>4 DEF NothingLost, AcksInOrder
        <5>2. (i + 1) - 1 = i
          BY <3>1
        <5> QED
          BY <5>1, <5>2
      <4>2. j # 1
        <5> SUFFICES ASSUME r = e PROVE FALSE
          BY <1>2, <4>1
        <5>1. as[i] \in Range(as) /\ as[i].key = e.key
          BY <3>4 DEF Range, Older
        <5> QED
          BY <1>7, <5>1
      <4>3. j - 1 \in 1..(i - 1) /\ (j - 1) + 1 = j
        BY <3>1, <4>1, <4>2
      <4>4. j - 1 \in DOMAIN as
        <5>1. DOMAIN cycle.acks = 1..Len(cycle.acks) /\ Len(cycle.acks) \in Nat
          BY <1>0
        <5>2. j \in DOMAIN cycle.acks
          BY <3>1, <4>1, <5>1
        <5> QED
          BY <1>2, <4>2, <5>2
      <4> QED
        BY <1>2, <4>1, <4>3, <4>4
    <3> QED
      BY <3>3, <3>4
  <2>2. ASSUME NEW i \in DOMAIN as, NEW j \in DOMAIN as, as[i] = as[j] PROVE i = j
    <3>1. /\ i + 1 \in DOMAIN cycle.acks /\ as[i] = cycle.acks[i + 1]
          /\ j + 1 \in DOMAIN cycle.acks /\ as[j] = cycle.acks[j + 1]
      BY <1>2
    <3>2. i + 1 = j + 1
      BY <2>2, <3>1 DEF NothingLost, AcksInOrder
    <3>3. i \in Nat /\ j \in Nat
      BY <1>2
    <3> QED
      BY <3>2, <3>3
  <2>3. \A i, j \in DOMAIN as : as[i] = as[j] => i = j
    BY <2>2
  <2>4. \A i \in DOMAIN as :
          /\ as[i] \in records' /\ as[i].id \in applied
          /\ \A r \in records' : Older(r, as[i]) => \E j \in 1..(i - 1) : as[j] = r
    BY <2>1
  <2>5. cycle'.acks = as /\ applied' = applied
    BY <1>1
  <2> QED
    BY <2>3, <2>4, <2>5 DEF AcksInOrder
<1>14. ASSUME NEW k \in Key PROVE RowIsKept(k)'
  <2>1. Pending(k) = {r \in records : r.key = k} /\ Pending(k)' = {r \in records' : r.key = k}
    BY <1>0, <1>1, NothingInEmpty DEF Pending
  <2>2. CASE records' = records \/ e.key # k
    <3>1. Pending(k)' = Pending(k)
      BY <1>8, <2>1, <2>2
    <3> QED
      BY <1>1, <3>1 DEF NothingLost, RowIsKept, RowsEqual
  <2>3. CASE records' = records \ {e} /\ e.key = k
    <3>1. e \in Pending(k)
      BY <1>4, <2>1, <2>3
    <3>2. PICK m \in Pending(k) : (\A f \in Pending(k) : f.seen <= m.seen)
                                  /\ RowsEqual(m.val, table_state[k])
      BY <3>1 DEF NothingLost, RowIsKept
    <3>3. CASE m # e
      <4>1. m \in Pending(k)' /\ \A f \in Pending(k)' : f.seen <= m.seen
        BY <2>1, <2>3, <3>2, <3>3
      <4> QED
        BY <1>1, <3>2, <4>1 DEF RowIsKept, RowsEqual
    <3>4. CASE m = e
      <4>1. ASSUME NEW f \in Pending(k) PROVE f = e
        <5>1. f \in records /\ f.key = e.key /\ f.seen <= e.seen
          BY <2>1, <2>3, <3>2, <3>4
        <5>2. ~(f.seen < e.seen)
          BY <1>5, <5>1 DEF Older
        <5>3. f.seen = e.seen
          BY <1>r, <5>1, <5>2
        <5> QED
          BY <1>4, <1>u, <5>1, <5>3
      <4>2. Pending(k)' = {}
        BY <2>1, <2>3, <4>1
      <4>3. \A s \in records : ~Older(e, s)
        <5> SUFFICES ASSUME NEW s \in records, Older(e, s) PROVE FALSE
          OBVIOUS
        <5>1. s = e
          BY <2>1, <2>3, <4>1 DEF Older
        <5> QED
          BY <1>r, <5>1 DEF Older
      <4>4. target[k] = e.val
        BY <1>4, <2>3, <4>3 DEF NothingLost, AppliedInOrder
      <4> QED
        BY <1>1, <3>2, <3>4, <4>2, <4>4 DEF RowIsKept, RowsEqual
    <3> QED
      BY <3>3, <3>4
  <2> QED
    BY <1>7, <2>2, <2>3
<1> QED
  BY <1>1, <1>9, <1>10, <1>11, <1>12, <1>13, <1>14 DEF NothingLost

\* A recovery brings every record back to memory, in order.
LEMMA RecoverKeeps ==
    ASSUME TypeOK, Stages, NothingLost, recover_from_durability
    PROVE  NothingLost'
<1>0. cycle.acks = <<>> /\ UNCHANGED <<target, table_state, records, applied, cycle>>
  BY DEF Stages, recover_from_durability
<1>1. MapIsRight'
  <2> SUFFICES ASSUME NEW r \in records PROVE message'[r.id] = r.seen
    BY <1>0 DEF MapIsRight
  <2> DEFINE S == {s.seen : s \in {t \in records : t.id = r.id}}
  <2>1. \A t \in records : t.id = r.id => t = r
    BY DEF NothingLost, Numbered, Captured
  <2>2. {t \in records : t.id = r.id} = {r}
    BY <2>1
  <2>3. S = {r.seen}
    BY <2>2
  <2>4. message'[r.id] = CHOOSE n \in S : \A m \in S : m <= n
    BY RecoverEffect
  <2>5. r.seen \in Nat
    BY DEF TypeOK, Event
  <2> HIDE DEF S
  <2>6. (CHOOSE n \in S : \A m \in S : m <= n) \in S
    BY <2>3, <2>5
  <2> QED
    BY <2>3, <2>4, <2>6
<1>2. MemoryInOrder'
  BY <1>0, RecoverEffect, NothingInEmpty DEF MemoryInOrder
<1>3. Numbered' /\ TodoIsNew' /\ AppliedInOrder' /\ WorkInOrder' /\ AcksInOrder'
  BY <1>0 DEF NothingLost, Numbered, Captured, TodoIsNew, AppliedInOrder, WorkInOrder, AcksInOrder
<1>4. \A k \in Key : RowIsKept(k)'
  BY <1>0 DEF NothingLost, RowIsKept, RowsEqual, Pending
<1> QED
  BY <1>0, <1>1, <1>2, <1>3, <1>4 DEF NothingLost

\* As long as none of the named events happens, nothing is lost.
LEMMA NothingLostStep == IInv /\ [Next]_vars /\ ~lost' => NothingLost'
<1> SUFFICES ASSUME IInv, [Next]_vars, ~lost' PROVE NothingLost'
  OBVIOUS
<1> USE IdleTyped
<1>0. ~lost => NothingLost
  BY DEF IInv
<1>t. TypeOK /\ Stages /\ SeenBound /\ cycle \in Cycle
  BY DEF IInv, TypeOK
<1>v. ASSUME table_state' = table_state PROVE \A k \in Key : RowsEqual(table_state[k], table_state'[k])
  BY <1>v, RowsEqualFacts
<1>1. CASE Poll
  <2>1. ~lost
    BY <1>1 DEF Poll
  <2> QED
    BY <1>0, <1>1, <1>t, <2>1, PollKeeps
<1>2. CASE push
  <2>1. ~lost
    BY <1>2 DEF push
  <2> QED
    BY <1>0, <1>2, <1>t, <2>1, PushKeeps
<1>3. CASE Take
  <2>1. ~lost
    BY <1>3 DEF Take
  <2> QED
    BY <1>0, <1>3, <1>t, <2>1, TakeKeeps
<1>4. CASE apply_event
  BY <1>0, <1>4, <1>t, ApplyKeeps DEF apply_event
<1>5. CASE Defer
  BY <1>0, <1>5, <1>t, DeferKeeps DEF Defer
<1>6. CASE ack_event
  <2>1. ~lost
    BY <1>6 DEF ack_event
  <2> QED
    BY <1>0, <1>6, <1>t, <2>1, AckKeeps
<1>7. CASE recover_from_durability
  BY <1>0, <1>7, <1>t, RecoverKeeps DEF recover_from_durability
\* Everything else leaves records, target and the order of the lists alone.
<1>8. CASE NextPass
  <2>1. ~lost /\ NothingLost
    BY <1>0, <1>8 DEF NextPass
  <2>2. CASE cycle' = Idle
    <3>1. cycle.todo = <<>>
      BY <1>8, <1>t DEF NextPass, Stages
    <3>2. UNCHANGED <<target, table_state, records, memory, message, applied>>
      BY <1>8 DEF NextPass
    <3> QED
      BY <1>v, <2>1, <2>2, <3>1, <3>2, QuietKeeps
  <2> QED
    BY <1>8, <1>t, <2>1, <2>2, PassKeeps
<1>9. CASE ApplyFails \/ PollRaises
  <2>1. cycle.todo = <<>> /\ cycle' = Idle
    BY <1>9, <1>t DEF ApplyFails, PollRaises, Stages
  <2>2. UNCHANGED <<target, table_state, records, memory, message, applied, lost>>
    BY <1>9 DEF ApplyFails, PollRaises
  <2> QED
    BY <1>0, <1>v, <2>1, <2>2, QuietKeeps
<1>10. CASE AllApplied \/ PollNothing \/ EndSave
  <2>1. \/ /\ cycle' = Idle /\ cycle.todo = <<>>
        \/ /\ cycle'.todo = cycle.todo /\ cycle'.work = cycle.work
           /\ cycle'.deferred = cycle.deferred /\ cycle'.acks = cycle.acks
    <3>1. CASE AllApplied \/ PollNothing
      BY <1>t, <3>1 DEF AllApplied, PollNothing, Cycle
    <3>2. CASE EndSave
      BY <1>t, <3>2 DEF EndSave, Cycle, Stages
    <3> QED
      BY <1>10, <3>1, <3>2
  <2>2. UNCHANGED <<target, table_state, records, memory, message, applied, lost>>
    BY <1>10 DEF AllApplied, PollNothing, EndSave
  <2> QED
    BY <1>0, <1>v, <2>1, <2>2, QuietKeeps
<1>11. CASE EndBatch \/ PollPaused
  <2>1. cycle.todo = <<>> /\ cycle.work = <<>> /\ cycle.deferred = <<>> /\ cycle.acks = <<>>
    BY <1>11, <1>t DEF EndBatch, PollPaused, Stages
  <2>2. cycle'.todo = <<>> /\ cycle'.work = <<>> /\ cycle'.deferred = <<>> /\ cycle'.acks = <<>>
    BY <1>11, <1>t, <2>1 DEF EndBatch, PollPaused, AfterDrain, Cycle
  <2>3. UNCHANGED <<target, table_state, records, memory, message, applied, lost>>
    BY <1>11 DEF EndBatch, PollPaused
  <2> QED
    BY <1>0, <1>v, <2>1, <2>2, <2>3, QuietKeeps
<1>12. ASSUME NEW caller, drain_and_sync(caller) PROVE NothingLost'
  <2>1. cycle.todo = <<>> /\ cycle.work = <<>> /\ cycle.deferred = <<>> /\ cycle.acks = <<>>
    BY <1>12, <1>t DEF drain_and_sync, Stages
  <2>2. cycle'.todo = <<>> /\ cycle'.work = <<>> /\ cycle'.deferred = <<>> /\ cycle'.acks = <<>>
    BY <1>12 DEF drain_and_sync, Idle
  <2>3. UNCHANGED <<target, table_state, records, memory, message, applied, lost>>
    BY <1>12 DEF drain_and_sync
  <2> QED
    BY <1>0, <1>v, <2>1, <2>2, <2>3, QuietKeeps
<1>13. CASE (\E k \in Key, v \in Row : Write(k, v)) \/ abort_pre_cutover \/ RolledBack
            \/ set_active_adapter \/ BeginDdl \/ EndDdl \/ UNCHANGED vars
  <2>1. UNCHANGED <<target, table_state, records, message, applied, cycle, lost>> /\ memory' \in {memory, <<>>}
    BY <1>13 DEF Write, abort_pre_cutover, RolledBack, set_active_adapter, BeginDdl, EndDdl, vars
  <2> QED
    BY <1>0, <1>v, <2>1, QuietKeeps
<1>14. CASE bind_target_writer
  <2>1. cycle.work = <<>> /\ cycle.deferred = <<>> /\ cycle.acks = <<>> /\ cycle.todo = <<>>
    BY <1>14, <1>t DEF bind_target_writer, Stages
  <2>2. UNCHANGED <<target, table_state, records, memory, message, cycle, lost>> /\ applied' = {}
    BY <1>14 DEF bind_target_writer
  <2> QED
    BY <1>0, <1>v, <2>1, <2>2, QuietKeeps
<1>15. CASE Crash
  <2>1. ~lost /\ cycle.todo = <<>>
    BY <1>15 DEF Crash
  <2>2. /\ UNCHANGED <<target, table_state, records>> /\ cycle' = Idle
        /\ memory' = <<>> /\ message' = NoMessages /\ applied' = {}
    BY <1>15 DEF Crash
  <2> QED
    BY <1>0, <1>v, <2>1, <2>2, QuietKeeps
\* The view a capture starts with amounts to the one it had.
<1>16. CASE start_capture
  <2>1. ~lost /\ \A k \in Key : RowsEqual(table_state'[k], table_state[k])
    BY <1>16 DEF start_capture
  <2>2. \A k \in Key : RowsEqual(table_state[k], table_state'[k])
    BY <2>1, RowsEqualFacts
  <2>3. cycle.todo = <<>> /\ cycle.work = <<>> /\ cycle.deferred = <<>> /\ cycle.acks = <<>>
    BY <1>16, <1>t DEF start_capture, Stages
  <2>4. cycle'.todo = <<>> /\ cycle'.work = <<>> /\ cycle'.deferred = <<>> /\ cycle'.acks = <<>>
    BY <1>16, <2>3 DEF start_capture, Idle
  <2>5. UNCHANGED <<target, records, memory, message, applied>>
    BY <1>16 DEF start_capture
  <2> QED
    BY <1>0, <2>1, <2>2, <2>3, <2>4, <2>5, QuietKeeps
<1> QED
  BY <1>1, <1>2, <1>3, <1>4, <1>5, <1>6, <1>7, <1>8, <1>9, <1>10, <1>11, <1>12, <1>13, <1>14, <1>15, <1>16
  DEF Next, RunCycle, Operator

\* The inductive invariant of the stream holds always.
LEMMA StreamInvariant == Spec => []IInv
<1>1. Init => IInv
  <2> SUFFICES ASSUME Init PROVE IInv
    OBVIOUS
  <2> USE NothingInEmpty, IdleTyped DEF Init
  <2>1. TypeOK
    <3>1. IsFiniteSet({}) /\ \A i \in DOMAIN NoMessages : NoMessages[i] \in Nat
      BY FS_EmptySet DEF NoMessages
    <3>2. /\ Loaded \in [Key -> Row]
          /\ 0 \in 0..MaxWrites /\ 0 \in 0..MaxFaults /\ 0 \in 0..MaxCrashes
      BY ChangeBounds DEF Row
    <3> QED
      BY <3>1, <3>2, EmptyTyped DEF TypeOK
  <2>2. Stages /\ SeenBound
    BY DEF Stages, SeenBound, Captured
  <2>3. Numbered /\ TodoIsNew /\ MemoryInOrder /\ MapIsRight /\ AppliedInOrder
        /\ WorkInOrder /\ AcksInOrder
    BY DEF Numbered, Captured, TodoIsNew, MemoryInOrder, MapIsRight, AppliedInOrder, WorkInOrder, AcksInOrder
  <2>4. \A k \in Key : RowIsKept(k)
    BY RowsEqualFacts DEF RowIsKept, Pending
  <2> QED
    BY <2>1, <2>2, <2>3, <2>4 DEF IInv, NothingLost
<1>2. IInv /\ [Next]_vars => IInv'
  BY CycleKeepsTypes, OthersKeepTypes, StagesStep, SeenStep, NothingLostStep DEF IInv, Next
<1> QED
  BY <1>1, <1>2, PTL DEF Spec

\* Tables, records, lists and counters of the stream keep their types, through
\* crashes, recoveries and passes over deferred events.
THEOREM StreamTypeCorrect == Spec => []TypeOK
<1>1. IInv => TypeOK
  BY DEF IInv
<1> QED
  BY <1>1, StreamInvariant, PTL

\* No captured change is forgotten, for any table, any number of source changes,
\* faults and crashes, any batch sizes and any number of passes: target and
\* records together amount to what the adapter has seen, unless one of the
\* named events came first.
THEOREM NoChangeIsForgotten == Spec => []NoChangeForgotten
<1>1. IInv => NoChangeForgotten
  <2> SUFFICES ASSUME IInv, ~lost, NEW k \in Key PROVE RowsEqual(Latest(k), table_state[k])
    BY DEF NoChangeForgotten
  <2>1. RowIsKept(k) /\ Numbered
    BY DEF IInv, NothingLost
  <2>2. CASE Pending(k) = {}
    BY <2>1, <2>2 DEF RowIsKept, Latest
  <2>3. CASE Pending(k) # {}
    <3>1. PICK e \in Pending(k) : (\A f \in Pending(k) : f.seen <= e.seen)
                                  /\ RowsEqual(e.val, table_state[k])
      BY <2>1, <2>3 DEF RowIsKept
    <3> DEFINE m == CHOOSE n \in Pending(k) : \A f \in Pending(k) : f.seen <= n.seen
    <3>2. m \in Pending(k) /\ \A f \in Pending(k) : f.seen <= m.seen
      BY <3>1
    <3>3. Latest(k) = m.val
      BY <2>3 DEF Latest
    <3> HIDE DEF m
    <3>4. e \in Captured /\ m \in Captured
      BY <3>2 DEF Pending, Captured
    <3>5. e.seen \in Nat /\ m.seen \in Nat
      <4>1. cycle.todo \in Seq(Event) /\ records \subseteq Event
        BY CycleTyped DEF IInv, TypeOK
      <4>2. Range(cycle.todo) \subseteq Event
        BY <4>1, SeqDomain
      <4> QED
        BY <3>4, <4>1, <4>2 DEF Captured, Event
    <3>6. e.seen = m.seen
      BY <3>1, <3>2, <3>5
    <3> QED
      BY <2>1, <3>1, <3>3, <3>4, <3>6 DEF Numbered
  <2> QED
    BY <2>2, <2>3
<1> QED
  BY <1>1, StreamInvariant, PTL

=============================================================================
