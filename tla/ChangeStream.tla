----------------------------- MODULE ChangeStream -----------------------------
(***************************************************************************)
(* Change data capture (akaalEngine/cdc): the snapshot-comparing source    *)
(* adapter (capture/postgres.py), the backlog with its durable records     *)
(* (buffering/backlog.py), the apply coordinator with its index of applied *)
(* event ids (apply/coordinator.py) and the cycle fetch, apply,            *)
(* acknowledge that the streaming thread and the callers of CDCAuthority   *)
(* (api.py) run under one lock, up to cutover.                             *)
(*                                                                         *)
(* A cycle is many durable effects: the adapter's snapshot file, which is  *)
(* emptied and then written, one queue record per event, one target        *)
(* commit per event, one deletion per acknowledgement.  Each is a step,    *)
(* and the process may stop between any two; nothing streams again before  *)
(* somebody binds an adapter and a writer and starts the capture.  An      *)
(* event is a key and the value the row now has (Absent: deleted); seen    *)
(* numbers the events ever captured and tells apart two events with the    *)
(* same event_id.  The durability authority has no save_spill_frame, so    *)
(* the backlog never spills; ChangeEvent has no tx_id, so the transaction  *)
(* engine sees nothing; the adapter never advances its LSN, so all events  *)
(* share one commit_position and form one group of apply_events.           *)
(***************************************************************************)
EXTENDS Integers, Sequences, Functions, FiniteSets

CONSTANTS Key,          \* primary keys (naturals, in the order of a table scan)
          Value,        \* row contents
          Absent,       \* no row
          Normal,       \* what a row is compared by: NULL as '', stripped, 1.0 as 1
          Torn,         \* a snapshot file that cannot be read
          Loaded,       \* the table as the bulk load has left it
          Calls,        \* which of the gateway's draining calls are made
          StreamMax,    \* max_events of a streaming cycle (1000)
          DrainMax,     \* max_events of the other callers (5000)
          MaxPerFetch,  \* max_events_per_fetch (1000); the byte budget may cut more
          MaxPasses,    \* retries of events deferred for a foreign key (4)
          MaxWrites,    \* bound: changes at the source
          MaxFaults,    \* bound: failed calls
          MaxCrashes    \* bound: stops of the process

ASSUME ChangeBounds ==
    /\ Key \subseteq Nat /\ IsFiniteSet(Key) /\ Absent \notin Value
    /\ Loaded \in [Key -> Value \cup {Absent}]
    /\ DOMAIN Normal = Value /\ Torn \notin [Key -> Value \cup {Absent}]
    /\ Calls \subseteq {"sync", "complete"}
    /\ {StreamMax, DrainMax, MaxPerFetch, MaxPasses} \subseteq Nat \ {0}
    /\ {MaxWrites, MaxFaults, MaxCrashes} \subseteq Nat

VARIABLES source,       \* the source table
          target,       \* the target table
          table_state,  \* the adapter's view of the source
          saved,        \* its snapshot file
          seq,          \* _seq of the adapter: the last event id given out
          adapter,      \* active_adapter: none, bound, or started (is_active)
          records,      \* queue_records of the backlog
          open_tx,      \* the thread whose connection is left in a transaction
          memory,       \* _queue of the backlog
          message,      \* _event_msg_map: event id -> seen number of its record
          applied,      \* _applied_event_ids
          writer,       \* an apply coordinator with a target writer is bound
          cycle,        \* the cycle under way, its caller and its lists
          paused,       \* is_cdc_paused
          cutover,      \* state of the cutover coordinator; it guards nothing
          seen,         \* events captured so far
          lost,         \* history: something happened that can lose a change
          writes, faults, crashes

vars == <<source, target, table_state, saved, seq, adapter, records, open_tx,
          memory, message, applied, writer, cycle, paused, cutover, seen, lost,
          writes, faults, crashes>>

Row == Value \cup {Absent}
Event == [seen: Nat, id: Nat, key: Key, val: Row]
Caller == Calls \cup {"stream", "start"}
Thread == {"stream", "gateway"}
Idle == [pc |-> "idle", caller |-> "stream", todo |-> <<>>, work |-> <<>>,
         deferred |-> <<>>, acks |-> <<>>, pass |-> 0, full |-> FALSE]
Cycle == [pc: {"idle", "poll", "dump", "push", "apply", "ack"}, caller: Caller,
          todo: Seq(Event), work: Seq(Event), deferred: Seq(Event), acks: Seq(Event),
          pass: 0..MaxPasses, full: BOOLEAN]
NoMessages == [i \in {} |-> 0]

TypeOK ==
    /\ {source, target, table_state} \subseteq [Key -> Row]
    /\ saved \in [Key -> Row] \cup {Torn}
    /\ adapter \in {"none", "bound", "started"} /\ writer \in BOOLEAN
    /\ open_tx \in Thread \cup {"none"}
    /\ seq \in Nat /\ seen \in Nat
    /\ records \subseteq Event /\ IsFiniteSet(records)
    /\ memory \in Seq(Event)
    /\ \A i \in DOMAIN message : message[i] \in Nat
    /\ applied \subseteq Nat
    /\ cycle \in Cycle
    /\ paused \in BOOLEAN /\ lost \in BOOLEAN
    /\ cutover \in {"OPEN", "CUTOVER_COMPLETE"}
    /\ writes \in 0..MaxWrites /\ faults \in 0..MaxFaults /\ crashes \in 0..MaxCrashes

\* The bulk load is done, the adapter has taken its snapshot and the writer
\* is bound.
Init ==
    /\ source = Loaded /\ target = Loaded
    /\ table_state = Loaded /\ saved = Loaded
    /\ seq = 0 /\ adapter = "started" /\ records = {} /\ open_tx = "none"
    /\ memory = <<>> /\ message = NoMessages /\ applied = {} /\ writer = TRUE
    /\ cycle = Idle /\ paused = FALSE
    /\ cutover = "OPEN"
    /\ seen = 0 /\ lost = FALSE /\ writes = 0 /\ faults = 0 /\ crashes = 0

-----------------------------------------------------------------------------

Fault == faults < MaxFaults /\ faults' = faults + 1

\* The users of the source database.
Write(k, v) ==
    /\ writes < MaxWrites /\ source[k] # v
    /\ source' = [source EXCEPT ![k] = v]
    /\ writes' = writes + 1
    /\ UNCHANGED <<target, table_state, saved, seq, adapter, records, open_tx,
                   memory, message, applied, writer, cycle, paused, cutover, seen,
                   lost, faults, crashes>>

AtMost(n, s) == SubSeq(s, 1, IF Len(s) < n THEN Len(s) ELSE n)

MaxEvents == IF cycle.caller = "stream" THEN StreamMax ELSE DrainMax

\* What the caller does when the cycle has ended without an error: completion is
\* the last step of a cutover, readiness (a "sync" that sets the state) and every
\* other state are OPEN here.
AfterDrain ==
    /\ cycle' = Idle
    /\ CASE cycle.caller = "complete" -> cutover' = "CUTOVER_COMPLETE"
         [] cycle.caller = "sync" -> cutover' \in {cutover, "OPEN"}
         [] OTHER -> UNCHANGED cutover

\* Mutant: the thread waits for a backlog that only its own polls can fill.
MayStream_Backlog == ~paused /\ adapter # "none" /\ writer /\ memory # <<>>

\* The condition of the streaming loop.
MayStream == ~paused /\ adapter # "none" /\ writer

\* The streaming thread or another caller takes the lock.
drain_and_sync(caller) ==
    /\ cycle.pc = "idle"
    /\ caller = "stream" => MayStream
    /\ cycle' = [Idle EXCEPT !.pc = "poll", !.caller = caller]
    /\ UNCHANGED <<source, target, table_state, saved, seq, adapter, records,
                   open_tx, memory, message, applied, writer, paused, cutover,
                   seen, lost, writes, faults, crashes>>

\* The members of a finite set in some order.
Listings(S) == {s \in [1..Cardinality(S) -> S] : Range(s) = S}

\* _rows_equal: both absent, or alike once normalized.
RowsEqual(r, s) ==
    \/ r = Absent /\ s = Absent
    \/ r # Absent /\ s # Absent /\ Normal[r] = Normal[s]

Changed == {k \in Key : ~RowsEqual(source[k], table_state[k])}

\* Inserts come before updates, updates before deletes.
Kind(k) == IF table_state[k] = Absent THEN 1 ELSE IF source[k] # Absent THEN 2 ELSE 3

\* The keys a comparison of the tables reports, in the order it does.
Changes ==
    {s \in Listings(Changed) : \A i, j \in DOMAIN s : i < j =>
        Kind(s[i]) < Kind(s[j]) \/ (Kind(s[i]) = Kind(s[j]) /\ s[i] < s[j])}

\* An id is given out again, after a restart, while the event that had it is
\* still on record or in the index.
ReusesId(events) ==
    \E e \in Range(events) : e.id \in applied \/ \E r \in records : r.id = e.id

\* fetch_events of a started adapter: compare, remember, and open the snapshot
\* file, which empties it, or fail to (an error is swallowed).
Poll ==
    /\ cycle.pc = "poll" /\ ~paused /\ adapter = "started"
    /\ \E keys \in Changes :
         LET events == [i \in 1..Len(keys) |->
                          [seen |-> seen + i, id |-> seq + i,
                           key |-> keys[i], val |-> source[keys[i]]]]
             returned == AtMost(MaxEvents, events)
         IN /\ seen' = seen + Len(keys)
            /\ seq' = seq + Len(keys)
            /\ lost' = (lost \/ returned # events \/ ReusesId(events))
            /\ \/ /\ saved' = Torn /\ UNCHANGED faults
                  /\ cycle' = [cycle EXCEPT !.pc = "dump", !.todo = returned]
               \/ /\ Fault /\ UNCHANGED saved
                  /\ cycle' = [cycle EXCEPT !.pc = "push", !.todo = returned]
    /\ table_state' = source
    /\ UNCHANGED <<source, target, adapter, records, open_tx, memory, message,
                   applied, writer, paused, cutover, writes, crashes>>

\* The dump of the view into the emptied file, or an error, swallowed too.
EndSave ==
    /\ cycle.pc = "dump"
    /\ \/ saved' = table_state /\ UNCHANGED faults
       \/ Fault /\ UNCHANGED saved
    /\ cycle' = IF cycle.caller = "start" THEN Idle ELSE [cycle EXCEPT !.pc = "push"]
    /\ UNCHANGED <<source, target, table_state, seq, adapter, records, open_tx,
                   memory, message, applied, writer, paused, cutover, seen, lost,
                   writes, crashes>>

\* No adapter, but something in memory; an adapter that is not started; or a
\* source that cannot be read, by a swallowed error: nothing is captured.
PollNothing ==
    /\ cycle.pc = "poll" /\ ~paused
    /\ \/ adapter = "none" /\ memory # <<>> /\ UNCHANGED faults
       \/ adapter = "bound" /\ UNCHANGED faults
       \/ adapter = "started" /\ Fault
    /\ cycle' = [cycle EXCEPT !.pc = "push"]
    /\ UNCHANGED <<source, target, table_state, saved, seq, adapter, records,
                   open_tx, memory, message, applied, writer, paused, cutover,
                   seen, lost, writes, crashes>>

\* No adapter and nothing in memory, or no connection: the error ends the cycle.
PollRaises ==
    /\ cycle.pc = "poll" /\ ~paused
    /\ \/ adapter = "none" /\ memory = <<>> /\ UNCHANGED faults
       \/ adapter = "started" /\ Fault
    /\ cycle' = Idle
    /\ UNCHANGED <<source, target, table_state, saved, seq, adapter, records,
                   open_tx, memory, message, applied, writer, paused, cutover,
                   seen, lost, writes, crashes>>

\* fetch_events answers nothing while paused, and the cycle ends.
PollPaused ==
    /\ cycle.pc = "poll" /\ paused
    /\ AfterDrain
    /\ UNCHANGED <<source, target, table_state, saved, seq, adapter, records,
                   open_tx, memory, message, applied, writer, paused, seen, lost,
                   writes, faults, crashes>>

\* The thread a call runs on; its connection to the database is its own.
Current == IF cycle.caller = "stream" THEN "stream" ELSE "gateway"

\* push: one record, unless storing fails, and one entry in memory.  A
\* transaction left open fails every store; the failure rolls it back when it
\* is on this thread's connection (gateway calls may be other threads).
push ==
    /\ cycle.pc = "push" /\ cycle.todo # <<>>
    /\ LET e == Head(cycle.todo)
       IN /\ memory' = Append(memory, e)
          /\ \/ /\ open_tx = "none" /\ records' = records \cup {e}
                /\ message' = [i \in DOMAIN message \cup {e.id} |->
                                IF i = e.id THEN e.seen ELSE message[i]]
                /\ UNCHANGED <<open_tx, lost, faults>>
             \/ /\ lost' = TRUE /\ UNCHANGED <<records, message>>
                /\ \/ open_tx = "none" /\ Fault /\ UNCHANGED open_tx
                   \/ open_tx = Current /\ open_tx' = "none" /\ UNCHANGED faults
                   \/ /\ open_tx \in Thread /\ (open_tx = "stream" => Current # "stream")
                      /\ UNCHANGED <<open_tx, faults>>
    /\ cycle' = [cycle EXCEPT !.todo = Tail(@)]
    /\ UNCHANGED <<source, target, table_state, saved, seq, adapter, applied,
                   writer, paused, cutover, seen, writes, crashes>>

IsDelete(e) == e.val = Absent

\* One group: upserts first, then deletes, each in the order of the batch.
Ordered(batch) ==
    {[i \in DOMAIN batch |-> batch[p[i]]] : p \in
       {q \in [DOMAIN batch -> DOMAIN batch] :
          /\ Range(q) = DOMAIN batch
          /\ \A i, j \in DOMAIN batch : i < j =>
               IF IsDelete(batch[q[i]]) <=> IsDelete(batch[q[j]])
               THEN q[i] < q[j] ELSE IsDelete(batch[q[j]])}}

\* A row was deleted and inserted again: the delete is moved behind the insert.
Reorders(batch) ==
    \E i, j \in DOMAIN batch : /\ i < j /\ batch[i].key = batch[j].key
                               /\ IsDelete(batch[i]) /\ ~IsDelete(batch[j])

\* Records that no list in memory holds: only a recovery brings them back.
Stranded ==
    records \ UNION {Range(s) : s \in {memory, cycle.todo, cycle.work, cycle.deferred,
                                       cycle.acks}}

\* A later change of a row with a stranded record is going to be written.
Overtakes(batch) ==
    \E e \in Range(batch), r \in Stranded : r.key = e.key /\ r.seen < e.seen

\* The end of fetch_events: up to max_events leave the memory, and what the
\* capture budget cuts off, by number or by size, is in no list any more; nor is
\* anything when no writer is bound and apply_events raises.
Take ==
    /\ cycle.pc = "push" /\ cycle.todo = <<>>
    /\ \E n \in 1..MaxPerFetch :
         LET fetched == AtMost(MaxEvents, memory)
             batch == AtMost(n, fetched)
         IN /\ memory' = SubSeq(memory, Len(fetched) + 1, Len(memory))
            /\ \/ batch = <<>> /\ AfterDrain /\ UNCHANGED lost
               \/ batch # <<>> /\ ~writer /\ cycle' = Idle /\ UNCHANGED <<cutover, lost>>
               \/ /\ batch # <<>> /\ writer
                  /\ lost' = (lost \/ Reorders(batch) \/ Overtakes(batch))
                  /\ \E ordered \in Ordered(batch) :
                       cycle' = [cycle EXCEPT !.pc = "apply", !.work = ordered,
                                              !.acks = ordered, !.pass = 0,
                                              !.full = Len(batch) >= MaxEvents]
                  /\ UNCHANGED cutover
    /\ UNCHANGED <<source, target, table_state, saved, seq, adapter, records,
                   open_tx, message, applied, writer, paused, seen, writes,
                   faults, crashes>>

-----------------------------------------------------------------------------

\* The event's id is in the index of applied ids.
IsDuplicate(e) == e.id \in applied

\* apply_event: nothing for a duplicate, else one write and one commit.
apply_event ==
    /\ cycle.pc = "apply" /\ cycle.work # <<>>
    /\ LET e == Head(cycle.work)
       IN IF IsDuplicate(e)
          THEN UNCHANGED <<target, applied>>
          ELSE /\ target' = [target EXCEPT ![e.key] = e.val]
               /\ applied' = applied \cup {e.id}
    /\ cycle' = [cycle EXCEPT !.work = Tail(@)]
    /\ UNCHANGED <<source, table_state, saved, seq, adapter, records, open_tx,
                   memory, message, paused, cutover, seen, lost, writes, faults,
                   writer, crashes>>

Followed(e, events) == \E f \in Range(events) : f.key = e.key

\* The write fails for a foreign key: the event waits for the next pass, and
\* a later event of the same row overtakes it.  A missing parent may stay missing
\* in every pass (one failure of the bound).
Defer ==
    /\ cycle.pc = "apply" /\ cycle.work # <<>> /\ ~IsDuplicate(Head(cycle.work))
    /\ IF cycle.pass = 0 THEN Fault ELSE UNCHANGED faults
    /\ LET e == Head(cycle.work)
       IN /\ cycle' = [cycle EXCEPT !.work = Tail(@), !.deferred = Append(@, e)]
          /\ lost' = (lost \/ Followed(e, Tail(cycle.work)))
    /\ UNCHANGED <<source, target, table_state, saved, seq, adapter, records,
                   open_tx, memory, message, applied, writer, paused, cutover,
                   seen, writes, crashes>>

\* Mutant: one pass more than the limit.
PassLeft_OneMore == cycle.pass <= MaxPasses

PassLeft == cycle.pass < MaxPasses

\* The next pass over the deferred events, or the error that ends the cycle.
NextPass ==
    /\ cycle.pc = "apply" /\ cycle.work = <<>> /\ cycle.deferred # <<>>
    /\ cycle' = IF PassLeft
                THEN [cycle EXCEPT !.work = cycle.deferred, !.deferred = <<>>, !.pass = @ + 1]
                ELSE Idle
    /\ UNCHANGED <<source, target, table_state, saved, seq, adapter, records,
                   open_tx, memory, message, applied, writer, paused, cutover,
                   seen, lost, writes, faults, crashes>>

\* Any other error leaves the cycle, and with it the caller: no event of the
\* batch is acknowledged and none goes back to memory.
ApplyFails ==
    /\ cycle.pc = "apply" /\ cycle.work # <<>> /\ ~IsDuplicate(Head(cycle.work))
    /\ Fault
    /\ cycle' = Idle
    /\ UNCHANGED <<source, target, table_state, saved, seq, adapter, records,
                   open_tx, memory, message, applied, writer, paused, cutover,
                   seen, lost, writes, crashes>>

AllApplied ==
    /\ cycle.pc = "apply" /\ cycle.work = <<>> /\ cycle.deferred = <<>>
    /\ cycle' = [cycle EXCEPT !.pc = "ack"]
    /\ UNCHANGED <<source, target, table_state, saved, seq, adapter, records,
                   open_tx, memory, message, applied, writer, paused, cutover,
                   seen, lost, writes, faults, crashes>>

\* The rows the DELETE matches: the message on the map, or all with the id.
Matched(e) ==
    {r \in records : IF e.id \in DOMAIN message THEN r.seen = message[e.id] ELSE r.id = e.id}

\* ack_event: the map's entry goes, then the record, unless an error is swallowed:
\* of BEGIN, as while a transaction is open, or of a later statement, and then
\* the transaction stays open.  A record left behind while a later event of its
\* row is acknowledged would undo that one when it is recovered.
ack_event ==
    /\ cycle.pc = "ack" /\ cycle.acks # <<>>
    /\ LET e == Head(cycle.acks)
       IN /\ message' = [i \in DOMAIN message \ {e.id} |-> message[i]]
          /\ \/ /\ open_tx = "none" /\ records' = records \ Matched(e)
                /\ UNCHANGED <<open_tx, lost, faults>>
             \/ /\ UNCHANGED records
                /\ lost' = (lost \/ Followed(e, Tail(cycle.acks)))
                /\ \/ open_tx # "none" /\ UNCHANGED <<open_tx, faults>>
                   \/ open_tx = "none" /\ Fault /\ open_tx' \in {"none", Current}
    /\ cycle' = [cycle EXCEPT !.acks = Tail(@)]
    /\ UNCHANGED <<source, target, table_state, saved, seq, adapter, memory,
                   applied, writer, paused, cutover, seen, writes, crashes>>

\* A batch as large as was asked for is followed by another one.
EndBatch ==
    /\ cycle.pc = "ack" /\ cycle.acks = <<>>
    /\ IF cycle.full
       THEN cycle' = [cycle EXCEPT !.pc = "poll"] /\ UNCHANGED cutover
       ELSE AfterDrain
    /\ UNCHANGED <<source, target, table_state, saved, seq, adapter, records,
                   open_tx, memory, message, applied, writer, paused, seen, lost,
                   writes, faults, crashes>>

-----------------------------------------------------------------------------

\* Mutant: newest record first.
Recovered_NewestFirst ==
    {s \in Listings(records) : \A i, j \in DOMAIN s : i < j => s[i].seen > s[j].seen}

\* ORDER BY sequence_number ASC; records are stored in the order of capture.
Recovered ==
    {s \in Listings(records) : \A i, j \in DOMAIN s : i < j => s[i].seen < s[j].seen}

\* The newest record of an id wins the map.
recover_from_durability ==
    /\ cycle.pc = "idle"
    /\ memory' \in Recovered
    /\ message' = [i \in {r.id : r \in records} |->
                     LET S == {r.seen : r \in {s \in records : s.id = i}}
                     IN CHOOSE n \in S : \A m \in S : m <= n]
    /\ UNCHANGED <<source, target, table_state, saved, seq, adapter, records,
                   open_tx, applied, writer, cycle, paused, cutover, seen, lost,
                   writes, faults, crashes>>

abort_pre_cutover ==
    /\ cycle.pc = "idle"
    /\ memory' = <<>>
    /\ cutover' = "OPEN"
    /\ UNCHANGED <<source, target, table_state, saved, seq, adapter, records,
                   open_tx, message, applied, writer, cycle, paused, seen, lost,
                   writes, faults, crashes>>

\* Another call of the gateway fails to begin on that connection and rolls back.
RolledBack ==
    /\ open_tx = "gateway" /\ open_tx' = "none"
    /\ UNCHANGED <<source, target, table_state, saved, seq, adapter, records,
                   memory, message, applied, writer, cycle, paused, cutover, seen,
                   lost, writes, faults, crashes>>

\* The gateway gives the authority an adapter, which has no view yet;
\* table_state still is the view of the last one.
set_active_adapter ==
    /\ cycle.pc = "idle" /\ adapter = "none"
    /\ adapter' = "bound"
    /\ UNCHANGED <<source, target, table_state, saved, seq, records, open_tx,
                   memory, message, applied, writer, cycle, paused, cutover, seen,
                   lost, writes, faults, crashes>>

\* The view after a start: from the file when the adapter has none, and from the
\* live source, whatever was missed since, when the file cannot be read.
StartView ==
    IF saved = Torn THEN source
    ELSE IF adapter = "bound" \/ \A k \in Key : table_state[k] = Absent THEN saved
    ELSE table_state

\* start_capture of the adapter, alone or from initialize_stream and start_capture
\* of the authority; a view taken from the live source is saved.
start_capture ==
    /\ cycle.pc = "idle" /\ adapter # "none"
    /\ adapter' = "started"
    /\ table_state' = StartView
    /\ lost' = (lost \/ \E k \in Key : ~RowsEqual(StartView[k], table_state[k]))
    /\ cycle' = IF saved = Torn THEN [Idle EXCEPT !.pc = "dump", !.caller = "start"] ELSE cycle
    /\ \/ adapter = "bound" /\ UNCHANGED <<paused, cutover>>
       \/ paused' = FALSE /\ cutover' = "OPEN"
    /\ UNCHANGED <<source, target, saved, seq, records, open_tx, memory, message,
                   applied, writer, seen, writes, faults, crashes>>

\* A new coordinator starts with an empty index.
bind_target_writer ==
    /\ cycle.pc = "idle"
    /\ writer' = TRUE /\ applied' = {}
    /\ UNCHANGED <<source, target, table_state, saved, seq, adapter, records,
                   open_tx, memory, message, cycle, paused, cutover, seen, lost,
                   writes, faults, crashes>>

\* process_ddl_event pauses without the lock; it resumes when the schema is
\* found compatible, and for a rejected change the second step never comes.
BeginDdl ==
    /\ ~paused /\ paused' = TRUE
    /\ UNCHANGED <<source, target, table_state, saved, seq, adapter, records,
                   open_tx, memory, message, applied, writer, cycle, cutover,
                   seen, lost, writes, faults, crashes>>
EndDdl ==
    /\ paused /\ paused' = FALSE
    /\ UNCHANGED <<source, target, table_state, saved, seq, adapter, records,
                   open_tx, memory, message, applied, writer, cycle, cutover,
                   seen, lost, writes, faults, crashes>>

\* The process stops and is started again: tables, snapshot file and records
\* remain; adapter and writer are not bound.  Captured events that are not on
\* record yet are gone.
Crash ==
    /\ crashes < MaxCrashes /\ crashes' = crashes + 1
    /\ seq' = 0 /\ adapter' = "none" /\ open_tx' = "none"
    /\ memory' = <<>> /\ message' = NoMessages /\ applied' = {} /\ writer' = FALSE
    /\ cycle' = Idle /\ paused' = FALSE /\ cutover' = "OPEN"
    /\ lost' = (lost \/ cycle.todo # <<>>)
    /\ UNCHANGED <<source, target, table_state, saved, records, seen, writes, faults>>

RunCycle ==
    \/ drain_and_sync("stream")
    \/ Poll \/ EndSave \/ PollNothing \/ PollRaises \/ PollPaused \/ push \/ Take
    \/ apply_event \/ Defer \/ NextPass \/ ApplyFails \/ AllApplied
    \/ ack_event \/ EndBatch

Operator ==
    \/ \E caller \in Calls : drain_and_sync(caller)
    \/ recover_from_durability \/ abort_pre_cutover \/ RolledBack
    \/ set_active_adapter \/ start_capture \/ bind_target_writer
    \/ BeginDdl \/ EndDdl \/ Crash

Next == (\E k \in Key, v \in Row : Write(k, v)) \/ RunCycle \/ Operator

Spec == Init /\ [][Next]_vars
FairSpec == Spec /\ WF_vars(RunCycle)

-----------------------------------------------------------------------------

\* Captured changes that are still to be acknowledged.
Pending(k) == {e \in records \cup Range(cycle.todo) : e.key = k}
Latest(k) ==
    IF Pending(k) = {} THEN target[k]
    ELSE (CHOOSE e \in Pending(k) : \A f \in Pending(k) : f.seen <= e.seen).val

\* No captured change is forgotten: for every row, the target together with the
\* changes still on record amounts to what the adapter has seen of the source.
\* Crashes between any two effects, also with the snapshot file emptied, replays,
\* deferred and failed writes, failed acknowledgements with a transaction left
\* open, aborted and repeated cutovers keep it so, up to the named events that
\* set lost.
NoChangeForgotten == ~lost => \A k \in Key : RowsEqual(Latest(k), table_state[k])

\* A started, unpaused stream with a writer.
Streaming == ~paused /\ adapter = "started" /\ writer

\* The stream catches up, row by row: a row that differs is brought over, or the
\* stream is not running, or a record of this row is in the store and in no list,
\* so that only a recovery brings it back (what the capture budget cuts off, what
\* a failed cycle had taken).
StreamConverges ==
    \A k \in Key :
        ~RowsEqual(target[k], source[k])
            ~> (RowsEqual(target[k], source[k]) \/ ~Streaming \/ lost
                \/ \E r \in Stranded : r.key = k)

\* "Drains physical source stream deltas completely": when a cutover is
\* declared complete, no captured change is left on record.
CutoverCarriesAll ==
    [][cutover # "CUTOVER_COMPLETE" /\ cutover' = "CUTOVER_COMPLETE" => records' = {}]_vars
=============================================================================
