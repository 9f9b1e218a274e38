--------------------------- MODULE OperationJournal ---------------------------
(***************************************************************************)
(* The hash-chained operation journal of the Durability authority          *)
(* (OperationJournalStore, durability/journal/store.py) with its           *)
(* compaction and retention purge (JournalCompactionEngine,                *)
(* durability/journal/compaction.py).                                      *)
(*                                                                         *)
(* append_record reads the clock before it takes the backend's mutex, so   *)
(* two writers can append in the opposite order of their timestamps; all   *)
(* else it does is one transaction.  Compaction and purge are one          *)
(* transaction each.  Verification takes no mutex and reads the records    *)
(* and the anchors in two statements.  SHA-256 is taken to be injective:   *)
(* the checksum of a record is a fresh number, and GENESIS_HASH is 0.      *)
(* Signatures of anchors always verify, since nobody but the engine writes *)
(* the table.                                                              *)
(***************************************************************************)
EXTENDS Integers

CONSTANTS Writer,       \* threads that append
          MaxAppends,   \* bound: records ever appended
          MaxClock,     \* bound: the clock
          NotDrawn      \* a writer that has not read the clock

ASSUME BoundsAssumption == MaxAppends \in Nat /\ MaxClock \in Nat
ASSUME NotDrawnAssumption == NotDrawn \notin Nat

VARIABLES journal,      \* sequence_number -> record of journal_records
          anchors,      \* rows of journal_anchors
          drawn,        \* the created_at a writer holds
          clock,        \* the wall clock
          appended,     \* records ever appended: the last checksum given out
          disordered,   \* history: some append was stamped before its parent
          emptied,      \* history: a purge left nothing behind its anchors
          read,         \* the rows a verifier has read; its next read is anchors
          cut           \* history: a deletion committed after that read

verifier == <<read, cut>>
vars == <<journal, anchors, drawn, clock, appended, disordered, emptied, verifier>>

GENESIS_HASH == 0
Record == [created_at: Nat, parent_hash: Nat, checksum: Nat]
Anchor == [boundary_sequence: Nat, anchor_parent_hash: Nat]
Seqs == DOMAIN journal

TypeOK ==
    /\ Seqs \subseteq Nat
    /\ \A s \in Seqs : journal[s] \in Record
    /\ anchors \subseteq Anchor
    /\ drawn \in [Writer -> Nat \cup {NotDrawn}]
    /\ clock \in Nat
    /\ appended \in Nat
    /\ disordered \in BOOLEAN
    /\ emptied \in BOOLEAN
    /\ DOMAIN read \subseteq Nat
    /\ \A s \in DOMAIN read : read[s] \in Record
    /\ cut \in BOOLEAN

Init ==
    /\ journal = [s \in {} |-> 0]
    /\ anchors = {}
    /\ drawn = [w \in Writer |-> NotDrawn]
    /\ clock = 1
    /\ appended = 0
    /\ disordered = FALSE
    /\ emptied = FALSE
    /\ read = journal
    /\ cut = FALSE

-----------------------------------------------------------------------------

IsFirst(s, seqs) == s \in seqs /\ \A t \in seqs : s <= t
IsLast(s) == s \in Seqs /\ \A t \in Seqs : t <= s

\* MAX(sequence_number), 0 when the table is empty.
LastSeq == IF Seqs = {} THEN 0 ELSE CHOOSE s \in Seqs : IsLast(s)

\* Mutant: the oldest record instead of the last.
get_last_parent_hash_Oldest ==
    IF Seqs = {} THEN GENESIS_HASH ELSE journal[CHOOSE s \in Seqs : IsFirst(s, Seqs)].checksum

\* checksum of the last record, GENESIS_HASH when the table is empty.
get_last_parent_hash == IF Seqs = {} THEN GENESIS_HASH ELSE journal[LastSeq].checksum

Tick ==
    /\ clock < MaxClock
    /\ clock' = clock + 1
    /\ UNCHANGED <<journal, anchors, drawn, appended, disordered, emptied, verifier>>

\* created_at = now(), outside the mutex.
DrawTimestamp(w) ==
    /\ drawn[w] = NotDrawn
    /\ appended < MaxAppends
    /\ drawn' = [drawn EXCEPT ![w] = clock]
    /\ UNCHANGED <<journal, anchors, clock, appended, disordered, emptied, verifier>>

\* The sequence number given to the next record.
NextSeq == LastSeq + 1

append_record(w) ==
    /\ drawn[w] # NotDrawn
    /\ appended < MaxAppends
    /\ LET seq == NextSeq
           rec == [created_at |-> drawn[w],
                   parent_hash |-> get_last_parent_hash,
                   checksum |-> appended + 1]
       IN /\ journal' = [s \in Seqs \cup {seq} |-> IF s = seq THEN rec ELSE journal[s]]
          /\ disordered' = (disordered \/ \E s \in Seqs : drawn[w] < journal[s].created_at)
    /\ appended' = appended + 1
    /\ drawn' = [drawn EXCEPT ![w] = NotDrawn]
    /\ UNCHANGED <<anchors, clock, emptied, verifier>>

\* The anchor that lets the chain start at record s.
AnchorAt(s) == [boundary_sequence |-> s, anchor_parent_hash |-> journal[s].parent_hash]

Keep(seqs) == journal' = [s \in seqs |-> journal[s]]

\* Mutant: the record at the boundary goes too.
Compacted_DropsBoundary(b) == {s \in Seqs : s > b}

\* The records compaction to boundary b leaves.
Compacted(b) == {s \in Seqs : s >= b}

\* Does nothing unless the boundary record exists.
compact_journal(b) ==
    /\ b \in Seqs
    /\ anchors' = anchors \cup {AnchorAt(b)}
    /\ Keep(Compacted(b))
    /\ cut' = TRUE
    /\ UNCHANGED <<drawn, clock, appended, disordered, emptied, read>>

\* MIN(sequence_number) of the records a purge leaves.
SurvivalBoundary(cutoff) ==
    LET left == {s \in Seqs : journal[s].created_at >= cutoff}
    IN CHOOSE s \in left : \A t \in left : s <= t

\* Deletes by age; anchors the lowest surviving record, if there is one.
purge_expired_records(cutoff) ==
    LET left == {s \in Seqs : journal[s].created_at >= cutoff}
    IN /\ anchors' = IF left = {} THEN anchors
                     ELSE anchors \cup {AnchorAt(SurvivalBoundary(cutoff))}
       /\ Keep(left)
       /\ emptied' = (emptied \/ (left = {} /\ anchors # {}))
       /\ cut' = TRUE
       /\ UNCHANGED <<drawn, clock, appended, disordered, read>>

\* The verifier's first SELECT; the anchors are read at any later time.
ReadRecords ==
    /\ read' = journal
    /\ cut' = FALSE
    /\ UNCHANGED <<journal, anchors, drawn, clock, appended, disordered, emptied>>

Next ==
    \/ Tick
    \/ \E w \in Writer : DrawTimestamp(w) \/ append_record(w)
    \/ \E b \in Seqs : compact_journal(b)
    \/ \E cutoff \in 1..clock : purge_expired_records(cutoff)
    \/ ReadRecords

Spec == Init /\ [][Next]_vars

-----------------------------------------------------------------------------
\* What verify_chain_integrity decides.

\* The start get_chain_start_parent_hash expects: the anchor with the highest
\* boundary, genesis when there is none.
IsChainStart(seq, parent) ==
    IF anchors = {} THEN seq = 1 /\ parent = GENESIS_HASH
    ELSE \A a \in anchors :
           (\A b \in anchors : b.boundary_sequence <= a.boundary_sequence)
             => seq = a.boundary_sequence /\ parent = a.anchor_parent_hash

\* Every row after the first follows the one before it.
Linked(rows) ==
    \A s \in DOMAIN rows : IsFirst(s, DOMAIN rows) \/
        (s - 1 \in DOMAIN rows /\ rows[s].parent_hash = rows[s - 1].checksum)

\* The answer for the rows read, with the anchors as they are when they are
\* read. No row verifies.
verify_chain_integrity(rows) ==
    /\ Linked(rows)
    /\ \A s \in DOMAIN rows :
          IsFirst(s, DOMAIN rows) => IsChainStart(s, rows[s].parent_hash)

-----------------------------------------------------------------------------
\* Properties.

\* The chain verifies after any interleaving of appends, compactions and
\* purges, as long as records were stamped in the order they were appended
\* and no purge emptied a journal that had been anchored. A verification that
\* races appends succeeds as well; one whose two reads have a compaction or a
\* purge between them may fail (store.py:94-148 holds no mutex).
ChainVerifies ==
    ~disordered /\ ~emptied =>
        /\ verify_chain_integrity(journal)
        /\ ~cut => verify_chain_integrity(read)

\* Whatever was deleted, two neighbours in the journal are still linked by
\* hash and no checksum occurs twice, even after timestamps out of order and
\* a journal restarted at 1.
NeighboursLinked ==
    /\ \A s \in Seqs : s + 1 \in Seqs => journal[s + 1].parent_hash = journal[s].checksum
    /\ \A s, t \in Seqs : journal[s].checksum = journal[t].checksum => s = t

=============================================================================
