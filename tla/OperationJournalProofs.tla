------------------------ MODULE OperationJournalProofs ------------------------
(***************************************************************************)
(* The properties of OperationJournal for any number of writers, records   *)
(* and clock ticks.                                                        *)
(***************************************************************************)
EXTENDS OperationJournal, WellFoundedInduction, TLAPS

\* A non-empty set of naturals has a least element.
LEMMA LeastExists ==
    ASSUME NEW T \in SUBSET Nat, T # {}
    PROVE  \E x \in T : \A y \in T : x <= y
<1>1. PICK x \in T : \A y \in T : ~ (<<y, x>> \in OpToRel(<, Nat))
  BY WFMin, NatLessThanWellFounded
<1>2. \A y \in T : ~ (y < x)
  BY <1>1 DEF OpToRel
<1> QED
  BY <1>2

\* A non-empty set of naturals with an upper bound has a greatest element.
LEMMA GreatestExists ==
    ASSUME NEW T \in SUBSET Nat, T # {}, NEW b \in Nat, \A y \in T : y <= b
    PROVE  \E x \in T : \A y \in T : y <= x
<1> DEFINE D == {b - y : y \in T}
<1>1. D \in SUBSET Nat
  <2>1. \A y \in T : b - y \in Nat
    OBVIOUS
  <2> QED
    BY <2>1
<1>0. D # {}
  OBVIOUS
<1>2. PICK d \in D : \A e \in D : d <= e
  <2> HIDE DEF D
  <2> QED
    BY <1>0, <1>1, LeastExists
<1>3. PICK x \in T : d = b - x
  OBVIOUS
<1>4. \A y \in T : y <= x
  <2> TAKE y \in T
  <2>1. b - y \in D
    OBVIOUS
  <2> QED
    BY <1>2, <1>3, <2>1
<1> QED
  BY <1>4

\* Sequence numbers and checksums never run ahead of the appends made.
Bounded ==
    \A s \in Seqs : 1 <= s /\ s <= appended /\ journal[s].checksum <= appended

Base == TypeOK /\ Bounded

\* The last sequence number is the greatest one.
LEMMA LastSeqIsLast ==
    ASSUME Base, Seqs # {}
    PROVE  IsLast(LastSeq)
<1>1. \E s \in Seqs : IsLast(s)
  BY GreatestExists DEF Base, TypeOK, Bounded, IsLast
<1> QED
  BY <1>1 DEF LastSeq

\* What an append adds: one record after the last, linked to it.
LEMMA AppendAdds ==
    ASSUME Base, NEW w \in Writer, append_record(w)
    PROVE  \E seq \in Nat \ {0}, rec \in Record :
             /\ seq <= appended + 1
             /\ \A s \in Seqs : s < seq
             /\ Seqs # {} => /\ seq - 1 \in Seqs
                             /\ rec.parent_hash = journal[seq - 1].checksum
             /\ Seqs = {} => seq = 1 /\ rec.parent_hash = GENESIS_HASH
             /\ rec.checksum = appended + 1
             /\ rec.created_at = drawn[w]
             /\ journal' = [s \in Seqs \cup {seq} |-> IF s = seq THEN rec ELSE journal[s]]
<1> DEFINE seq == NextSeq
           rec == [created_at |-> drawn[w],
                   parent_hash |-> get_last_parent_hash,
                   checksum |-> appended + 1]
<1>1. journal' = [s \in Seqs \cup {seq} |-> IF s = seq THEN rec ELSE journal[s]]
  BY DEF append_record
<1>2. drawn[w] \in Nat /\ appended \in Nat
  BY DEF append_record, Base, TypeOK
<1>3. CASE Seqs = {}
  <2>1. seq = 1 /\ rec \in Record /\ rec.parent_hash = GENESIS_HASH
    BY <1>2, <1>3 DEF LastSeq, get_last_parent_hash, GENESIS_HASH, Record, NextSeq
  <2>2. rec.checksum = appended + 1 /\ rec.created_at = drawn[w]
    OBVIOUS
  <2> HIDE DEF seq, rec
  <2> QED
    BY <1>1, <1>2, <1>3, <2>1, <2>2
<1>4. CASE Seqs # {}
  <2>1. IsLast(LastSeq)
    BY <1>4, LastSeqIsLast
  <2>2. LastSeq \in Seqs /\ LastSeq \in Nat /\ LastSeq <= appended /\ LastSeq >= 1
    BY <2>1 DEF IsLast, Base, TypeOK, Bounded
  <2>3. /\ get_last_parent_hash = journal[LastSeq].checksum
        /\ get_last_parent_hash \in Nat
    BY <1>4, <2>2 DEF get_last_parent_hash, Base, TypeOK, Record
  <2>4. seq = LastSeq + 1 /\ rec \in Record
    BY <1>2, <2>3 DEF NextSeq, Record
  <2>5. rec.checksum = appended + 1 /\ rec.created_at = drawn[w]
          /\ rec.parent_hash = get_last_parent_hash
    OBVIOUS
  <2>6. \A s \in Seqs : s < seq
    BY <2>1, <2>2, <2>4 DEF IsLast, Base, TypeOK
  <2>7. seq - 1 = LastSeq
    BY <2>2, <2>4
  <2>8. /\ seq \in Nat \ {0} /\ seq <= appended + 1
        /\ seq - 1 \in Seqs /\ rec.parent_hash = journal[seq - 1].checksum
    BY <1>2, <2>2, <2>3, <2>4, <2>5, <2>7
  <2> HIDE DEF seq, rec
  <2> QED
    BY <1>1, <1>4, <2>4, <2>5, <2>6, <2>8
<1> QED
  BY <1>3, <1>4

\* Compaction and purge only delete.
LEMMA KeepDeletes ==
    ASSUME NEW K \in SUBSET Seqs, Keep(K)
    PROVE  Seqs' = K /\ \A s \in K : journal'[s] = journal[s]
  BY DEF Keep, Seqs

\* A record of the journal is a boundary compaction and purge can anchor.
LEMMA AnchorTyped ==
    ASSUME Base, NEW s \in Seqs
    PROVE  AnchorAt(s) \in Anchor
  BY DEF Base, TypeOK, AnchorAt, Anchor, Record

\* A purge that leaves something anchors its lowest survivor.
LEMMA BoundaryIsLeast ==
    ASSUME Base, NEW c \in Nat, {s \in Seqs : journal[s].created_at >= c} # {}
    PROVE  /\ SurvivalBoundary(c) \in {s \in Seqs : journal[s].created_at >= c}
           /\ \A t \in {s \in Seqs : journal[s].created_at >= c} : SurvivalBoundary(c) <= t
<1> DEFINE left == {s \in Seqs : journal[s].created_at >= c}
<1>1. left \in SUBSET Nat
  BY DEF Base, TypeOK
<1>2. \E s \in left : \A t \in left : s <= t
  BY <1>1, LeastExists
<1>3. SurvivalBoundary(c) = CHOOSE s \in left : \A t \in left : s <= t
  BY DEF SurvivalBoundary
<1> HIDE DEF left
<1>4. SurvivalBoundary(c) \in left /\ \A t \in left : SurvivalBoundary(c) <= t
  BY <1>2, <1>3
<1> QED
  BY <1>4 DEF left

\* Types and bounds hold in every reachable state.
LEMMA BaseAlways == Spec => []Base
<1>1. Init => Base
  <2> SUFFICES ASSUME Init PROVE Base
    OBVIOUS
  <2>1. Seqs = {}
    BY DEF Init, Seqs
  <2>2. drawn \in [Writer -> Nat \cup {NotDrawn}]
    BY DEF Init
  <2>3. anchors \subseteq Anchor /\ clock \in Nat /\ appended \in Nat
    BY DEF Init
  <2>4. disordered \in BOOLEAN /\ emptied \in BOOLEAN /\ cut \in BOOLEAN /\ DOMAIN read = {}
    BY DEF Init
  <2> QED
    BY <2>1, <2>2, <2>3, <2>4 DEF Base, TypeOK, Bounded
<1>2. Base /\ [Next]_vars => Base'
  <2> SUFFICES ASSUME Base, [Next]_vars PROVE Base'
    OBVIOUS
  <2>1. CASE Tick
    BY <2>1 DEF Tick, Base, TypeOK, Bounded, Seqs, verifier
  <2>2. ASSUME NEW w \in Writer, DrawTimestamp(w) PROVE Base'
    BY <2>2 DEF DrawTimestamp, Base, TypeOK, Bounded, Seqs, verifier
  <2>3. ASSUME NEW w \in Writer, append_record(w) PROVE Base'
    <3> PICK seq \in Nat \ {0}, rec \in Record :
          /\ seq <= appended + 1
          /\ rec.checksum = appended + 1
          /\ journal' = [s \in Seqs \cup {seq} |-> IF s = seq THEN rec ELSE journal[s]]
      BY <2>3, AppendAdds, SMTT(30)
    <3>1. Seqs' = Seqs \cup {seq}
      BY DEF Seqs
    <3>2. \A s \in Seqs' : journal'[s] \in Record
      BY <3>1 DEF Base, TypeOK
    <3>3. \A s \in Seqs' : 1 <= s /\ s <= appended + 1 /\ journal'[s].checksum <= appended + 1
      BY <3>1 DEF Base, TypeOK, Bounded, Record
    <3>4. /\ appended' = appended + 1
          /\ drawn' = [drawn EXCEPT ![w] = NotDrawn]
          /\ disordered' \in BOOLEAN
          /\ UNCHANGED <<anchors, clock, emptied, read, cut>>
      BY <2>3 DEF append_record, verifier
    <3>5. TypeOK'
      <4>1. Seqs' \subseteq Nat
        BY <3>1 DEF Base, TypeOK
      <4>2. drawn' \in [Writer -> Nat \cup {NotDrawn}]
        BY <3>4 DEF Base, TypeOK
      <4>3. anchors' \subseteq Anchor /\ clock' \in Nat /\ appended' \in Nat /\ emptied' \in BOOLEAN
        BY <3>4 DEF Base, TypeOK
      <4>4. /\ DOMAIN read' \subseteq Nat /\ \A s \in DOMAIN read' : read'[s] \in Record
            /\ cut' \in BOOLEAN
        BY <3>4 DEF Base, TypeOK
      <4> QED
        BY <3>2, <3>4, <4>1, <4>2, <4>3, <4>4 DEF TypeOK
    <3>6. Bounded'
      BY <3>3, <3>4 DEF Bounded
    <3> QED
      BY <3>5, <3>6 DEF Base
  <2>4. ASSUME NEW b \in Seqs, compact_journal(b) PROVE Base'
    <3>1. Seqs' = Compacted(b) /\ \A s \in Compacted(b) : journal'[s] = journal[s]
      BY <2>4, KeepDeletes DEF compact_journal, Compacted
    <3> QED
      BY <2>4, <3>1, AnchorTyped DEF compact_journal, Compacted, Base, TypeOK, Bounded
  <2>5. ASSUME NEW c \in 1..clock, purge_expired_records(c) PROVE Base'
    <3> DEFINE left == {s \in Seqs : journal[s].created_at >= c}
    <3>1. Seqs' = left /\ \A s \in left : journal'[s] = journal[s]
      BY <2>5, KeepDeletes DEF purge_expired_records
    <3>2. anchors' \subseteq Anchor
      <4>1. c \in Nat /\ anchors \subseteq Anchor
        BY DEF Base, TypeOK
      <4>2. CASE left = {}
        BY <2>5, <4>1, <4>2 DEF purge_expired_records
      <4>3. CASE left # {}
        <5>1. AnchorAt(SurvivalBoundary(c)) \in Anchor
          BY <4>1, <4>3, BoundaryIsLeast, AnchorTyped
        <5>2. anchors' = anchors \cup {AnchorAt(SurvivalBoundary(c))}
          BY <2>5, <4>3 DEF purge_expired_records
        <5> QED
          BY <4>1, <5>1, <5>2
      <4> QED
        BY <4>2, <4>3
    <3>3. emptied' \in BOOLEAN /\ cut' \in BOOLEAN
          /\ UNCHANGED <<drawn, clock, appended, disordered, read>>
      BY <2>5 DEF purge_expired_records
    <3> QED
      BY <3>1, <3>2, <3>3 DEF Base, TypeOK, Bounded
  <2>6. CASE UNCHANGED vars
    BY <2>6 DEF vars, Base, TypeOK, Bounded, Seqs, verifier
  <2>7. CASE ReadRecords
    BY <2>7 DEF ReadRecords, Base, TypeOK, Bounded, Seqs
  <2> QED
    BY <2>1, <2>2, <2>3, <2>4, <2>5, <2>6, <2>7 DEF Next
<1> QED
  BY <1>1, <1>2, PTL DEF Spec

\* The rows append_record, compact_journal and purge_expired_records leave are
\* well formed, a record's parent hash included.
THEOREM JournalTypeCorrect == Spec => []TypeOK
BY BaseAlways, PTL DEF Base

\* Neighbouring records stay linked and checksums distinct, whatever the
\* order of timestamps and whatever is deleted.
THEOREM NeighboursStayLinked == Spec => []NeighboursLinked
<1>1. Init => NeighboursLinked
  BY DEF Init, NeighboursLinked, Seqs
<1>2. Base /\ NeighboursLinked /\ [Next]_vars => NeighboursLinked'
  <2> SUFFICES ASSUME Base, NeighboursLinked, [Next]_vars PROVE NeighboursLinked'
    OBVIOUS
  <2>1. CASE UNCHANGED journal
    BY <2>1 DEF NeighboursLinked, Seqs
  <2>2. ASSUME NEW w \in Writer, append_record(w) PROVE NeighboursLinked'
    <3> PICK seq \in Nat \ {0}, rec \in Record :
          /\ \A s \in Seqs : s < seq
          /\ Seqs # {} => /\ seq - 1 \in Seqs
                          /\ rec.parent_hash = journal[seq - 1].checksum
          /\ rec.checksum = appended + 1
          /\ journal' = [s \in Seqs \cup {seq} |-> IF s = seq THEN rec ELSE journal[s]]
      BY <2>2, AppendAdds
    <3>1. Seqs' = Seqs \cup {seq} /\ seq \notin Seqs
      BY DEF Seqs, Base, TypeOK
    <3>2. \A s \in Seqs : s \in Nat /\ journal[s].checksum # rec.checksum
      BY DEF Base, TypeOK, Bounded, Record
    <3>3. \A s \in Seqs' : s + 1 \in Seqs' => journal'[s + 1].parent_hash = journal'[s].checksum
      <4> SUFFICES ASSUME NEW s \in Seqs', s + 1 \in Seqs'
                   PROVE  journal'[s + 1].parent_hash = journal'[s].checksum
        OBVIOUS
      <4>1. s \in Seqs
        BY <3>1, <3>2
      <4>2. CASE s + 1 = seq
        BY <3>1, <3>2, <4>1, <4>2
      <4>3. CASE s + 1 \in Seqs
        BY <3>1, <3>2, <4>1, <4>3 DEF NeighboursLinked
      <4> QED
        BY <3>1, <4>2, <4>3
    <3>4. \A s, t \in Seqs' : journal'[s].checksum = journal'[t].checksum => s = t
      BY <3>1, <3>2 DEF NeighboursLinked
    <3> QED
      BY <3>3, <3>4 DEF NeighboursLinked
  <2>3. ASSUME NEW K \in SUBSET Seqs, Keep(K) PROVE NeighboursLinked'
    BY <2>3, KeepDeletes DEF NeighboursLinked
  <2>4. ASSUME NEW b \in Seqs, compact_journal(b) PROVE NeighboursLinked'
    BY <2>3, <2>4 DEF compact_journal, Compacted
  <2>5. ASSUME NEW c \in 1..clock, purge_expired_records(c) PROVE NeighboursLinked'
    BY <2>3, <2>5 DEF purge_expired_records
  <2> QED
    BY <2>1, <2>2, <2>4, <2>5 DEF Next, Tick, DrawTimestamp, ReadRecords, vars
<1> QED
  BY <1>1, <1>2, BaseAlways, PTL DEF Spec

-----------------------------------------------------------------------------

\* The journal is an unbroken run lo..hi, in the order of its timestamps,
\* that starts where the newest anchor, or genesis, says.
Chained(lo, hi) ==
    /\ lo <= hi
    /\ Seqs = lo..hi
    /\ \A s \in lo..hi : s > lo => journal[s].parent_hash = journal[s - 1].checksum
    /\ \A s, t \in lo..hi : s <= t => journal[s].created_at <= journal[t].created_at
    /\ \A a \in anchors :
         /\ a.boundary_sequence <= lo
         /\ a.boundary_sequence = lo => a.anchor_parent_hash = journal[lo].parent_hash
    /\ anchors # {} => \E a \in anchors : a.boundary_sequence = lo
    /\ anchors = {} => lo = 1 /\ journal[lo].parent_hash = GENESIS_HASH

\* The strengthening of ChainVerifies that every step preserves.
ChainInv ==
    ~disordered /\ ~emptied =>
        \/ Seqs = {} /\ anchors = {}
        \/ \E lo, hi \in Nat : Chained(lo, hi)

\* Until something is deleted, what a verifier has read is a beginning of the
\* journal.
ReadInv ==
    ~cut =>
        /\ DOMAIN read \subseteq Seqs
        /\ \A s \in DOMAIN read : read[s] = journal[s]
        /\ \A s \in Seqs, t \in DOMAIN read : s <= t => s \in DOMAIN read

\* Any beginning of a chained journal passes verify_chain_integrity.
LEMMA ChainedVerifies ==
    ASSUME Base, NEW lo \in Nat, NEW hi \in Nat, Chained(lo, hi),
           NEW rows, DOMAIN rows \subseteq Seqs, \A s \in DOMAIN rows : rows[s] = journal[s],
           \A s \in Seqs, t \in DOMAIN rows : s <= t => s \in DOMAIN rows
    PROVE  verify_chain_integrity(rows)
<1>1. \A s \in DOMAIN rows : s \in Nat /\ lo <= s /\ lo \in DOMAIN rows
  BY DEF Chained
<1>2. ASSUME NEW s \in DOMAIN rows, s # lo
      PROVE  s - 1 \in DOMAIN rows /\ rows[s].parent_hash = rows[s - 1].checksum
  <2>1. s - 1 \in Seqs /\ s - 1 <= s /\ s > lo /\ s \in lo..hi
    BY <1>1, <1>2 DEF Chained
  <2>2. s - 1 \in DOMAIN rows
    BY <2>1
  <2> QED
    BY <2>1, <2>2 DEF Chained
<1>3. Linked(rows)
  BY <1>1, <1>2 DEF Linked, IsFirst
<1>4. \A s \in DOMAIN rows : IsFirst(s, DOMAIN rows) => s = lo
  BY <1>1 DEF IsFirst
<1>5. IsChainStart(lo, journal[lo].parent_hash)
  BY DEF Chained, IsChainStart, Base, TypeOK, Anchor
<1> QED
  BY <1>3, <1>4, <1>5 DEF verify_chain_integrity

\* No row verifies.
LEMMA EmptyVerifies ==
    ASSUME NEW rows, DOMAIN rows = {}
    PROVE  verify_chain_integrity(rows)
  BY DEF verify_chain_integrity, Linked

\* The invariants imply the property.
LEMMA InvariantsVerify ==
    ASSUME Base, ChainInv, ReadInv
    PROVE  ChainVerifies
<1> SUFFICES ASSUME ~disordered, ~emptied
             PROVE  verify_chain_integrity(journal) /\ (~cut => verify_chain_integrity(read))
  BY DEF ChainVerifies
<1>1. CASE Seqs = {}
  BY <1>1, EmptyVerifies DEF Seqs, ReadInv
<1>2. ASSUME NEW lo \in Nat, NEW hi \in Nat, Chained(lo, hi)
      PROVE  verify_chain_integrity(journal) /\ (~cut => verify_chain_integrity(read))
  <2>1. verify_chain_integrity(journal)
    BY <1>2, ChainedVerifies DEF Seqs
  <2>2. ASSUME ~cut PROVE verify_chain_integrity(read)
    BY <1>2, <2>2, ChainedVerifies DEF ReadInv
  <2> QED
    BY <2>1, <2>2
<1> QED
  BY <1>1, <1>2 DEF ChainInv

\* Appends go behind what was read.
LEMMA ReadStep ==
    ASSUME Base, ReadInv, [Next]_vars
    PROVE  ReadInv'
<1>1. CASE cut' = TRUE
  BY <1>1 DEF ReadInv
<1>2. CASE UNCHANGED <<journal, read, cut>>
  BY <1>2 DEF ReadInv, Seqs
<1>3. CASE ReadRecords
  BY <1>3 DEF ReadRecords, ReadInv, Seqs
<1>4. ASSUME NEW w \in Writer, append_record(w) PROVE ReadInv'
  <2> SUFFICES ASSUME ~cut PROVE ReadInv'
    BY <1>4 DEF append_record, verifier, ReadInv
  <2>1. PICK seq \in Nat \ {0}, rec \in Record :
          /\ \A s \in Seqs : s < seq
          /\ journal' = [s \in Seqs \cup {seq} |-> IF s = seq THEN rec ELSE journal[s]]
    BY <1>4, AppendAdds
  <2>2. Seqs' = Seqs \cup {seq} /\ read' = read
    BY <1>4, <2>1 DEF Seqs, append_record, verifier
  <2>3. seq \notin Seqs /\ \A s \in Seqs : s \in Nat /\ ~ (seq <= s)
    BY <2>1 DEF Base, TypeOK
  <2>4. /\ DOMAIN read \subseteq Seqs /\ \A s \in DOMAIN read : read[s] = journal[s]
        /\ \A s \in Seqs, t \in DOMAIN read : s <= t => s \in DOMAIN read
    BY DEF ReadInv
  <2>5. \A s \in DOMAIN read : read[s] = journal'[s]
    BY <2>1, <2>3, <2>4
  <2>6. \A s \in Seqs', t \in DOMAIN read : s <= t => s \in DOMAIN read
    BY <2>2, <2>3, <2>4
  <2> QED
    BY <2>2, <2>4, <2>5, <2>6 DEF ReadInv
<1> QED
  BY <1>1, <1>2, <1>3, <1>4
     DEF Next, Tick, DrawTimestamp, compact_journal, purge_expired_records, vars, verifier

\* Deleting everything below k and anchoring k keeps the journal chained.
LEMMA CutKeepsChained ==
    ASSUME Base, NEW lo \in Nat, NEW hi \in Nat, Chained(lo, hi),
           NEW k \in lo..hi, Keep(k..hi), anchors' = anchors \cup {AnchorAt(k)}
    PROVE  Chained(k, hi)'
<1>1. Seqs' = k..hi /\ \A s \in k..hi : journal'[s] = journal[s]
  BY KeepDeletes DEF Chained
<1>2. /\ \A s \in k..hi : s > k => journal'[s].parent_hash = journal'[s - 1].checksum
      /\ \A s, t \in k..hi : s <= t => journal'[s].created_at <= journal'[t].created_at
  <2>1. \A s \in k..hi : s \in lo..hi
    BY DEF Chained
  <2>2. \A s \in k..hi : s > k => s > lo /\ s - 1 \in k..hi
    BY DEF Chained
  <2>3. \A s \in k..hi : s > k => journal[s].parent_hash = journal[s - 1].checksum
    BY <2>1, <2>2 DEF Chained
  <2>4. \A s, t \in k..hi : s <= t => journal[s].created_at <= journal[t].created_at
    BY <2>1 DEF Chained
  <2> QED
    BY <1>1, <2>2, <2>3, <2>4
<1>3. /\ AnchorAt(k).boundary_sequence = k
      /\ AnchorAt(k).anchor_parent_hash = journal'[k].parent_hash
  BY <1>1 DEF AnchorAt
<1>4. \A a \in anchors : a.boundary_sequence \in Nat
  BY DEF Base, TypeOK, Anchor
<1>5. \A a \in anchors' :
         /\ a.boundary_sequence <= k
         /\ a.boundary_sequence = k => a.anchor_parent_hash = journal'[k].parent_hash
  BY <1>1, <1>3, <1>4 DEF Chained
<1>6. anchors' # {} /\ \E a \in anchors' : a.boundary_sequence = k
  BY <1>3
<1> QED
  BY <1>1, <1>2, <1>5, <1>6, SMTT(30) DEF Chained

\* The chain verifies for as long as timestamps follow the append order and
\* no purge empties an anchored journal, also for a verifier that races appends
\* (store.py:94-148).
THEOREM ChainStaysVerifiable == Spec => []ChainVerifies
<1>1. Init => ChainInv /\ ReadInv
  BY DEF Init, ChainInv, ReadInv, Seqs
<1>2. Base /\ ChainInv /\ [Next]_vars => ChainInv'
  <2> SUFFICES ASSUME Base, ChainInv, [Next]_vars, ~disordered', ~emptied'
               PROVE  \/ Seqs' = {} /\ anchors' = {}
                      \/ \E lo, hi \in Nat : Chained(lo, hi)'
    BY DEF ChainInv
  <2>0. ~disordered /\ ~emptied
    <3>1. CASE UNCHANGED <<disordered, emptied>>
      BY <3>1
    <3>2. ASSUME NEW w \in Writer, append_record(w) PROVE ~disordered /\ ~emptied
      BY <3>2 DEF append_record
    <3>3. ASSUME NEW c \in 1..clock, purge_expired_records(c) PROVE ~disordered /\ ~emptied
      BY <3>3 DEF purge_expired_records
    <3> QED
      BY <3>1, <3>2, <3>3 DEF Next, Tick, DrawTimestamp, compact_journal, ReadRecords, vars
  <2>1. CASE UNCHANGED <<journal, anchors>>
    BY <2>0, <2>1 DEF ChainInv, Chained, Seqs
  <2>2. ASSUME NEW w \in Writer, append_record(w)
        PROVE  \E lo, hi \in Nat : Chained(lo, hi)'
    <3> PICK seq \in Nat \ {0}, rec \in Record :
          /\ \A s \in Seqs : s < seq
          /\ Seqs # {} => /\ seq - 1 \in Seqs
                          /\ rec.parent_hash = journal[seq - 1].checksum
          /\ Seqs = {} => seq = 1 /\ rec.parent_hash = GENESIS_HASH
          /\ rec.created_at = drawn[w]
          /\ journal' = [s \in Seqs \cup {seq} |-> IF s = seq THEN rec ELSE journal[s]]
      BY <2>2, AppendAdds, ZenonT(60)
    <3>1. Seqs' = Seqs \cup {seq} /\ anchors' = anchors
      BY <2>2 DEF Seqs, append_record
    <3>2. CASE Seqs = {}
      <4>1. anchors = {}
        BY <2>0, <3>2 DEF ChainInv, Chained
      <4>2. Chained(1, 1)'
        BY <3>1, <3>2, <4>1 DEF Chained, Record
      <4> QED
        BY <4>2
    <3>3. CASE Seqs # {}
      <4> PICK lo \in Nat, hi \in Nat : Chained(lo, hi)
        BY <2>0, <3>3 DEF ChainInv
      <4>1. seq = hi + 1 /\ seq \notin Seqs /\ lo <= hi
        BY <3>3 DEF Chained
      <4>2. Seqs' = lo..(hi + 1)
        BY <3>1, <4>1 DEF Chained
      <4>3. \A s \in lo..hi : journal'[s] = journal[s]
        BY <4>1 DEF Chained
      <4>4. journal'[hi + 1] = rec /\ rec.parent_hash = journal[hi].checksum
        BY <3>3, <4>1
      <4>5. \A s \in lo..(hi + 1) : s > lo =>
               journal'[s].parent_hash = journal'[s - 1].checksum
        <5> SUFFICES ASSUME NEW s \in lo..(hi + 1), s > lo
                     PROVE  journal'[s].parent_hash = journal'[s - 1].checksum
          OBVIOUS
        <5>1. s - 1 \in lo..hi
          BY <4>1
        <5>2. CASE s \in lo..hi
          BY <4>3, <5>1, <5>2 DEF Chained
        <5>3. CASE s = hi + 1
          <6>1. s - 1 = hi /\ journal'[hi] = journal[hi]
            BY <4>3, <5>1, <5>3
          <6> QED
            BY <4>4, <5>3, <6>1
        <5> QED
          BY <5>2, <5>3
      <4>6. \A s \in lo..hi : journal[s].created_at <= rec.created_at
        <5>1. \A s \in Seqs : ~ (drawn[w] < journal[s].created_at)
          BY <2>2 DEF append_record
        <5>2. drawn[w] \in Nat /\ \A s \in Seqs : journal[s].created_at \in Nat
          BY <2>2 DEF append_record, Base, TypeOK, Record
        <5> QED
          BY <5>1, <5>2 DEF Chained
      <4>7. \A s, t \in lo..(hi + 1) : s <= t =>
               journal'[s].created_at <= journal'[t].created_at
        <5> SUFFICES ASSUME NEW s \in lo..(hi + 1), NEW t \in lo..(hi + 1), s <= t
                     PROVE  journal'[s].created_at <= journal'[t].created_at
          OBVIOUS
        <5>1. CASE t \in lo..hi
          <6>1. s \in lo..hi
            BY <5>1
          <6>2. journal[s].created_at <= journal[t].created_at
            BY <5>1, <6>1 DEF Chained
          <6> QED
            BY <4>3, <5>1, <6>1, <6>2
        <5>2. CASE t = hi + 1 /\ s \in lo..hi
          BY <4>3, <4>4, <4>6, <5>2
        <5>3. CASE t = hi + 1 /\ s = hi + 1
          BY <4>4, <5>3 DEF Record
        <5> QED
          BY <5>1, <5>2, <5>3
      <4>8. Chained(lo, hi + 1)'
        <5>0. lo <= hi + 1 /\ lo \in lo..hi
          BY <4>1
        <5>1. journal'[lo] = journal[lo]
          BY <4>3, <5>0
        <5>2. /\ \A a \in anchors' :
                    /\ a.boundary_sequence <= lo
                    /\ a.boundary_sequence = lo
                         => a.anchor_parent_hash = journal'[lo].parent_hash
              /\ anchors' # {} => \E a \in anchors' : a.boundary_sequence = lo
              /\ anchors' = {} => lo = 1 /\ journal'[lo].parent_hash = GENESIS_HASH
          BY <3>1, <5>1 DEF Chained
        <5> QED
          BY <4>2, <4>5, <4>7, <5>0, <5>2 DEF Chained
      <4> QED
        BY <4>8
    <3> QED
      BY <3>2, <3>3
  <2>3. ASSUME NEW b \in Seqs, compact_journal(b)
        PROVE  \E lo, hi \in Nat : Chained(lo, hi)'
    <3> PICK lo \in Nat, hi \in Nat : Chained(lo, hi)
      BY <2>0 DEF ChainInv
    <3>1. b \in lo..hi /\ Compacted(b) = b..hi
      BY DEF Chained, Compacted
    <3>2. Chained(b, hi)'
      BY <2>3, <3>1, CutKeepsChained DEF compact_journal
    <3> QED
      BY <3>1, <3>2
  <2>4. ASSUME NEW c \in 1..clock, purge_expired_records(c)
        PROVE  \/ Seqs' = {} /\ anchors' = {}
               \/ \E lo, hi \in Nat : Chained(lo, hi)'
    <3> DEFINE left == {s \in Seqs : journal[s].created_at >= c}
    <3>1. CASE left = {}
      <4>1. Seqs' = {}
        BY <2>4, <3>1, KeepDeletes DEF purge_expired_records
      <4>2. anchors' = {}
        BY <2>4, <3>1 DEF purge_expired_records
      <4> QED
        BY <4>1, <4>2
    <3>2. CASE left # {}
      <4> PICK lo \in Nat, hi \in Nat : Chained(lo, hi)
        BY <2>0, <3>2 DEF ChainInv
      <4>1. c \in Nat
        BY DEF Base, TypeOK
      <4>2. PICK k \in left : k = SurvivalBoundary(c) /\ \A t \in left : k <= t
        BY <3>2, <4>1, BoundaryIsLeast
      <4>3. k \in lo..hi
        BY <4>2 DEF Chained
      <4>4. \A s \in Seqs : journal[s].created_at \in Nat
        BY DEF Base, TypeOK, Record
      <4>5. left = k..hi
        BY <4>1, <4>2, <4>3, <4>4 DEF Chained
      <4>6. Keep(k..hi) /\ anchors' = anchors \cup {AnchorAt(k)}
        BY <2>4, <3>2, <4>2, <4>5 DEF purge_expired_records
      <4> HIDE DEF left
      <4>7. Chained(k, hi)'
        BY <4>3, <4>6, CutKeepsChained
      <4> QED
        BY <4>3, <4>7
    <3> QED
      BY <3>1, <3>2
  <2> QED
    BY <2>1, <2>2, <2>3, <2>4 DEF Next, Tick, DrawTimestamp, ReadRecords, vars
<1>3. Base /\ ReadInv /\ [Next]_vars => ReadInv'
  BY ReadStep
<1> QED
  BY <1>1, <1>2, <1>3, BaseAlways, InvariantsVerify, PTL DEF Spec

=============================================================================
