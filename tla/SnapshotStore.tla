--------------------------- MODULE SnapshotStore ---------------------------
(***************************************************************************)
(* The universe store and its readers: one writer updates ticks in a       *)
(* Seqlock section, any number of signal engines copy the arrays and retry *)
(* when the sequence number has changed meanwhile.                         *)
(*                                                                         *)
(* Writer and readers access the arrays without synchronization.  The      *)
(* program is built for x86 (AVX2): there the two fetch_adds are locked    *)
(* instructions, stores become visible in order, loads are done in order   *)
(* and a float is stored and loaded whole.  What is left to chance is the  *)
(* order in which the compiler has the stores of a section and the loads   *)
(* of a copy done, so the model lets both happen in any order.             *)
(***************************************************************************)
EXTENDS Integers

CONSTANTS Capacity,  \* the number of assets of the store
          AssetIds,  \* the asset ids the writer's updates carry
          Values,    \* prices and volumes
          Zero,      \* the value of an element of a resized vector
          Readers,   \* the signal engines, each in a thread of its own
          MaxSeq     \* bound on the sequence number

ASSUME StoreAssumption == /\ Capacity \in Nat
                          /\ AssetIds \subseteq Nat
                          /\ Zero \in Values
                          /\ MaxSeq \in Nat

\* The elements of prices_ and volumes_.  bids_ and asks_ are written in the
\* same way and read by nobody.
Cells == {"price", "volume"} \X (0 .. Capacity - 1)

VARIABLES
  seq_,       \* the sequence number of the Seqlock
  cells,      \* the arrays, as memory holds them
  locked,     \* the writer is between write_lock and write_unlock
  stores,     \* stores of the section not done yet: cell and value
  rpc,        \* where each reader is: idle, begin (in read_begin), copy
  rseq,       \* what read_begin returned to it
  todo,       \* the cells it has still to copy
  copy,       \* its snapshot_prices_ and snapshot_volumes_
  result,     \* the snapshot it computes from, once read_retry was false
  published   \* history: the arrays at the last write_unlock

writerVars == <<seq_, cells, locked, stores, published>>
readerVars == <<rpc, rseq, todo, copy, result>>
vars == <<writerVars, readerVars>>

-----------------------------------------------------------------------------
\* Slips: mutated forms of the definitions below, used to show that a
\* property notices them.

NeverOdd(s) == FALSE
Unchanged(r) == seq_ = rseq[r]
StaleAccepted(r) == FALSE
NoLimit(id) == TRUE
-----------------------------------------------------------------------------
Odd(s) == s % 2 = 1
Entered(s) == s + 1
Left(s) == s + 1
Changed(r) == seq_ # rseq[r]
InRange(id) == id < Capacity

\* The stores of update_tick.
Assignments(u) == {<<<<"price", u.asset_id>>, u.price>>,
                   <<<<"volume", u.asset_id>>, u.volume>>}

Updates == [asset_id : AssetIds, price : Values, volume : Values]
Blank == [c \in Cells |-> Zero]

Init == /\ seq_ = 0
        /\ cells = Blank
        /\ locked = FALSE
        /\ stores = {}
        /\ published = Blank
        /\ rpc = [r \in Readers |-> "idle"]
        /\ rseq = [r \in Readers |-> 0]
        /\ todo = [r \in Readers |-> {}]
        /\ copy = [r \in Readers |-> Blank]
        /\ result = [r \in Readers |-> Blank]

-----------------------------------------------------------------------------
\* The writer.

WriteLock == /\ ~locked
             /\ seq_ + 2 <= MaxSeq
             /\ seq_' = Entered(seq_)
             /\ locked' = TRUE
             /\ UNCHANGED <<cells, stores, published, readerVars>>

\* A section may update several assets (as snapshot_test.cpp does) or one.
\* Two stores to one cell are done in program order.
UpdateTick(u) == /\ locked
                 /\ InRange(u.asset_id)
                 /\ \A c \in Cells, v \in Values :
                      <<c, v>> \in stores => c[2] # u.asset_id
                 /\ stores' = stores \cup Assignments(u)
                 /\ UNCHANGED <<seq_, cells, locked, published, readerVars>>

UpdateIgnored(u) == /\ locked
                    /\ ~InRange(u.asset_id)
                    /\ UNCHANGED vars

StoreCell(c, v) == /\ <<c, v>> \in stores
                   /\ cells' = [cells EXCEPT ![c] = v]
                   /\ stores' = stores \ {<<c, v>>}
                   /\ UNCHANGED <<seq_, locked, published, readerVars>>

WriteUnlock == /\ locked
               /\ stores = {}
               /\ seq_' = Left(seq_)
               /\ locked' = FALSE
               /\ published' = cells
               /\ UNCHANGED <<cells, stores, readerVars>>

-----------------------------------------------------------------------------
\* A reader.

Call(r) == /\ rpc[r] = "idle"
           /\ rpc' = [rpc EXCEPT ![r] = "begin"]
           /\ UNCHANGED <<writerVars, rseq, todo, copy, result>>

\* read_begin spins while the number is odd.
ReadBegin(r) == /\ rpc[r] = "begin"
                /\ ~Odd(seq_)
                /\ rseq' = [rseq EXCEPT ![r] = seq_]
                /\ todo' = [todo EXCEPT ![r] = Cells]
                /\ rpc' = [rpc EXCEPT ![r] = "copy"]
                /\ UNCHANGED <<writerVars, copy, result>>

CopyCell(r, c) == /\ rpc[r] = "copy"
                  /\ c \in todo[r]
                  /\ copy' = [copy EXCEPT ![r][c] = cells[c]]
                  /\ todo' = [todo EXCEPT ![r] = @ \ {c}]
                  /\ UNCHANGED <<writerVars, rpc, rseq, result>>

ReadRetry(r) == /\ rpc[r] = "copy"
                /\ todo[r] = {}
                /\ Changed(r)
                /\ rpc' = [rpc EXCEPT ![r] = "begin"]
                /\ UNCHANGED <<writerVars, rseq, todo, copy, result>>

Return(r) == /\ rpc[r] = "copy"
             /\ todo[r] = {}
             /\ ~Changed(r)
             /\ rpc' = [rpc EXCEPT ![r] = "idle"]
             /\ result' = [result EXCEPT ![r] = copy[r]]
             /\ UNCHANGED <<writerVars, rseq, todo, copy>>

Write == \/ WriteLock
         \/ \E u \in Updates : UpdateTick(u) \/ UpdateIgnored(u)
         \/ \E c \in Cells, v \in Values : StoreCell(c, v)
         \/ WriteUnlock

Read(r) == \/ ReadBegin(r)
           \/ \E c \in Cells : CopyCell(r, c)
           \/ ReadRetry(r)
           \/ Return(r)

Next == Write \/ \E r \in Readers : Call(r) \/ Read(r)

Spec == Init /\ [][Next]_vars

\* Each thread is scheduled, and a section has finitely many ticks, so that
\* it does not put off its write_unlock forever.  Nothing obliges the writer
\* to start a section or the reader to ask for a snapshot.
Fairness == /\ WF_vars(\E c \in Cells, v \in Values : StoreCell(c, v))
            /\ SF_vars(WriteUnlock)
            /\ \A r \in Readers : WF_vars(Read(r))

FairSpec == Spec /\ Fairness
-----------------------------------------------------------------------------
\* Every variable has its type.
TypeOK == /\ seq_ \in Nat
          /\ cells \in [Cells -> Values]
          /\ locked \in BOOLEAN
          /\ stores \subseteq Cells \X Values
          /\ published \in [Cells -> Values]
          /\ rpc \in [Readers -> {"idle", "begin", "copy"}]
          /\ rseq \in [Readers -> Nat]
          /\ todo \in [Readers -> SUBSET Cells]
          /\ copy \in [Readers -> [Cells -> Values]]
          /\ result \in [Readers -> [Cells -> Values]]

\* A reader about to leave the retry loop of snapshot() holds the arrays as
\* the last write_unlock left them, and no section is open: nothing of a
\* section that overlapped the copy is in it.
NoTornRead == \A r \in Readers :
                 rpc[r] = "copy" /\ todo[r] = {} /\ ~Changed(r)
                   => ~locked /\ copy[r] = published

\* Sections and snapshots are atomic: a section takes effect at its
\* write_unlock, a snapshot at the load of read_retry that ends it.
Atomic == INSTANCE AtomicStore

ImplementsAtomicStore == Atomic!Spec

\* A reader is kept from its snapshot only by new sections: as the writer
\* can start at most MaxSeq / 2 of them here, each call returns.
SnapshotsReturn == \A r \in Readers : rpc[r] = "begin" ~> rpc[r] = "idle"
=============================================================================
