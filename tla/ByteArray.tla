----------------------------- MODULE ByteArray -----------------------------
(***************************************************************************)
(* ByteArray (bytearray.cc): a list of nodes of m_baseSize bytes with one  *)
(* cursor, which is kept twice, as m_position and as the node m_curr.      *)
(* write(), read(), setPosition() and clear(); one step is one turn of     *)
(* their loops.                                                            *)
(*                                                                         *)
(* A node is named by the number of bytes before it, so the next node is   *)
(* m_curr + m_baseSize, and m_capacity, where no node is, stands for       *)
(* nullptr.  Bytes are treated alike by the code, so one byte is followed: *)
(* wrote is the position the callers gave it, stored its place in the      *)
(* nodes.                                                                  *)
(***************************************************************************)
EXTENDS Integers

CONSTANTS
    m_baseSize,
    MaxLength,      \* bound on the size of a write
    MaxPosition     \* bound on m_position

ASSUME BaseSizeAssumption == m_baseSize \in Nat \ {0}
ASSUME LengthAssumption == MaxLength \in Nat /\ MaxPosition \in Nat

VARIABLES
    m_position, m_size, m_capacity, m_curr,
    wrote, stored,  \* None: the byte is not written yet, or overwritten
    op              \* the operation under way, or the last one

bvars == <<m_position, m_size, m_capacity, m_curr, wrote, stored, op>>

None == -1

NoOp == [at |-> "idle", size |-> 0, npos |-> 0, ncap |-> 0, bpos |-> 0,
         hit |-> None, from |-> 0, length |-> 0]

ByteInit ==
    /\ m_position = 0 /\ m_size = 0 /\ m_capacity = m_baseSize /\ m_curr = 0
    /\ wrote = None /\ stored = None /\ op = NoOp

Ready == op.at \in {"idle", "got"}

\* The locals npos, ncap, bpos at the head of read() and write().  hit is the
\* place of the followed byte in the caller's buffer.
Begin(kind, size, hit) ==
    op' = [at |-> kind, size |-> size, bpos |-> 0, hit |-> hit,
           npos |-> m_position % m_baseSize, ncap |-> m_baseSize - (m_position % m_baseSize),
           from |-> m_position, length |-> size]

-----------------------------------------------------------------------------

\* ceil(1.0 * size / m_baseSize) nodes.
Nodes(size) == (size + m_baseSize - 1) \div m_baseSize

\* Mutant: m_curr stays nullptr when the last node was full.
AddCapacityNull(size) ==
    /\ m_capacity' = IF m_capacity - m_position >= size THEN m_capacity
                     ELSE m_capacity + m_baseSize * Nodes(size - (m_capacity - m_position))
    /\ m_curr' = IF m_curr = m_capacity THEN m_capacity' ELSE m_curr

\* addCapacity(size): when no byte is left m_curr is the first new node, which
\* follows the old ones.
AddCapacity(size) ==
    LET old_cap == m_capacity - m_position
        more == old_cap < size
    IN  /\ m_capacity' = IF more THEN m_capacity + m_baseSize * Nodes(size - old_cap) ELSE m_capacity
        /\ m_curr' = IF more /\ old_cap = 0 THEN m_capacity ELSE m_curr

\* write(buf, size), up to the loop.  The followed byte may be one of buf, or
\* be overwritten by it.
ByteWrite(size, hit) ==
    /\ Ready
    /\ hit # None => wrote = None
    /\ AddCapacity(size)
    /\ wrote' = IF hit # None THEN m_position + hit
                ELSE IF m_position <= wrote /\ wrote < m_position + size THEN None ELSE wrote
    /\ IF m_curr' = m_capacity' THEN op' = [NoOp EXCEPT !.at = "null", !.length = size]
                                ELSE Begin("write", size, hit)
    /\ UNCHANGED <<m_position, m_size, stored>>

\* The bytes a turn of the loop copies, the node after it.
Chunk == IF op.ncap >= op.size THEN op.size ELSE op.ncap
Advance ==
    /\ m_position' = m_position + Chunk
    /\ m_curr' = IF op.ncap < op.size \/ op.npos + op.size = m_baseSize
                 THEN m_curr + m_baseSize ELSE m_curr

\* The locals after a turn; after the last one npos and ncap are of no use.
Turn(hit) ==
    [op EXCEPT !.size = @ - Chunk, !.bpos = @ + Chunk, !.npos = 0, !.ncap = m_baseSize, !.hit = hit]

CopyIn ==
    LET to == m_curr + op.npos
    IN  /\ op.at = "write" /\ op.size > 0
        /\ stored' = IF op.bpos <= op.hit /\ op.hit < op.bpos + Chunk THEN to + (op.hit - op.bpos)
                     ELSE IF to <= stored /\ stored < to + Chunk THEN None ELSE stored
        /\ Advance
        /\ op' = Turn(op.hit)
        /\ UNCHANGED <<m_size, m_capacity, wrote>>

\* if(m_position > m_size) m_size = m_position
Written ==
    /\ op.at = "write" /\ op.size = 0
    /\ m_size' = IF m_position > m_size THEN m_position ELSE m_size
    /\ op' = NoOp
    /\ UNCHANGED <<m_position, m_capacity, m_curr, wrote, stored>>

\* read(buf, size), up to the loop; it throws when size > getReadSize().
\* m_curr->size is read whatever the size.
ByteRead(size) ==
    /\ Ready
    /\ size <= m_size - m_position
    /\ IF m_curr = m_capacity THEN op' = [NoOp EXCEPT !.at = "null", !.length = size]
                              ELSE Begin("read", size, None)
    /\ UNCHANGED <<m_position, m_size, m_capacity, m_curr, wrote, stored>>

CopyOut ==
    LET from == m_curr + op.npos
    IN  /\ op.at = "read" /\ op.size > 0
        /\ Advance
        /\ op' = Turn(IF from <= stored /\ stored < from + Chunk THEN op.bpos + (stored - from)
                                                                 ELSE op.hit)
        /\ UNCHANGED <<m_size, m_capacity, wrote, stored>>

HaveRead ==
    /\ op.at = "read" /\ op.size = 0
    /\ op' = [op EXCEPT !.at = "got"]
    /\ UNCHANGED <<m_position, m_size, m_capacity, m_curr, wrote, stored>>

-----------------------------------------------------------------------------

\* setPosition(v), up to the loop; it throws when v > m_capacity.
SetPosition(v) ==
    /\ Ready
    /\ v <= m_capacity
    /\ m_position' = v
    /\ m_size' = IF v > m_size THEN v ELSE m_size
    /\ m_curr' = 0
    /\ op' = [NoOp EXCEPT !.at = "seek", !.size = v]
    /\ UNCHANGED <<m_capacity, wrote, stored>>

\* while(v > m_curr->size)
Seek ==
    /\ op.at = "seek" /\ op.size > m_baseSize
    /\ op' = [op EXCEPT !.size = @ - m_baseSize]
    /\ m_curr' = m_curr + m_baseSize
    /\ UNCHANGED <<m_position, m_size, m_capacity, wrote, stored>>

\* Mutant: a full node is kept.
SoughtFull ==
    /\ op.at = "seek" /\ op.size <= m_baseSize
    /\ op' = NoOp
    /\ UNCHANGED <<m_position, m_size, m_capacity, m_curr, wrote, stored>>

\* if(v == m_curr->size)
Sought ==
    /\ op.at = "seek" /\ op.size <= m_baseSize
    /\ m_curr' = IF op.size = m_baseSize THEN m_curr + m_baseSize ELSE m_curr
    /\ op' = NoOp
    /\ UNCHANGED <<m_position, m_size, m_capacity, wrote, stored>>

\* clear(): the root stays.
Clear ==
    /\ Ready
    /\ m_position' = 0 /\ m_size' = 0 /\ m_capacity' = m_baseSize /\ m_curr' = 0
    /\ wrote' = None /\ stored' = None /\ op' = NoOp

ByteNext ==
    \/ \E size \in 1..MaxLength : /\ m_position + size <= MaxPosition
                                  /\ \E hit \in {None} \cup 0..(size - 1) : ByteWrite(size, hit)
    \/ CopyIn \/ Written
    \/ \E size \in 0..MaxPosition : ByteRead(size)
    \/ CopyOut \/ HaveRead
    \/ \E v \in 0..MaxPosition : SetPosition(v)
    \/ Seek \/ Sought \/ Clear

ByteSpec == ByteInit /\ [][ByteNext]_bvars

-----------------------------------------------------------------------------
(* Properties.                                                             *)

\* read() returns at each position the byte that was last written there: the
\* node m_curr and the offset npos are those of m_position whatever writes,
\* reads and setPosition() calls came before, at node boundaries too.
ReadsBack ==
    op.at = "got" =>
        op.hit = IF op.from <= wrote /\ wrote < op.from + op.length THEN wrote - op.from ELSE None

\* m_curr is dereferenced as nullptr in one case: read() of no bytes where the
\* last node is full (the empty string at the end of such an array).  The loops
\* step to the next node and read its size only where there is one.
NullOnlyAtEnd ==
    /\ op.at = "null" => op.length = 0 /\ m_position = m_capacity
    /\ op.at \in {"read", "write"} /\ op.size > 0 => m_curr < m_capacity
    /\ op.at = "seek" => m_curr < m_capacity
=============================================================================
