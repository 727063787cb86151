--------------------------- MODULE ComponentProofs ---------------------------
(***************************************************************************)
(* Proofs about five components that share no state: the ByteArray, the    *)
(* FdManager, a ConfigVar, the body of an HTTP message and the blocking    *)
(* calls of the hook, each for all values of its constants.                *)
(***************************************************************************)
EXTENDS ByteArray, FdManager, ConfigVar, HttpBody, Hook, TLAPS

USE SMTT(60), ZenonT(60), SMTT(90), SMTT(120)

-----------------------------------------------------------------------------
(* ByteArray: read() returns what was written, and no loop runs off the    *)
(* list of nodes.  The invariant says that m_curr is the node of           *)
(* m_position whenever setPosition() is not looking for it, and how far    *)
(* the followed byte has got.                                              *)

ByteTypeOK ==
    /\ m_position \in Nat /\ m_size \in Nat /\ m_capacity \in Nat /\ m_curr \in Nat
    /\ wrote \in Nat \cup {None} /\ stored \in Nat \cup {None}
    /\ op \in [at : {"idle", "got", "read", "write", "seek", "null"},
               size : Nat, npos : Nat, ncap : Nat, bpos : Nat,
               hit : Nat \cup {None}, from : Nat, length : Nat]

\* n bytes fill whole nodes.
Whole(n) == \E k \in Nat : n = k * m_baseSize

NodesOK ==
    /\ Whole(m_capacity) /\ Whole(m_curr)
    /\ m_capacity > 0 /\ m_position <= m_capacity /\ m_size <= m_capacity

\* m_curr is the node of m_position; nullptr, m_capacity, where that is the end.
CursorOK ==
    IF op.at = "seek" THEN m_curr + op.size = m_position /\ (op.size > 0 \/ m_curr = 0)
                      ELSE m_curr <= m_position /\ m_position < m_curr + m_baseSize

\* The locals of the loops.
LoopOK ==
    op.at \in {"read", "write"} =>
        /\ op.from + op.bpos = m_position /\ op.bpos + op.size = op.length
        /\ m_position + op.size <= m_capacity
        /\ op.at = "read" => m_position + op.size <= m_size
        /\ op.size > 0 => op.npos = m_position - m_curr /\ op.ncap = m_baseSize - op.npos

\* The followed byte in write(): it is one of buf, or it is overwritten, now
\* or when the loop gets there, or write() leaves it alone.
WritingOK ==
    op.at = "write" =>
        IF op.hit # None
        THEN /\ op.hit < op.length /\ wrote = op.from + op.hit
             /\ stored = IF op.hit < op.bpos THEN wrote ELSE None
        ELSE \/ /\ wrote = None
                /\ stored # None => op.from + op.bpos <= stored /\ stored < op.from + op.length
             \/ /\ stored = wrote
                /\ ~(op.from <= wrote /\ wrote < op.from + op.length)

\* The followed byte in read().
ReadingOK ==
    op.at = "read" =>
        op.hit = IF op.from <= stored /\ stored < op.from + op.bpos THEN stored - op.from ELSE None

StoredOK ==
    /\ op.at # "write" => stored = wrote
    /\ op.at = "null" => op.length = 0 /\ m_position = m_capacity

ByteInv ==
    ByteTypeOK /\ NodesOK /\ CursorOK /\ LoopOK /\ WritingOK /\ ReadingOK /\ StoredOK /\ ReadsBack


-----------------------------------------------------------------------------
(* Arithmetic.                                                             *)

LEMMA DivMod ==
    ASSUME NEW a \in Nat, NEW b \in Nat \ {0}
    PROVE  /\ a \div b \in Nat /\ a % b \in Nat /\ a % b < b
           /\ a = b * (a \div b) + (a % b)
OBVIOUS

LEMMA Apart ==
    ASSUME NEW b \in Nat \ {0}, NEW k \in Nat, NEW q \in Nat, k > q
    PROVE  k * b >= b * q + b
OBVIOUS

\* The offset in a node is the position less the bytes before the node.
LEMMA Offset ==
    ASSUME NEW c \in Nat, Whole(c), NEW p \in Nat, c <= p, p < c + m_baseSize
    PROVE  p % m_baseSize = p - c
<1> DEFINE b == m_baseSize
<1> DEFINE q == p \div b
<1> DEFINE r == p % b
<1>1. PICK k \in Nat : c = k * b
  BY DEF Whole
<1>2. b \in Nat \ {0} /\ q \in Nat /\ r \in Nat /\ r < b /\ p = b * q + r
  BY DivMod, BaseSizeAssumption
<1> HIDE DEF b, q, r
<1>3. ~(k > q)
  BY <1>1, <1>2, Apart DEF b
<1>4. ~(q > k)
  <2>1. q > k => q * b >= b * k + b
    BY <1>2, Apart
  <2> QED
    BY <1>1, <1>2, <2>1 DEF b
<1>5. k = q
  BY <1>2, <1>3, <1>4
<1>6. r = p - c
  BY <1>1, <1>2, <1>5
<1> QED
  BY <1>6 DEF r, b

LEMMA InNode ==
    ASSUME NEW c \in Nat, NEW p \in Nat, c <= p, p < c + m_baseSize
    PROVE  p - c \in Nat /\ m_baseSize - (p - c) \in Nat
BY BaseSizeAssumption

LEMMA NextNode ==
    ASSUME NEW c \in Nat, Whole(c)
    PROVE  Whole(c + m_baseSize) /\ c + m_baseSize \in Nat
<1>1. PICK k \in Nat : c = k * m_baseSize
  BY DEF Whole
<1>2. c + m_baseSize = (k + 1) * m_baseSize /\ k + 1 \in Nat /\ c + m_baseSize \in Nat
  BY <1>1, BaseSizeAssumption
<1> QED
  BY <1>2 DEF Whole

\* addCapacity() adds enough nodes, and whole ones.
LEMMA Enough ==
    ASSUME NEW c \in Nat, Whole(c), NEW n \in Nat
    PROVE  LET d == c + m_baseSize * Nodes(n) IN d \in Nat /\ Whole(d) /\ d >= c + n
<1> DEFINE a == n + m_baseSize - 1
<1>1. PICK k \in Nat : c = k * m_baseSize
  BY DEF Whole
<1>2. a \in Nat /\ m_baseSize \in Nat \ {0}
  BY BaseSizeAssumption
<1>3. /\ Nodes(n) \in Nat /\ a % m_baseSize \in Nat /\ a % m_baseSize < m_baseSize
      /\ a = m_baseSize * Nodes(n) + (a % m_baseSize)
  BY <1>2, DivMod DEF Nodes
<1>4. m_baseSize * Nodes(n) >= n /\ m_baseSize * Nodes(n) \in Nat
  BY <1>2, <1>3
<1>5. c + m_baseSize * Nodes(n) = (k + Nodes(n)) * m_baseSize /\ k + Nodes(n) \in Nat
  BY <1>1, <1>2, <1>3
<1> QED
  BY <1>4, <1>5 DEF Whole

-----------------------------------------------------------------------------
(* write().                                                                *)

LEMMA AddCapacityKeeps ==
    ASSUME ByteInv, Ready, NEW size \in Nat, size > 0, AddCapacity(size)
    PROVE  /\ m_capacity' \in Nat /\ m_curr' \in Nat /\ Whole(m_capacity') /\ Whole(m_curr')
           /\ m_capacity' >= m_capacity /\ m_capacity' >= m_position + size
           /\ m_curr' <= m_position /\ m_position < m_curr' + m_baseSize
<1> DEFINE old_cap == m_capacity - m_position
<1>1. /\ m_position \in Nat /\ m_capacity \in Nat /\ m_curr \in Nat
      /\ Whole(m_capacity) /\ Whole(m_curr) /\ m_position <= m_capacity
      /\ m_curr <= m_position /\ m_position < m_curr + m_baseSize /\ m_baseSize \in Nat \ {0}
  BY BaseSizeAssumption DEF ByteInv, ByteTypeOK, NodesOK, CursorOK, Ready
<1>2. CASE old_cap < size
  <2>1. /\ m_capacity' = m_capacity + m_baseSize * Nodes(size - old_cap)
        /\ m_curr' = IF old_cap = 0 THEN m_capacity ELSE m_curr
    BY <1>2 DEF AddCapacity
  <2>2. size - old_cap \in Nat
    BY <1>1, <1>2
  <2>3. /\ m_capacity' \in Nat /\ Whole(m_capacity')
        /\ m_capacity' >= m_capacity + (size - old_cap)
    BY <1>1, <2>1, <2>2, Enough
  <2> QED
    BY <1>1, <1>2, <2>1, <2>2, <2>3
<1>3. CASE ~(old_cap < size)
  BY <1>1, <1>3 DEF AddCapacity
<1> QED
  BY <1>2, <1>3

LEMMA ByteWriteKeeps ==
    ASSUME ByteInv, NEW size \in Nat, size > 0, NEW hit \in {None} \cup 0..(size - 1),
           ByteWrite(size, hit)
    PROVE  ByteInv'
<1>1. /\ Ready /\ (hit # None => wrote = None)
      /\ m_position' = m_position /\ m_size' = m_size /\ stored' = stored
      /\ wrote' = IF hit # None THEN m_position + hit
                  ELSE IF m_position <= wrote /\ wrote < m_position + size THEN None ELSE wrote
  BY DEF ByteWrite
<1>2. /\ m_capacity' \in Nat /\ m_curr' \in Nat /\ Whole(m_capacity') /\ Whole(m_curr')
      /\ m_capacity' >= m_capacity /\ m_capacity' >= m_position + size
      /\ m_curr' <= m_position /\ m_position < m_curr' + m_baseSize
  BY <1>1, AddCapacityKeeps DEF ByteWrite
<1>3. /\ m_position \in Nat /\ m_size \in Nat /\ m_capacity \in Nat
      /\ wrote \in Nat \cup {None} /\ stored = wrote /\ m_size <= m_capacity /\ m_capacity > 0
      /\ m_baseSize \in Nat \ {0}
  BY <1>1, BaseSizeAssumption DEF ByteInv, ByteTypeOK, StoredOK, NodesOK, Ready
<1>4. m_position % m_baseSize = m_position - m_curr'
  BY ZenonT(60), <1>2, <1>3, Offset
<1>5. op' = [at |-> "write", size |-> size, bpos |-> 0, hit |-> hit,
             npos |-> m_position - m_curr', ncap |-> m_baseSize - (m_position - m_curr'),
             from |-> m_position, length |-> size]
  <2>1. m_curr' # m_capacity'
    BY <1>2, <1>3
  <2> QED
    BY <1>4, <2>1 DEF ByteWrite, Begin
<1>6. /\ op'.at = "write" /\ op'.size = size /\ op'.bpos = 0 /\ op'.hit = hit
      /\ op'.npos = m_position - m_curr' /\ op'.ncap = m_baseSize - (m_position - m_curr')
      /\ op'.from = m_position /\ op'.length = size
  BY <1>5
<1>7. ByteTypeOK'
  <2>0. hit \in Nat \cup {None}
    <3>1. CASE hit \in 0..(size - 1)
      BY <3>1
    <3>2. CASE hit = None
      BY <3>2
    <3> QED
      BY <3>1, <3>2
  <2>1. m_position - m_curr' \in Nat /\ m_baseSize - (m_position - m_curr') \in Nat
    BY ZenonT(60), <1>2, <1>3, InNode
  <2>2. op' \in [at : {"idle", "got", "read", "write", "seek", "null"},
                 size : Nat, npos : Nat, ncap : Nat, bpos : Nat,
                 hit : Nat \cup {None}, from : Nat, length : Nat]
    BY <1>3, <1>5, <2>0, <2>1
  <2>3. wrote' \in Nat \cup {None} /\ stored' \in Nat \cup {None}
    BY <1>1, <1>3
  <2> QED
    BY <1>1, <1>2, <1>3, <2>2, <2>3 DEF ByteTypeOK
<1>8. NodesOK'
  <2>1. m_capacity' > 0 /\ m_position' <= m_capacity' /\ m_size' <= m_capacity'
    BY <1>1, <1>2, <1>3
  <2> QED
    BY <1>2, <2>1 DEF NodesOK
<1>9. CursorOK'
  BY <1>1, <1>2, <1>6 DEF CursorOK
<1>10. LoopOK'
  BY <1>1, <1>2, <1>3, <1>6 DEF LoopOK
<1>11. WritingOK'
  BY <1>1, <1>3, <1>6 DEF WritingOK, None
<1> QED
  BY <1>6, <1>7, <1>8, <1>9, <1>10, <1>11
     DEF ByteInv, ReadingOK, StoredOK, ReadsBack

\* A turn of a loop, for read() and write() alike.
LEMMA TurnKeeps ==
    ASSUME ByteInv, op.at \in {"read", "write"}, op.size > 0, Advance,
           m_capacity' = m_capacity, NEW hit \in Nat \cup {None}, op' = Turn(hit), m_size' = m_size
    PROVE  /\ m_position' \in Nat /\ m_curr' \in Nat /\ Chunk \in Nat
           /\ op' \in [at : {"idle", "got", "read", "write", "seek", "null"},
                       size : Nat, npos : Nat, ncap : Nat, bpos : Nat,
                       hit : Nat \cup {None}, from : Nat, length : Nat]
           /\ op'.at = op.at /\ op'.bpos = op.bpos + Chunk /\ op'.hit = hit
           /\ op'.from = op.from /\ op'.length = op.length /\ m_curr + op.npos = m_position
           /\ NodesOK' /\ CursorOK' /\ LoopOK'
<1>1. /\ m_position \in Nat /\ m_curr \in Nat /\ m_capacity \in Nat /\ m_size \in Nat
      /\ m_baseSize \in Nat \ {0}
      /\ m_curr <= m_position /\ m_position < m_curr + m_baseSize
  BY BaseSizeAssumption DEF ByteInv, ByteTypeOK, CursorOK
<1>2. /\ op.from + op.bpos = m_position /\ op.bpos + op.size = op.length
      /\ m_position + op.size <= m_capacity
      /\ op.at = "read" => m_position + op.size <= m_size
      /\ op.npos = m_position - m_curr /\ op.ncap = m_baseSize - op.npos
  BY DEF ByteInv, LoopOK
<1>3. op \in [at : {"idle", "got", "read", "write", "seek", "null"},
              size : Nat, npos : Nat, ncap : Nat, bpos : Nat,
              hit : Nat \cup {None}, from : Nat, length : Nat]
  BY DEF ByteInv, ByteTypeOK
<1>4. /\ op.size \in Nat /\ op.npos \in Nat /\ op.ncap \in Nat /\ op.bpos \in Nat
      /\ op.from \in Nat /\ op.length \in Nat
  BY <1>3
<1>5. Chunk \in Nat /\ Chunk <= op.size /\ Chunk <= op.ncap
  BY <1>4 DEF Chunk
<1>6. /\ op'.at = op.at /\ op'.bpos = op.bpos + Chunk /\ op'.hit = hit
      /\ op'.from = op.from /\ op'.length = op.length /\ op'.size = op.size - Chunk
      /\ op'.npos = 0 /\ op'.ncap = m_baseSize
  BY <1>3 DEF Turn
<1>7. op' \in [at : {"idle", "got", "read", "write", "seek", "null"},
               size : Nat, npos : Nat, ncap : Nat, bpos : Nat,
               hit : Nat \cup {None}, from : Nat, length : Nat]
  <2>1. op.size - Chunk \in Nat /\ op.bpos + Chunk \in Nat /\ m_baseSize \in Nat
    BY <1>1, <1>4, <1>5
  <2> QED
    BY ZenonT(60), <1>3, <2>1 DEF Turn
<1>8. m_position' = m_position + Chunk /\ m_position' \in Nat
  BY <1>1, <1>5 DEF Advance
<1>9. /\ m_curr' \in Nat /\ m_curr' <= m_position' /\ m_position' < m_curr' + m_baseSize
      /\ m_curr' = m_curr \/ m_curr' = m_curr + m_baseSize
      /\ op.size - Chunk > 0 => m_position' = m_curr'
  <2>1. CASE op.ncap < op.size
    <3>1. m_curr' = m_curr + m_baseSize /\ Chunk = op.ncap
      BY <1>4, <2>1 DEF Advance, Chunk
    <3> QED
      BY <1>1, <1>2, <1>4, <1>8, <3>1
  <2>2. CASE ~(op.ncap < op.size)
    <3>1. Chunk = op.size
      BY <1>4, <2>2 DEF Chunk
    <3>2. m_curr' = IF op.npos + op.size = m_baseSize THEN m_curr + m_baseSize ELSE m_curr
      BY <2>2 DEF Advance
    <3> QED
      BY <1>1, <1>2, <1>4, <1>8, <2>2, <3>1, <3>2
  <2> QED
    BY <2>1, <2>2
<1>10. NodesOK'
  <2>1. Whole(m_curr')
    BY <1>1, <1>9, NextNode DEF ByteInv, NodesOK
  <2>2. m_position' <= m_capacity
    BY <1>1, <1>2, <1>4, <1>5, <1>8
  <2> QED
    BY <2>1, <2>2 DEF ByteInv, NodesOK
<1>11. CursorOK'
  BY <1>6, <1>9 DEF CursorOK
<1>12. LoopOK'
  <2>1. /\ op.from + (op.bpos + Chunk) = m_position'
        /\ (op.bpos + Chunk) + (op.size - Chunk) = op.length
    BY <1>1, <1>2, <1>4, <1>5, <1>8
  <2>2. m_position' + (op.size - Chunk) = m_position + op.size
    BY <1>1, <1>4, <1>5, <1>8
  <2>3. op.size - Chunk > 0 => 0 = m_position' - m_curr' /\ m_baseSize = m_baseSize - 0
    BY <1>1, <1>8, <1>9
  <2> QED
    BY <1>2, <1>6, <2>1, <2>2, <2>3 DEF LoopOK
<1>13. m_curr + op.npos = m_position
  BY <1>1, <1>2
<1> QED
  BY <1>5, <1>6, <1>7, <1>8, <1>9, <1>10, <1>11, <1>12, <1>13

LEMMA CopyInKeeps ==
    ASSUME ByteInv, CopyIn
    PROVE  ByteInv'
<1>1. /\ op.at = "write" /\ op.size > 0 /\ Advance /\ op' = Turn(op.hit)
      /\ m_size' = m_size /\ m_capacity' = m_capacity /\ wrote' = wrote
  BY DEF CopyIn
<1>2. /\ op.hit \in Nat \cup {None} /\ op.bpos \in Nat /\ op.from \in Nat /\ op.length \in Nat
      /\ wrote \in Nat \cup {None} /\ stored \in Nat \cup {None} /\ m_position \in Nat
      /\ m_size \in Nat /\ m_capacity \in Nat
  BY DEF ByteInv, ByteTypeOK
<1>3. /\ m_position' \in Nat /\ m_curr' \in Nat /\ Chunk \in Nat
      /\ op' \in [at : {"idle", "got", "read", "write", "seek", "null"},
                  size : Nat, npos : Nat, ncap : Nat, bpos : Nat,
                  hit : Nat \cup {None}, from : Nat, length : Nat]
      /\ op'.at = op.at /\ op'.bpos = op.bpos + Chunk /\ op'.hit = op.hit
      /\ op'.from = op.from /\ op'.length = op.length /\ m_curr + op.npos = m_position
      /\ NodesOK' /\ CursorOK' /\ LoopOK'
  BY ZenonT(60), <1>1, <1>2, TurnKeeps
<1>4. stored' = IF op.bpos <= op.hit /\ op.hit < op.bpos + Chunk
                THEN m_position + (op.hit - op.bpos)
                ELSE IF m_position <= stored /\ stored < m_position + Chunk THEN None ELSE stored
  BY <1>3 DEF CopyIn
<1>5. op.from + op.bpos = m_position /\ op.bpos + Chunk <= op.length
  <2>1. op.from + op.bpos = m_position /\ op.bpos + op.size = op.length
    BY <1>1 DEF ByteInv, LoopOK
  <2>2. Chunk <= op.size /\ op.size \in Nat /\ op.ncap \in Nat
    BY DEF Chunk, ByteInv, ByteTypeOK
  <2> QED
    BY <1>2, <1>3, <2>1, <2>2
<1>6. ByteTypeOK'
  <2>1. stored' \in Nat \cup {None}
    BY <1>2, <1>3, <1>4 DEF None
  <2> QED
    BY <1>1, <1>2, <1>3, <2>1 DEF ByteTypeOK
<1>7. WritingOK'
  <2>1. CASE op.hit # None
    <3>1. /\ op.hit \in Nat /\ op.hit < op.length /\ wrote = op.from + op.hit
          /\ stored = IF op.hit < op.bpos THEN wrote ELSE None
      BY <1>1, <1>2, <2>1 DEF ByteInv, WritingOK
    <3>2. stored' = IF op.hit < op.bpos + Chunk THEN wrote ELSE None
      BY <1>2, <1>3, <1>4, <1>5, <3>1 DEF None
    <3> QED
      BY <1>1, <1>3, <2>1, <3>1, <3>2 DEF WritingOK
  <2>2. CASE op.hit = None
    <3>1. stored' = IF m_position <= stored /\ stored < m_position + Chunk THEN None ELSE stored
      BY <1>2, <1>4, <2>2 DEF None
    <3>2. CASE wrote = None /\ (stored # None => /\ op.from + op.bpos <= stored
                                                  /\ stored < op.from + op.length)
      <4>1. stored' # None => /\ op.from + (op.bpos + Chunk) <= stored'
                               /\ stored' < op.from + op.length
        BY <1>2, <1>3, <1>5, <3>1, <3>2 DEF None
      <4> QED
        BY <1>1, <1>3, <2>2, <3>2, <4>1 DEF WritingOK
    <3>3. CASE stored = wrote /\ ~(op.from <= wrote /\ wrote < op.from + op.length)
      <4>1. stored' = stored
        BY <1>2, <1>3, <1>5, <3>1, <3>3
      <4> QED
        BY <1>1, <1>3, <2>2, <3>3, <4>1 DEF WritingOK
    <3> QED
      BY <1>1, <2>2, <3>2, <3>3 DEF ByteInv, WritingOK
  <2> QED
    BY <2>1, <2>2
<1> QED
  BY <1>1, <1>3, <1>6, <1>7 DEF ByteInv, ReadingOK, StoredOK, ReadsBack

LEMMA WrittenKeeps ==
    ASSUME ByteInv, Written
    PROVE  ByteInv'
<1>1. /\ op.at = "write" /\ op.size = 0 /\ op' = NoOp
      /\ m_size' = IF m_position > m_size THEN m_position ELSE m_size
      /\ UNCHANGED <<m_position, m_capacity, m_curr, wrote, stored>>
  BY DEF Written
<1>2. op'.at = "idle"
  BY <1>1 DEF NoOp
<1>3. ByteTypeOK'
  <2>1. NoOp \in [at : {"idle", "got", "read", "write", "seek", "null"},
                  size : Nat, npos : Nat, ncap : Nat, bpos : Nat,
                  hit : Nat \cup {None}, from : Nat, length : Nat]
    BY DEF NoOp
  <2> QED
    BY <1>1, <2>1 DEF ByteInv, ByteTypeOK
<1>4. NodesOK'
  BY <1>1 DEF ByteInv, NodesOK, ByteTypeOK
<1>5. CursorOK'
  BY <1>1, <1>2 DEF ByteInv, CursorOK
<1>6. stored = wrote
  <2>1. op.bpos = op.length /\ op.length \in Nat /\ op.from \in Nat /\ op.hit \in Nat \cup {None}
        /\ stored \in Nat \cup {None}
    BY <1>1 DEF ByteInv, LoopOK, ByteTypeOK
  <2> QED
    BY <1>1, <2>1 DEF ByteInv, WritingOK, None
<1> QED
  BY <1>1, <1>2, <1>3, <1>4, <1>5, <1>6
     DEF ByteInv, LoopOK, WritingOK, ReadingOK, StoredOK, ReadsBack

-----------------------------------------------------------------------------
(* read().                                                                 *)

LEMMA ByteReadKeeps ==
    ASSUME ByteInv, NEW size \in Nat, ByteRead(size)
    PROVE  ByteInv'
<1>1. /\ Ready /\ size <= m_size - m_position
      /\ UNCHANGED <<m_position, m_size, m_capacity, m_curr, wrote, stored>>
  BY DEF ByteRead
<1>2. /\ m_position \in Nat /\ m_size \in Nat /\ m_capacity \in Nat /\ m_curr \in Nat
      /\ Whole(m_curr) /\ stored = wrote /\ m_position <= m_capacity /\ m_size <= m_capacity
      /\ m_curr <= m_position /\ m_position < m_curr + m_baseSize /\ m_baseSize \in Nat \ {0}
      /\ stored \in Nat \cup {None}
  BY <1>1, BaseSizeAssumption
     DEF ByteInv, ByteTypeOK, NodesOK, CursorOK, StoredOK, Ready
<1>3. NodesOK'
  BY ZenonT(60), <1>1 DEF ByteInv, NodesOK
<1>4. CASE m_curr = m_capacity
  <2>1. op' = [NoOp EXCEPT !.at = "null", !.length = size]
    BY <1>4 DEF ByteRead
  <2>2. op'.at = "null" /\ op'.length = size
    BY <2>1 DEF NoOp
  <2>3. op' \in [at : {"idle", "got", "read", "write", "seek", "null"},
                 size : Nat, npos : Nat, ncap : Nat, bpos : Nat,
                 hit : Nat \cup {None}, from : Nat, length : Nat]
    BY ZenonT(60), <2>1 DEF NoOp
  <2>4. size = 0 /\ m_position = m_capacity
    BY <1>1, <1>2, <1>4
  <2>5. ByteTypeOK'
    BY <1>1, <2>3 DEF ByteInv, ByteTypeOK
  <2>6. CursorOK'
    BY ZenonT(60), <1>1, <1>2, <2>2 DEF CursorOK
  <2> QED
    BY <1>1, <1>2, <1>3, <2>2, <2>4, <2>5, <2>6
       DEF ByteInv, LoopOK, WritingOK, ReadingOK, StoredOK, ReadsBack
<1>5. CASE m_curr # m_capacity
  <2>1. m_position % m_baseSize = m_position - m_curr
    BY ZenonT(60), <1>2, Offset
  <2>2. op' = [at |-> "read", size |-> size, bpos |-> 0, hit |-> None,
               npos |-> m_position - m_curr, ncap |-> m_baseSize - (m_position - m_curr),
               from |-> m_position, length |-> size]
    BY <1>5, <2>1 DEF ByteRead, Begin
  <2>3. /\ op'.at = "read" /\ op'.size = size /\ op'.bpos = 0 /\ op'.hit = None
        /\ op'.npos = m_position - m_curr /\ op'.ncap = m_baseSize - (m_position - m_curr)
        /\ op'.from = m_position /\ op'.length = size
    BY <2>2
  <2>4. m_position - m_curr \in Nat /\ m_baseSize - (m_position - m_curr) \in Nat
    BY ZenonT(60), <1>2, InNode
  <2>5. op' \in [at : {"idle", "got", "read", "write", "seek", "null"},
                 size : Nat, npos : Nat, ncap : Nat, bpos : Nat,
                 hit : Nat \cup {None}, from : Nat, length : Nat]
    BY <1>2, <2>2, <2>4
  <2>6. ByteTypeOK'
    BY <1>1, <2>5 DEF ByteInv, ByteTypeOK
  <2>7. CursorOK'
    BY <1>1, <1>2, <2>3 DEF CursorOK
  <2>8. LoopOK'
    <3>1. /\ m_position + 0 = m_position /\ 0 + size = size
          /\ m_position + size <= m_capacity /\ m_position + size <= m_size
      BY <1>1, <1>2
    <3> QED
      BY <1>1, <2>3, <3>1 DEF LoopOK
  <2>9. ReadingOK'
    <3>1. ~(m_position <= stored /\ stored < m_position + 0)
      BY <1>2 DEF None
    <3> QED
      BY <1>1, <2>3, <3>1 DEF ReadingOK
  <2> QED
    BY <1>1, <1>2, <1>3, <2>3, <2>6, <2>7, <2>8, <2>9
       DEF ByteInv, WritingOK, StoredOK, ReadsBack
<1> QED
  BY <1>4, <1>5

LEMMA CopyOutKeeps ==
    ASSUME ByteInv, CopyOut
    PROVE  ByteInv'
<1> DEFINE hit == IF m_curr + op.npos <= stored /\ stored < m_curr + op.npos + Chunk
                  THEN op.bpos + (stored - (m_curr + op.npos)) ELSE op.hit
<1>1. /\ op.at = "read" /\ op.size > 0 /\ Advance /\ op' = Turn(hit)
      /\ UNCHANGED <<m_size, m_capacity, wrote, stored>>
  BY DEF CopyOut
<1>2. /\ op.hit \in Nat \cup {None} /\ op.bpos \in Nat /\ op.from \in Nat /\ op.npos \in Nat
      /\ stored \in Nat \cup {None} /\ stored = wrote /\ m_position \in Nat /\ m_curr \in Nat
  BY <1>1 DEF ByteInv, ByteTypeOK, StoredOK
<1>3. op.from + op.bpos = m_position /\ m_curr + op.npos = m_position
  BY <1>1, <1>2 DEF ByteInv, LoopOK
<1>4. Chunk \in Nat
  BY DEF Chunk, ByteInv, ByteTypeOK
<1>5. hit = IF m_position <= stored /\ stored < m_position + Chunk
            THEN op.bpos + (stored - m_position) ELSE op.hit
  BY <1>3
<1> HIDE DEF hit
<1>6. hit \in Nat \cup {None}
  BY <1>2, <1>4, <1>5 DEF None
<1>7. /\ m_position' \in Nat /\ m_curr' \in Nat
      /\ op' \in [at : {"idle", "got", "read", "write", "seek", "null"},
                  size : Nat, npos : Nat, ncap : Nat, bpos : Nat,
                  hit : Nat \cup {None}, from : Nat, length : Nat]
      /\ op'.at = op.at /\ op'.bpos = op.bpos + Chunk /\ op'.hit = hit /\ op'.from = op.from
      /\ NodesOK' /\ CursorOK' /\ LoopOK'
  BY ZenonT(60), <1>1, <1>6, TurnKeeps
<1>8. ByteTypeOK'
  BY ZenonT(60), <1>1, <1>7 DEF ByteInv, ByteTypeOK
<1>9. ReadingOK'
  <2>1. op.hit = IF op.from <= stored /\ stored < m_position THEN stored - op.from ELSE None
    BY <1>1, <1>3 DEF ByteInv, ReadingOK
  <2>2. hit = IF op.from <= stored /\ stored < op.from + (op.bpos + Chunk)
              THEN stored - op.from ELSE None
    BY <1>2, <1>3, <1>4, <1>5, <2>1 DEF None
  <2> QED
    BY <1>1, <1>7, <2>2 DEF ReadingOK
<1> QED
  BY <1>1, <1>2, <1>7, <1>8, <1>9 DEF ByteInv, WritingOK, StoredOK, ReadsBack

LEMMA HaveReadKeeps ==
    ASSUME ByteInv, HaveRead
    PROVE  ByteInv'
<1>1. /\ op.at = "read" /\ op.size = 0 /\ op' = [op EXCEPT !.at = "got"]
      /\ UNCHANGED <<m_position, m_size, m_capacity, m_curr, wrote, stored>>
  BY DEF HaveRead
<1>2. op \in [at : {"idle", "got", "read", "write", "seek", "null"},
              size : Nat, npos : Nat, ncap : Nat, bpos : Nat,
              hit : Nat \cup {None}, from : Nat, length : Nat]
  BY DEF ByteInv, ByteTypeOK
<1>3. /\ op' \in [at : {"idle", "got", "read", "write", "seek", "null"},
                  size : Nat, npos : Nat, ncap : Nat, bpos : Nat,
                  hit : Nat \cup {None}, from : Nat, length : Nat]
      /\ op'.at = "got" /\ op'.hit = op.hit /\ op'.from = op.from /\ op'.length = op.length
  BY <1>1, <1>2
<1>4. ByteTypeOK' /\ NodesOK'
  BY <1>1, <1>3 DEF ByteInv, ByteTypeOK, NodesOK
<1>5. CursorOK'
  BY <1>1, <1>3 DEF ByteInv, CursorOK
<1>6. stored = wrote /\ op.bpos = op.length
  BY <1>1, <1>2 DEF ByteInv, StoredOK, LoopOK
<1>7. ReadsBack'
  BY <1>1, <1>3, <1>6 DEF ByteInv, ReadingOK, ReadsBack
<1> QED
  BY <1>1, <1>3, <1>4, <1>5, <1>6, <1>7
     DEF ByteInv, LoopOK, WritingOK, ReadingOK, StoredOK

-----------------------------------------------------------------------------
(* setPosition() and clear().                                              *)

LEMMA NoOpType ==
    NoOp \in [at : {"idle", "got", "read", "write", "seek", "null"},
              size : Nat, npos : Nat, ncap : Nat, bpos : Nat,
              hit : Nat \cup {None}, from : Nat, length : Nat]
BY DEF NoOp

LEMMA WholeZero == Whole(0) /\ Whole(m_baseSize)
<1>1. 0 = 0 * m_baseSize /\ m_baseSize = 1 * m_baseSize
  BY BaseSizeAssumption
<1> QED
  BY ZenonT(60), <1>1 DEF Whole

LEMMA SetPositionKeeps ==
    ASSUME ByteInv, NEW v \in Nat, SetPosition(v)
    PROVE  ByteInv'
<1>1. /\ Ready /\ v <= m_capacity /\ m_position' = v /\ m_curr' = 0
      /\ m_size' = IF v > m_size THEN v ELSE m_size
      /\ op' = [NoOp EXCEPT !.at = "seek", !.size = v]
      /\ UNCHANGED <<m_capacity, wrote, stored>>
  BY DEF SetPosition
<1>2. op'.at = "seek" /\ op'.size = v
  BY <1>1 DEF NoOp
<1>3. ByteTypeOK'
  <2>1. op' \in [at : {"idle", "got", "read", "write", "seek", "null"},
                 size : Nat, npos : Nat, ncap : Nat, bpos : Nat,
                 hit : Nat \cup {None}, from : Nat, length : Nat]
    BY ZenonT(60), <1>1, NoOpType
  <2> QED
    BY <1>1, <2>1 DEF ByteInv, ByteTypeOK
<1>4. NodesOK'
  BY <1>1, WholeZero DEF ByteInv, NodesOK
<1>5. CursorOK'
  BY <1>1, <1>2 DEF CursorOK
<1>6. stored = wrote
  BY <1>1 DEF ByteInv, StoredOK, Ready
<1> QED
  BY <1>1, <1>2, <1>3, <1>4, <1>5, <1>6
     DEF ByteInv, LoopOK, WritingOK, ReadingOK, StoredOK, ReadsBack

LEMMA SeekKeeps ==
    ASSUME ByteInv, Seek
    PROVE  ByteInv'
<1>1. /\ op.at = "seek" /\ op.size > m_baseSize /\ op' = [op EXCEPT !.size = @ - m_baseSize]
      /\ m_curr' = m_curr + m_baseSize
      /\ UNCHANGED <<m_position, m_size, m_capacity, wrote, stored>>
  BY DEF Seek
<1>2. /\ m_curr \in Nat /\ m_position \in Nat /\ op.size \in Nat /\ m_baseSize \in Nat \ {0}
      /\ Whole(m_curr) /\ m_curr + op.size = m_position /\ stored = wrote
  BY <1>1, BaseSizeAssumption
     DEF ByteInv, ByteTypeOK, NodesOK, CursorOK, StoredOK
<1>3. op.size - m_baseSize \in Nat
  BY <1>1, <1>2
<1>4. ByteTypeOK' /\ op'.at = "seek" /\ op'.size = op.size - m_baseSize
  <2>1. /\ op' \in [at : {"idle", "got", "read", "write", "seek", "null"},
                    size : Nat, npos : Nat, ncap : Nat, bpos : Nat,
                    hit : Nat \cup {None}, from : Nat, length : Nat]
        /\ op'.at = "seek" /\ op'.size = op.size - m_baseSize
    BY <1>1, <1>3 DEF ByteInv, ByteTypeOK
  <2>2. m_curr' \in Nat
    BY <1>1, <1>2
  <2> QED
    BY <1>1, <2>1, <2>2 DEF ByteInv, ByteTypeOK
<1>5. NodesOK'
  BY <1>1, <1>2, NextNode DEF ByteInv, NodesOK
<1>6. CursorOK'
  BY <1>1, <1>2, <1>4 DEF CursorOK
<1> QED
  BY <1>1, <1>2, <1>4, <1>5, <1>6
     DEF ByteInv, LoopOK, WritingOK, ReadingOK, StoredOK, ReadsBack

LEMMA SoughtKeeps ==
    ASSUME ByteInv, Sought
    PROVE  ByteInv'
<1>1. /\ op.at = "seek" /\ op.size <= m_baseSize /\ op' = NoOp
      /\ m_curr' = IF op.size = m_baseSize THEN m_curr + m_baseSize ELSE m_curr
      /\ UNCHANGED <<m_position, m_size, m_capacity, wrote, stored>>
  BY DEF Sought
<1>2. /\ m_curr \in Nat /\ m_position \in Nat /\ op.size \in Nat /\ m_baseSize \in Nat \ {0}
      /\ Whole(m_curr) /\ m_curr + op.size = m_position /\ stored = wrote
  BY ZenonT(60), <1>1, BaseSizeAssumption
     DEF ByteInv, ByteTypeOK, NodesOK, CursorOK, StoredOK
<1>3. op'.at = "idle"
  BY <1>1 DEF NoOp
<1>4. m_curr' \in Nat /\ Whole(m_curr')
  BY ZenonT(60), <1>1, <1>2, NextNode
<1>5. ByteTypeOK' /\ NodesOK'
  BY <1>1, <1>4, NoOpType DEF ByteInv, ByteTypeOK, NodesOK
<1>6. CursorOK'
  BY <1>1, <1>2, <1>3 DEF CursorOK
<1> QED
  BY <1>1, <1>2, <1>3, <1>5, <1>6
     DEF ByteInv, LoopOK, WritingOK, ReadingOK, StoredOK, ReadsBack

LEMMA ByteInitInv ==
    ASSUME ByteInit
    PROVE  ByteInv
<1>1. ByteTypeOK
  BY NoOpType, BaseSizeAssumption DEF ByteInit, ByteTypeOK
<1>2. op.at = "idle"
  BY DEF ByteInit, NoOp
<1>3. NodesOK
  BY WholeZero, BaseSizeAssumption DEF ByteInit, NodesOK
<1>4. CursorOK
  BY <1>2, BaseSizeAssumption DEF ByteInit, CursorOK
<1> QED
  BY <1>1, <1>2, <1>3, <1>4
     DEF ByteInit, ByteInv, LoopOK, WritingOK, ReadingOK, StoredOK, ReadsBack

LEMMA ClearKeeps ==
    ASSUME Clear
    PROVE  ByteInv'
<1>1. ByteTypeOK'
  BY NoOpType, BaseSizeAssumption DEF Clear, ByteTypeOK
<1>2. op'.at = "idle"
  BY DEF Clear, NoOp
<1>3. NodesOK'
  BY WholeZero, BaseSizeAssumption DEF Clear, NodesOK
<1>4. CursorOK'
  BY <1>2, BaseSizeAssumption DEF Clear, CursorOK
<1> QED
  BY <1>1, <1>2, <1>3, <1>4
     DEF Clear, ByteInv, LoopOK, WritingOK, ReadingOK, StoredOK, ReadsBack

-----------------------------------------------------------------------------

LEMMA ByteStep ==
    ASSUME ByteInv, [ByteNext]_bvars
    PROVE  ByteInv'
<1>1. ASSUME NEW size \in 1..MaxLength, NEW hit \in {None} \cup 0..(size - 1),
             ByteWrite(size, hit)
      PROVE  ByteInv'
  <2>1. size \in Nat /\ size > 0
    BY LengthAssumption
  <2> QED
    BY <1>1, <2>1, ByteWriteKeeps
<1>2. ASSUME NEW size \in 0..MaxPosition, ByteRead(size)
      PROVE  ByteInv'
  <2>1. size \in Nat
    BY LengthAssumption
  <2> QED
    BY <1>2, <2>1, ByteReadKeeps
<1>3. ASSUME NEW v \in 0..MaxPosition, SetPosition(v)
      PROVE  ByteInv'
  <2>1. v \in Nat
    BY LengthAssumption
  <2> QED
    BY <1>3, <2>1, SetPositionKeeps
<1>4. CASE UNCHANGED bvars
  BY <1>4
     DEF bvars, ByteInv, ByteTypeOK, NodesOK, CursorOK, LoopOK, WritingOK, ReadingOK,
              StoredOK, ReadsBack
<1> QED
  BY <1>1, <1>2, <1>3, <1>4, CopyInKeeps, WrittenKeeps, CopyOutKeeps, HaveReadKeeps,
     SeekKeeps, SoughtKeeps, ClearKeeps DEF ByteNext

LEMMA NoNull ==
    ASSUME ByteInv
    PROVE  NullOnlyAtEnd
<1>1. op.at = "null" => op.length = 0 /\ m_position = m_capacity
  BY DEF ByteInv, StoredOK
<1>2. ASSUME op.at \in {"read", "write"}, op.size > 0
      PROVE  m_curr < m_capacity
  BY <1>2 DEF ByteInv, ByteTypeOK, CursorOK, LoopOK
<1>3. ASSUME op.at = "seek"
      PROVE  m_curr < m_capacity
  BY <1>3 DEF ByteInv, ByteTypeOK, CursorOK, NodesOK
<1> QED
  BY <1>1, <1>2, <1>3 DEF NullOnlyAtEnd

\* read() returns the bytes that were written at the positions it reads, for
\* every m_baseSize and every sequence of write(), read(), setPosition() and
\* clear().
THEOREM BytesReadBack == ByteSpec => []ReadsBack
<1>1. ByteInit => ByteInv
  BY ByteInitInv
<1>2. ByteInv /\ [ByteNext]_bvars => ByteInv'
  BY ByteStep
<1>3. ByteInv => ReadsBack
  BY DEF ByteInv
<1> QED
  BY <1>1, <1>2, <1>3, PTL DEF ByteSpec

\* No loop of ByteArray dereferences m_curr beyond the last node, for every
\* m_baseSize; only read() of no bytes at a full end does.
THEOREM CursorInList == ByteSpec => []NullOnlyAtEnd
<1>1. ByteInit => ByteInv
  BY ByteInitInv
<1>2. ByteInv /\ [ByteNext]_bvars => ByteInv'
  BY ByteStep
<1>3. ByteInv => NullOnlyAtEnd
  BY NoNull
<1> QED
  BY <1>1, <1>2, <1>3, PTL DEF ByteSpec

-----------------------------------------------------------------------------
(* FdManager.                                                              *)

KernelFd == [open : BOOLEAN, socket : BOOLEAN, nonblock : BOOLEAN]

Ctx == [m_isInit : BOOLEAN, m_isSocket : BOOLEAN, m_sysNonblock : BOOLEAN,
        m_userNonblock : BOOLEAN]

FdTypeOK ==
    /\ kernel \in [Fds -> KernelFd] /\ m_datas \in [Fds -> Ctx] /\ left \subseteq Fds

\* Of a descriptor that was never left behind by close(): an FdCtx is that of
\* an open descriptor of the same kind, and of a socket it knows, with the
\* kernel, that O_NONBLOCK is set.
CtxOK(f) ==
    /\ m_datas[f].m_isSocket => m_datas[f].m_isInit
    /\ f \notin left /\ m_datas[f].m_isInit =>
          /\ kernel[f].open
          /\ m_datas[f].m_isSocket =>
                kernel[f].socket /\ kernel[f].nonblock /\ m_datas[f].m_sysNonblock

FdInv == FdTypeOK /\ \A f \in Fds : CtxOK(f)

\* A step on one descriptor.
LEMMA FdStep ==
    ASSUME FdInv, NEW f \in Fds,
           \/ HookedSocket(f) \/ UnhookedClose(f) \/ HookedClose(f)
           \/ \E b \in BOOLEAN : PlainOpen(f, b) \/ SetFl(f, b)
    PROVE  FdInv'
<1>1. PICK k \in KernelFd, c \in Ctx :
         /\ kernel' = [kernel EXCEPT ![f] = k]
         /\ m_datas' = [m_datas EXCEPT ![f] = c]
  <2> USE DEF FdInv, FdTypeOK
  <2>0. /\ kernel[f] \in KernelFd /\ m_datas[f] \in Ctx
        /\ kernel = [kernel EXCEPT ![f] = kernel[f]]
        /\ m_datas = [m_datas EXCEPT ![f] = m_datas[f]]
    OBVIOUS
  <2>9. \A o, b, n, d \in BOOLEAN :
           /\ [open |-> o, socket |-> b, nonblock |-> n] \in KernelFd
           /\ [m_isInit |-> o, m_isSocket |-> b, m_sysNonblock |-> n,
               m_userNonblock |-> d] \in Ctx
    BY DEF KernelFd, Ctx
  <2>10. TRUE \in BOOLEAN /\ FALSE \in BOOLEAN
    OBVIOUS
  <2>11. Closed \in KernelFd /\ NoCtx \in Ctx
    BY ZenonT(60), <2>9, <2>10 DEF Closed, NoCtx
  <2>1. CASE HookedSocket(f)
    BY ZenonT(60), <2>0, <2>1, <2>9, <2>10 DEF HookedSocket, MakeCtx
  <2>2. CASE UnhookedClose(f) \/ HookedClose(f)
    BY ZenonT(60), <2>0, <2>2, <2>11 DEF UnhookedClose, HookedClose
  <2>3. CASE \E b \in BOOLEAN : PlainOpen(f, b)
    BY ZenonT(60), <2>0, <2>3, <2>9, <2>10 DEF PlainOpen
  <2>4. CASE \E b \in BOOLEAN : SetFl(f, b)
    <3>1. PICK b \in BOOLEAN : SetFl(f, b)
      BY <2>4
    <3>2. /\ [kernel[f] EXCEPT !.nonblock = b] \in KernelFd
          /\ [kernel[f] EXCEPT !.nonblock = m_datas[f].m_sysNonblock] \in KernelFd
          /\ [m_datas[f] EXCEPT !.m_userNonblock = b] \in Ctx
      BY <2>0 DEF KernelFd, Ctx
    <3> QED
      BY ZenonT(60), <2>0, <3>1, <3>2 DEF SetFl
  <2> QED
    BY ZenonT(60), <2>1, <2>2, <2>3, <2>4
<1>2. FdTypeOK'
  <2>1. left' \subseteq Fds
    BY ZenonT(60) DEF FdInv, FdTypeOK, HookedSocket, UnhookedClose, HookedClose,
       PlainOpen, SetFl
  <2> QED
    BY <1>1, <2>1 DEF FdInv, FdTypeOK
<1>3. CtxOK(f)'
  <2>1. CASE HookedSocket(f)
    BY <2>1 DEF FdInv, FdTypeOK, KernelFd, Ctx, CtxOK, HookedSocket, MakeCtx
  <2>2. CASE UnhookedClose(f) \/ HookedClose(f)
    BY <2>2 DEF FdInv, FdTypeOK, KernelFd, Ctx, CtxOK, UnhookedClose, HookedClose, Closed, NoCtx
  <2>3. CASE \E b \in BOOLEAN : PlainOpen(f, b)
    BY <2>3 DEF FdInv, FdTypeOK, KernelFd, Ctx, CtxOK, PlainOpen
  <2>4. CASE \E b \in BOOLEAN : SetFl(f, b)
    BY <2>4 DEF FdInv, FdTypeOK, KernelFd, Ctx, CtxOK, SetFl
  <2> QED
    BY <2>1, <2>2, <2>3, <2>4
<1>4. ASSUME NEW g \in Fds \ {f}
      PROVE  CtxOK(g)'
  <2>1. kernel'[g] = kernel[g] /\ m_datas'[g] = m_datas[g]
    BY <1>1 DEF FdInv, FdTypeOK
  <2>2. g \in left' <=> g \in left
    BY ZenonT(60) DEF HookedSocket, UnhookedClose, HookedClose, PlainOpen, SetFl
  <2>3. CtxOK(g)
    BY DEF FdInv
  <2> QED
    BY ZenonT(60), <2>1, <2>2, <2>3 DEF CtxOK
<1> QED
  BY <1>2, <1>3, <1>4 DEF FdInv

LEMMA FdInvariant == FdSpec => []FdInv
<1>1. FdInit => FdInv
  BY DEF FdInit, FdInv, FdTypeOK, KernelFd, Ctx, CtxOK, Closed, NoCtx
<1>2. FdInv /\ [FdNext]_fvars => FdInv'
  <2>1. FdInv /\ UNCHANGED fvars => FdInv'
    BY ZenonT(60) DEF FdInv, FdTypeOK, CtxOK, fvars
  <2> QED
    BY <2>1, FdStep DEF FdNext
<1> QED
  BY <1>1, <1>2, PTL DEF FdSpec

\* A call on a descriptor that do_io() suspends on never blocks its thread,
\* for any sequence of socket(), accept(), open(), fcntl() and close(), unless
\* close() in a hooked thread left the FdCtx of its number behind.
THEOREM ThreadsNotBlocked == FdSpec => []NeverBlocksThread
<1>1. FdInv => NeverBlocksThread
  BY DEF FdInv, FdTypeOK, KernelFd, Ctx, CtxOK, NeverBlocksThread, Suspends
<1> QED
  BY <1>1, FdInvariant, PTL

-----------------------------------------------------------------------------
(* ConfigVar.                                                              *)

Setter == [at : {"out", "tell", "assign"}, v : Values, next : 1..(Listeners + 1)]

ConfigTypeOK ==
    /\ m_val \in Values /\ crossed \in BOOLEAN
    /\ told \in [1..Listeners -> Values]
    /\ setter \in [Setters -> Setter]

\* Calls that do not overlap: at most one is under way, ...
OneSetter ==
    ~crossed => \A s, t \in Setters :
                   setter[s].at # "out" /\ setter[t].at # "out" => s = t

\* ... which has told its value to the listeners before next, and to all of
\* them when it is about to assign it.
ToldOK(t) ==
    /\ ~crossed /\ setter[t].at = "tell" =>
          \A l \in 1..(setter[t].next - 1) : told[l] = setter[t].v
    /\ ~crossed /\ setter[t].at = "assign" =>
          \A l \in 1..Listeners : told[l] = setter[t].v

ConfigInv ==
    /\ ConfigTypeOK /\ OneSetter /\ ListenersFollow
    /\ \A t \in Setters : ToldOK(t)

LEMMA SetValueKeeps ==
    ASSUME ConfigInv, NEW t \in Setters, NEW v \in Values, SetValue(t, v)
    PROVE  ConfigInv'
<1>1. ConfigTypeOK'
  BY ConfigAssumption DEF ConfigInv, ConfigTypeOK, Setter, SetValue
<1>2. setter'[t] = [at |-> "tell", v |-> v, next |-> 1]
  BY DEF ConfigInv, ConfigTypeOK, SetValue
<1>3. \A s \in Setters \ {t} : setter'[s] = setter[s]
  BY DEF ConfigInv, ConfigTypeOK, SetValue
<1>4. crossed' <=> \E s \in Setters \ {t} : setter[s].at # "out"
  BY ZenonT(60) DEF SetValue, Others
<1>5. OneSetter' /\ \A s \in Setters : ToldOK(s)'
  BY <1>2, <1>3, <1>4 DEF OneSetter, ToldOK
<1>6. ListenersFollow'
  BY <1>2 DEF ListenersFollow
<1> QED
  BY ZenonT(60), <1>1, <1>5, <1>6 DEF ConfigInv

LEMMA TellKeeps ==
    ASSUME ConfigInv, NEW t \in Setters, Tell(t)
    PROVE  ConfigInv'
<1>1. ConfigTypeOK'
  <2>1. /\ setter[t] \in Setter /\ setter[t].v \in Values
        /\ [setter[t] EXCEPT !.next = @ + 1] \in Setter
    <3>1. setter[t] \in Setter
      BY DEF ConfigInv, ConfigTypeOK
    <3>2. setter[t].next + 1 \in 1..(Listeners + 1)
      BY <3>1, ConfigAssumption DEF Setter, Tell
    <3> QED
      BY <3>1, <3>2 DEF Setter
  <2>2. /\ setter' = [setter EXCEPT ![t] = [setter[t] EXCEPT !.next = @ + 1]]
        /\ told' = [told EXCEPT ![setter[t].next] = setter[t].v]
        /\ UNCHANGED <<m_val, crossed>>
    BY DEF Tell
  <2> QED
    BY ZenonT(60), <2>1, <2>2 DEF ConfigInv, ConfigTypeOK
<1>2. /\ setter[t].at = "tell" /\ setter[t].next \in 1..Listeners
      /\ setter'[t] = [setter[t] EXCEPT !.next = @ + 1]
      /\ \A s \in Setters \ {t} : setter'[s] = setter[s]
  BY DEF ConfigInv, ConfigTypeOK, Setter, Tell
<1>3. /\ setter'[t].at = "tell" /\ setter'[t].v = setter[t].v
      /\ setter'[t].next = setter[t].next + 1
  BY <1>2 DEF ConfigInv, ConfigTypeOK, Setter
<1>4. /\ told'[setter[t].next] = setter[t].v
      /\ \A l \in 1..Listeners : l # setter[t].next => told'[l] = told[l]
  BY <1>2 DEF ConfigInv, ConfigTypeOK, Tell
<1>5. crossed' = crossed
  BY DEF Tell
<1>6. OneSetter'
  BY ZenonT(60), <1>2, <1>3, <1>5 DEF ConfigInv, OneSetter
<1>7. ToldOK(t)'
  <2>1. ToldOK(t)
    BY DEF ConfigInv
  <2> QED
    BY <1>2, <1>3, <1>4, <1>5, <2>1, ConfigAssumption DEF ToldOK
<1>8. ASSUME NEW s \in Setters \ {t}, ~crossed'
      PROVE  setter'[s].at = "out"
  BY ZenonT(60), <1>2, <1>5, <1>8 DEF ConfigInv, OneSetter
<1>9. \A s \in Setters : ToldOK(s)'
  BY <1>7, <1>8 DEF ToldOK
<1>10. ListenersFollow'
  BY <1>3 DEF ListenersFollow
<1> QED
  BY ZenonT(60), <1>1, <1>6, <1>9, <1>10 DEF ConfigInv

LEMMA ToldKeeps ==
    ASSUME ConfigInv, NEW t \in Setters, Told(t) \/ Assign(t)
    PROVE  ConfigInv'
<1>1. ConfigTypeOK'
  <2>1. /\ setter[t] \in Setter /\ setter[t].v \in Values
        /\ [setter[t] EXCEPT !.at = "assign"] \in Setter
        /\ [setter[t] EXCEPT !.at = "out"] \in Setter
    BY DEF ConfigInv, ConfigTypeOK, Setter
  <2>2. /\ \/ setter' = [setter EXCEPT ![t] = [setter[t] EXCEPT !.at = "assign"]]
           \/ setter' = [setter EXCEPT ![t] = [setter[t] EXCEPT !.at = "out"]]
        /\ m_val' \in {m_val, setter[t].v}
        /\ UNCHANGED <<told, crossed>>
    BY DEF Told, Assign
  <2> QED
    BY <2>1, <2>2 DEF ConfigInv, ConfigTypeOK
<1>2. setter[t] \in Setter /\ setter[t].next \in 1..(Listeners + 1)
  BY DEF ConfigInv, ConfigTypeOK, Setter
<1>3. PICK at \in {"assign", "out"} :
         /\ setter' = [setter EXCEPT ![t].at = at]
         /\ at = "assign" => /\ setter[t].at = "tell" /\ setter[t].next > Listeners
                             /\ UNCHANGED m_val
         /\ at = "out" => setter[t].at = "assign" /\ m_val' = setter[t].v
         /\ UNCHANGED <<told, crossed>>
  BY ZenonT(60) DEF Told, Assign
<1>4. /\ setter'[t].at = at /\ setter'[t].v = setter[t].v
      /\ \A s \in Setters \ {t} : setter'[s] = setter[s]
  BY <1>2, <1>3 DEF ConfigInv, ConfigTypeOK, Setter
<1>5. setter[t].at # "out"
  BY <1>3
<1>6. OneSetter'
  BY ZenonT(60), <1>3, <1>4, <1>5 DEF ConfigInv, OneSetter
<1>7. ASSUME NEW s \in Setters \ {t}, ~crossed
      PROVE  setter'[s].at = "out"
  BY ZenonT(60), <1>4, <1>5, <1>7 DEF ConfigInv, OneSetter
<1>8. ASSUME ~crossed
      PROVE  \A l \in 1..Listeners : told[l] = setter[t].v
  <2>1. ToldOK(t)
    BY DEF ConfigInv
  <2> QED
    BY <1>2, <1>3, <1>8, <2>1, ConfigAssumption DEF ToldOK
<1>9. \A s \in Setters : ToldOK(s)'
  BY <1>3, <1>4, <1>7, <1>8 DEF ToldOK
<1>10. ListenersFollow'
  BY <1>3, <1>4, <1>8 DEF ListenersFollow
<1> QED
  BY ZenonT(60), <1>1, <1>6, <1>9, <1>10 DEF ConfigInv

LEMMA ConfigInvariant == ConfigSpec => []ConfigInv
<1>1. ConfigInit => ConfigInv
  <2> SUFFICES ASSUME ConfigInit PROVE ConfigInv
    OBVIOUS
  <2>1. ConfigTypeOK
    <3>1. [at |-> "out", v |-> Default, next |-> 1] \in Setter
      BY ConfigAssumption DEF Setter
    <3> QED
      BY ZenonT(60), <3>1, ConfigAssumption DEF ConfigInit, ConfigTypeOK
  <2>2. \A t \in Setters : setter[t].at = "out"
    BY ZenonT(60) DEF ConfigInit
  <2>3. OneSetter /\ \A t \in Setters : ToldOK(t)
    BY ZenonT(60), <2>2 DEF OneSetter, ToldOK
  <2>4. ListenersFollow
    BY DEF ConfigInit, ListenersFollow
  <2> QED
    BY <2>1, <2>3, <2>4 DEF ConfigInv
<1>2. ConfigInv /\ [ConfigNext]_cvars => ConfigInv'
  <2>1. ASSUME ConfigInv, UNCHANGED cvars
        PROVE  ConfigInv'
    <3>1. UNCHANGED <<m_val, told, setter, crossed>>
      BY ZenonT(60), <2>1 DEF cvars
    <3>2. ConfigTypeOK' /\ OneSetter' /\ ListenersFollow'
      BY ZenonT(60), <2>1, <3>1 DEF ConfigInv, ConfigTypeOK, OneSetter, ListenersFollow
    <3>3. \A t \in Setters : ToldOK(t)'
      BY <2>1, <3>1 DEF ConfigInv, ToldOK
    <3> QED
      BY <3>2, <3>3 DEF ConfigInv
  <2> QED
    BY ZenonT(60), <2>1, SetValueKeeps, TellKeeps, ToldKeeps DEF ConfigNext
<1> QED
  BY <1>1, <1>2, PTL DEF ConfigSpec

\* For any threads, values and listeners: when no setValue() is under way the
\* listeners keep the value of the variable, unless the last calls overlapped.
THEOREM ListenersCorrect == ConfigSpec => []ListenersFollow
<1>1. ConfigInv => ListenersFollow
  BY DEF ConfigInv
<1> QED
  BY <1>1, ConfigInvariant, PTL

-----------------------------------------------------------------------------
(* HttpBody.                                                               *)

\* A message's record, and where each of its stages stands: the body's bytes at
\* hand are those read behind the head, and with those still to read they are
\* Content-Length.
Message == [at : {"head", "split", "read", "done", "closed"}, head : Nat, consumed : Nat,
            length : Nat, len : Nat, left : Nat, placed : BOOLEAN]

BodyInv ==
    /\ body \in Message
    /\ body.at \in {"head", "split", "read", "done"} => body.placed
    /\ body.at = "split" => body.head <= body.consumed
    /\ body.at = "read" => /\ body.head + body.len = body.consumed
                           /\ body.len + body.left = body.length
    /\ body.at = "done" => body.len = body.length

LEMMA BodyInvariant == BodySpec => []BodyInv
<1>1. BodyInit => BodyInv
  BY DEF BodyInit, BodyInv, Message
<1>2. BodyInv /\ [BodyNext]_body => BodyInv'
  <2> SUFFICES ASSUME BodyInv, [BodyNext]_body PROVE BodyInv'
    OBVIOUS
  <2>0. /\ body.head \in Nat /\ body.consumed \in Nat /\ body.length \in Nat
        /\ body.len \in Nat /\ body.left \in Nat
        /\ body = [at |-> body.at, head |-> body.head, consumed |-> body.consumed,
                   length |-> body.length, len |-> body.len, left |-> body.left,
                   placed |-> body.placed]
    BY ZenonT(60) DEF BodyInv, Message
  <2>1. ASSUME NEW h \in 1..2, NEW offset \in 0..(BuffSize - 1), NEW length \in 0..MaxBody,
               HeadDone(h, offset, length)
        PROVE  BodyInv'
    <3>1. body' = [at |-> "split", head |-> body.consumed + h,
                   consumed |-> body.consumed + h + offset, length |-> length,
                   len |-> body.len, left |-> body.left, placed |-> body.placed]
      BY ZenonT(60), <2>0, <2>1 DEF HeadDone
    <3>2. body.placed = TRUE
      BY <2>1 DEF HeadDone, BodyInv, Message
    <3> QED
      BY <2>0, <3>1, <3>2, BodyAssumption DEF BodyInv, Message
  <2>2. CASE Split
    <3>1. /\ body.at = "split" /\ body.placed = TRUE /\ body.head <= body.consumed
      BY ZenonT(60), <2>2 DEF Split, BodyInv, Message
    <3>2. CASE body.length > body.consumed - body.head
      <4>1. body' = [at |-> "read", head |-> body.head, consumed |-> body.consumed,
                     length |-> body.length, len |-> body.consumed - body.head,
                     left |-> body.length - (body.consumed - body.head), placed |-> TRUE]
        BY ZenonT(60), <2>0, <2>2, <3>1, <3>2 DEF Split
      <4> QED
        BY <2>0, <3>1, <3>2, <4>1 DEF BodyInv, Message
    <3>3. CASE ~(body.length > body.consumed - body.head)
      <4>1. body' = [at |-> "done", head |-> body.head, consumed |-> body.consumed,
                     length |-> body.length, len |-> body.length, left |-> 0,
                     placed |-> TRUE]
        BY ZenonT(60), <2>0, <2>2, <3>1, <3>3 DEF Split
      <4> QED
        BY <2>0, <4>1 DEF BodyInv, Message
    <3> QED
      BY <3>2, <3>3
  <2>3. ASSUME NEW n \in 1..MaxBody, ReadFixSize(n)
        PROVE  BodyInv'
    <3>1. /\ body.at = "read" /\ n \in Nat /\ n <= body.left /\ body.placed = TRUE
          /\ body.head + body.len = body.consumed /\ body.len + body.left = body.length
      BY <2>3, BodyAssumption DEF ReadFixSize, BodyInv, Message
    <3>2. (body.placed /\ body.head + body.len = body.consumed) = TRUE
      BY <3>1
    <3>3. body' = [at |-> "read", head |-> body.head, consumed |-> body.consumed + n,
                   length |-> body.length, len |-> body.len + n, left |-> body.left - n,
                   placed |-> TRUE]
      BY ZenonT(60), <2>0, <2>3, <3>1, <3>2 DEF ReadFixSize
    <3> QED
      BY <2>0, <3>1, <3>3 DEF BodyInv, Message
  <2>4. CASE ReadDone \/ ReadFail \/ KeepAlive \/ CloseSession
    <3>1. PICK at \in {"head", "done", "closed"}, p \in BOOLEAN :
             /\ body' = [at |-> at, head |-> body.head, consumed |-> body.consumed,
                         length |-> body.length, len |-> body.len, left |-> body.left,
                         placed |-> p]
             /\ at # "closed" => p = TRUE
             /\ at = "done" => body.at = "read" /\ body.left = 0
      <4>1. body.placed \in BOOLEAN
        BY DEF BodyInv, Message
      <4>2. CASE ReadDone
        BY <2>0, <4>1, <4>2 DEF ReadDone, BodyInv, Message
      <4>3. CASE ReadFail
        BY <2>0, <4>1, <4>3 DEF ReadFail
      <4>4. CASE KeepAlive
        BY ZenonT(60), <2>0, <4>4 DEF KeepAlive
      <4>5. CASE CloseSession
        BY ZenonT(60), <2>0, <4>1, <4>5 DEF CloseSession
      <4> QED
        BY ZenonT(60), <2>4, <4>2, <4>3, <4>4, <4>5
    <3>2. at = "done" => body.len = body.length
      BY <2>0, <3>1 DEF BodyInv
    <3> QED
      BY <2>0, <3>1, <3>2 DEF BodyInv, Message
  <2>5. CASE UNCHANGED body
    BY ZenonT(60), <2>5 DEF BodyInv
  <2> QED
    BY ZenonT(60), <2>1, <2>2, <2>3, <2>4, <2>5 DEF BodyNext
<1> QED
  BY <1>1, <1>2, PTL DEF BodySpec

\* A message that is handed on has the Content-Length bytes that follow its
\* head, each in its place: for every size of the buffer and every
\* Content-Length, whatever reads the bytes came in.
THEOREM BodiesExact == BodySpec => []BodyExact
<1>1. BodyInv => BodyExact
  BY ZenonT(60) DEF BodyInv, BodyExact
<1> QED
  BY <1>1, BodyInvariant, PTL

-----------------------------------------------------------------------------
(* Hook.                                                                   *)

Stages == {"out", "try", "addTimer", "addEvent", "leaving", "held", "resumed", "check",
           "sockopt"}

Call == [id : 0..MaxCalls, kind : {"io", "connect"}, timed : BOOLEAN, at : Stages,
         cancelled : BOOLEAN, spent : 0..Timeout,
         result : {"none", "ok", "error", "timeout"}, early : BOOLEAN, refused : BOOLEAN]

CondTimer == [id : 1..MaxCalls, left : 0..Timeout, state : {"armed", "collected", "marked"}]

HookTypeOK ==
    /\ call \in Call /\ timers \subseteq CondTimer
    /\ registered \in BOOLEAN /\ scheduled \in BOOLEAN /\ ready \in BOOLEAN

\* A timer of the call under way runs out no earlier than the call's timeout,
\* and has been collected only after it; its callback, on its way to cancel the
\* event, has marked the call.
TimerOK(t) ==
    /\ t.id <= call.id
    /\ t.id = call.id /\ call.at # "out" =>
          /\ call.timed
          /\ t.state = "armed" => t.left + call.spent >= Timeout
          /\ t.state # "armed" => call.spent = Timeout
          /\ t.state = "marked" => call.cancelled

\* The event is registered, or the fiber scheduled, only while the call is
\* leaving its thread or has left it.
WaitOK ==
    /\ registered \/ scheduled => call.at \in {"leaving", "held"}
    /\ ~(registered /\ scheduled)

\* A connect() that is resumed has its connection, or its tinfo is marked.
ConnectOK ==
    call.kind = "connect" =>
        /\ call.id = 1
        /\ scheduled \/ call.at \in {"resumed", "check"} => ready \/ call.cancelled
        /\ call.at = "sockopt" => ready \/ call.refused

HookInv ==
    /\ HookTypeOK /\ \A t \in timers : TimerOK(t)
    /\ call.cancelled => call.timed /\ call.spent = Timeout
    /\ call.at # "out" => call.result = "none" /\ call.id > 0
    /\ TimeoutNotEarly /\ WaitOK /\ ConnectOK /\ ConnectIsMade

\* The same call, wherever it is.
SameCall(d, c) == d.id = c.id /\ d.kind = c.kind /\ d.timed = c.timed

LEMMA CallMoves ==
    ASSUME NEW c \in Call, NEW a \in Stages
    PROVE  LET d == [c EXCEPT !.at = a]
           IN  /\ d \in Call /\ SameCall(d, c) /\ d.at = a /\ d.cancelled = c.cancelled
               /\ d.spent = c.spent /\ d.result = c.result /\ d.refused = c.refused
BY DEF Call, SameCall

LEMMA CallRefused ==
    ASSUME NEW c \in Call
    PROVE  LET d == [c EXCEPT !.at = "sockopt", !.refused = TRUE]
           IN  /\ d \in Call /\ SameCall(d, c) /\ d.at = "sockopt" /\ d.cancelled = c.cancelled
               /\ d.spent = c.spent /\ d.result = c.result /\ d.refused = TRUE
BY ZenonT(60) DEF Call, SameCall, Stages

LEMMA CallReturns ==
    ASSUME NEW c \in Call, NEW r \in {"ok", "error", "timeout"}
    PROVE  LET d == Return(c, r)
           IN  /\ d \in Call /\ SameCall(d, c) /\ d.at = "out" /\ d.cancelled = c.cancelled
               /\ d.spent = c.spent /\ d.result = r /\ d.refused = c.refused
BY ZenonT(60) DEF Call, SameCall, Return, Stages

\* What another thread changes of a call.
LEMMA CallMarked ==
    ASSUME NEW c \in Call
    PROVE  LET d == [c EXCEPT !.cancelled = TRUE]
           IN  /\ d \in Call /\ SameCall(d, c) /\ d.at = c.at /\ d.cancelled = TRUE
               /\ d.spent = c.spent /\ d.result = c.result /\ d.refused = c.refused
BY ZenonT(60) DEF Call, SameCall

LEMMA CallEarly ==
    ASSUME NEW c \in Call, NEW b \in BOOLEAN
    PROVE  LET d == [c EXCEPT !.early = b]
           IN  /\ d \in Call /\ SameCall(d, c) /\ d.at = c.at /\ d.cancelled = c.cancelled
               /\ d.spent = c.spent /\ d.result = c.result /\ d.refused = c.refused
BY DEF Call, SameCall

LEMMA CallAges ==
    ASSUME NEW c \in Call, NEW n \in 0..Timeout
    PROVE  LET d == [c EXCEPT !.spent = n]
           IN  /\ d \in Call /\ SameCall(d, c) /\ d.at = c.at /\ d.cancelled = c.cancelled
               /\ d.spent = n /\ d.result = c.result /\ d.refused = c.refused
BY DEF Call, SameCall

\* Timers that stay as they are, of a call that neither starts nor ages.
LEMMA TimersStay ==
    ASSUME HookInv, timers' \subseteq timers, SameCall(call', call),
           call'.at # "out" => call.at # "out",
           call.cancelled => call'.cancelled, call'.spent = call.spent
    PROVE  /\ timers' \subseteq CondTimer
           /\ \A t \in timers' : TimerOK(t)'
BY ZenonT(60) DEF HookInv, HookTypeOK, TimerOK, SameCall

LEMMA EnterKeeps ==
    ASSUME HookInv, NEW kind \in {"io", "connect"}, NEW timed \in BOOLEAN, Enter(kind, timed)
    PROVE  HookInv'
<1>1. call \in Call /\ timers \subseteq CondTimer /\ call.id < MaxCalls /\ call.at = "out"
  BY DEF HookInv, HookTypeOK, Enter
<1>2. call.id \in Nat /\ call.id + 1 \in 0..MaxCalls
  BY <1>1, HookAssumption DEF Call
<1>3. call' = [id |-> call.id + 1, kind |-> kind, timed |-> timed, at |-> "try",
               cancelled |-> FALSE, spent |-> 0, result |-> "none", early |-> FALSE,
               refused |-> FALSE]
  BY ZenonT(60) DEF Enter, NoCall
<1>4. call' \in Call
  BY <1>2, <1>3, HookAssumption DEF Call, Stages
<1>5. HookTypeOK'
  BY ZenonT(60), <1>4 DEF HookInv, HookTypeOK, Enter
<1>6. \A t \in timers : TimerOK(t)'
  <2> SUFFICES ASSUME NEW t \in timers PROVE TimerOK(t)'
    OBVIOUS
  <2>1. t.id <= call.id /\ t.id \in Nat
    BY <1>1 DEF HookInv, TimerOK, CondTimer
  <2>2. t.id <= call.id + 1 /\ t.id # call.id + 1
    BY <1>2, <2>1
  <2> QED
    BY <1>3, <2>2 DEF TimerOK
<1>7. ~registered /\ ~scheduled
  BY <1>1 DEF HookInv, WaitOK
<1>8. WaitOK'
  BY ZenonT(60), <1>7 DEF Enter, WaitOK
<1>9. /\ call'.id = call.id + 1 /\ call'.kind = kind /\ call'.at = "try"
      /\ call'.cancelled = FALSE /\ call'.result = "none" /\ call'.id > 0
  BY <1>2, <1>3
<1>10. kind = "connect" => call'.id = 1
  BY <1>9 DEF Enter
<1>11. ConnectOK'
  BY ZenonT(60), <1>7, <1>9, <1>10 DEF Enter, ConnectOK
<1>12. ConnectIsMade' /\ TimeoutNotEarly'
  BY <1>9 DEF ConnectIsMade, TimeoutNotEarly
<1>13. \A t \in timers' : TimerOK(t)'
  BY ZenonT(60), <1>6 DEF Enter
<1> QED
  BY ZenonT(60), <1>5, <1>8, <1>9, <1>11, <1>12, <1>13 DEF HookInv

\* A step of the calling fiber other than a new call: what is left to show is
\* about the event and the connection.
LEMMA FiberKeeps ==
    ASSUME HookInv, call' \in Call, SameCall(call', call), timers' \subseteq timers,
           call.at # "out", call'.cancelled = call.cancelled, call'.spent = call.spent,
           registered' \in BOOLEAN, scheduled' \in BOOLEAN, ready' \in BOOLEAN,
           call'.result = "timeout" => call.cancelled,
           call'.at # "out" => call'.result = "none", WaitOK', ConnectOK', ConnectIsMade'
    PROVE  HookInv'
<1>1. HookTypeOK' /\ \A t \in timers' : TimerOK(t)'
  BY ZenonT(60), TimersStay DEF HookTypeOK
<1>2. call.cancelled => call.timed /\ call.spent = Timeout
  BY DEF HookInv
<1>3. TimeoutNotEarly' /\ (call.cancelled => call.timed /\ call.spent = Timeout)'
  BY ZenonT(60), <1>2 DEF TimeoutNotEarly, SameCall
<1> QED
  BY ZenonT(60), <1>1, <1>3 DEF HookInv, SameCall

LEMMA TryKeeps ==
    ASSUME HookInv, Try
    PROVE  HookInv'
<1>1. call \in Call /\ call.at = "try" /\ ~registered /\ ~scheduled /\ ready \in BOOLEAN
  BY ZenonT(60) DEF HookInv, HookTypeOK, WaitOK, Try
<1>2. UNCHANGED <<timers, registered, scheduled>>
  BY DEF Try
<1>3. WaitOK'
  BY ZenonT(60), <1>1, <1>2 DEF WaitOK
<1>4. call.kind = "connect" => call.id = 1
  BY DEF HookInv, ConnectOK
<1>5. CASE ready /\ call' = Return(call, "ok") /\ ready' = (call.kind = "connect")
  <2>1. /\ call' \in Call /\ SameCall(call', call) /\ call'.at = "out"
        /\ call'.cancelled = call.cancelled
        /\ call'.spent = call.spent /\ call'.result = "ok"
    BY ZenonT(60), <1>1, <1>5, CallReturns
  <2>2. ready' \in BOOLEAN /\ (call.kind = "connect" => ready')
    BY ZenonT(60), <1>5
  <2>3. ConnectOK' /\ ConnectIsMade'
    BY ZenonT(60), <1>1, <1>2, <1>4, <2>1, <2>2 DEF ConnectOK, ConnectIsMade, SameCall
  <2> QED
    BY ZenonT(60), <1>1, <1>2, <1>3, <2>1, <2>2, <2>3, FiberKeeps DEF HookInv, HookTypeOK
<1>6. CASE call' = Return(call, "error") /\ UNCHANGED ready
  <2>1. /\ call' \in Call /\ SameCall(call', call) /\ call'.at = "out"
        /\ call'.cancelled = call.cancelled
        /\ call'.spent = call.spent /\ call'.result = "error"
    BY ZenonT(60), <1>1, <1>6, CallReturns
  <2>2. ConnectOK' /\ ConnectIsMade'
    BY ZenonT(60), <1>1, <1>2, <1>4, <2>1 DEF ConnectOK, ConnectIsMade, SameCall
  <2> QED
    BY ZenonT(60), <1>1, <1>2, <1>3, <1>6, <2>1, <2>2, FiberKeeps DEF HookInv, HookTypeOK
<1>7. CASE call' = [call EXCEPT !.at = "addTimer"] /\ UNCHANGED ready
  <2>1. /\ call' \in Call /\ SameCall(call', call) /\ call'.at = "addTimer"
        /\ call'.cancelled = call.cancelled /\ call'.refused = call.refused
        /\ call'.spent = call.spent /\ call'.result = call.result
    BY ZenonT(60), <1>1, <1>7, CallMoves DEF Stages
  <2>2. call.result = "none"
    BY <1>1 DEF HookInv
  <2>3. ConnectOK' /\ ConnectIsMade'
    BY ZenonT(60), <1>1, <1>2, <1>4, <1>7, <2>1 DEF HookInv, ConnectOK, ConnectIsMade, SameCall
  <2> QED
    BY ZenonT(60), <1>1, <1>2, <1>3, <1>7, <2>1, <2>2, <2>3, FiberKeeps DEF HookInv, HookTypeOK
<1> QED
  BY ZenonT(60), <1>5, <1>6, <1>7 DEF Try

LEMMA AddTimerKeeps ==
    ASSUME HookInv, AddTimer
    PROVE  HookInv'
<1>0. PICK t : t = [id |-> call.id, left |-> Timeout, state |-> "armed"]
  BY ZenonT(60)
<1>1. call \in Call /\ call.at = "addTimer" /\ ~registered /\ ~scheduled /\ call.result = "none"
  BY ZenonT(60) DEF HookInv, HookTypeOK, WaitOK, AddTimer
<1>2. /\ call' \in Call /\ SameCall(call', call) /\ call'.at = "addEvent"
      /\ call'.cancelled = call.cancelled /\ call'.refused = call.refused
      /\ call'.spent = call.spent /\ call'.result = "none"
  BY ZenonT(60), <1>1, CallMoves DEF AddTimer, Stages
<1>3. PICK new \in {{}, {t}} : timers' = timers \cup new /\ (new = {t} => call.timed)
  BY ZenonT(60), <1>0 DEF AddTimer
<1>4. ASSUME call.timed, call.id \in 1..MaxCalls
      PROVE  t \in CondTimer /\ TimerOK(t)'
  <2>1. t \in CondTimer /\ t.id = call.id /\ t.left = Timeout /\ t.state = "armed"
    BY <1>0, <1>4, HookAssumption DEF CondTimer
  <2>2. call.spent \in Nat /\ Timeout + call.spent >= Timeout /\ call.id <= call.id
    BY <1>1, <1>4, HookAssumption DEF Call
  <2> QED
    BY ZenonT(60), <1>2, <1>4, <2>1, <2>2 DEF TimerOK, SameCall
<1>5. call.id \in 1..MaxCalls
  <2>1. call.id \in 0..MaxCalls
    BY <1>1 DEF Call
  <2> QED
    BY <1>1, <2>1, HookAssumption DEF HookInv
<1>6. \A u \in timers : u \in CondTimer /\ TimerOK(u)'
  BY ZenonT(60), <1>1, <1>2 DEF HookInv, HookTypeOK, TimerOK, SameCall
<1>7. timers' \subseteq CondTimer /\ \A u \in timers' : TimerOK(u)'
  BY ZenonT(60), <1>3, <1>4, <1>5, <1>6
<1>8. UNCHANGED <<registered, scheduled, ready>>
  BY DEF AddTimer
<1>9. HookTypeOK' /\ WaitOK' /\ ConnectOK' /\ ConnectIsMade' /\ TimeoutNotEarly'
  BY ZenonT(60), <1>1, <1>2, <1>7, <1>8
     DEF HookInv, HookTypeOK, WaitOK, ConnectOK, ConnectIsMade, TimeoutNotEarly, SameCall
<1>10. call'.id > 0
  BY <1>2, <1>5, HookAssumption DEF SameCall
<1> QED
  BY ZenonT(60), <1>2, <1>7, <1>9, <1>10 DEF HookInv, SameCall

LEMMA AddEventKeeps ==
    ASSUME HookInv, AddEvent
    PROVE  HookInv'
<1>1. /\ call \in Call /\ call.at = "addEvent" /\ ~registered /\ ~scheduled
      /\ ready \in BOOLEAN /\ call.result = "none"
  BY ZenonT(60) DEF HookInv, HookTypeOK, WaitOK, AddEvent
<1>2. UNCHANGED <<scheduled, ready>> /\ timers' \subseteq timers
  BY ZenonT(60) DEF AddEvent, Disarmed
<1>3. PICK a \in {"leaving", "out", "sockopt"} :
         /\ call' \in Call /\ SameCall(call', call) /\ call'.at = a
         /\ call'.cancelled = call.cancelled /\ call'.spent = call.spent
         /\ call'.result \in {"none", "error"} /\ (a # "out" => call'.result = "none")
         /\ registered' = (a = "leaving") /\ (a = "sockopt" => call'.refused)
  <2>1. CASE registered' = TRUE /\ call' = [call EXCEPT !.at = "leaving"]
    BY ZenonT(60), <1>1, <2>1, CallMoves DEF Stages
  <2>2. CASE UNCHANGED registered /\ call' = Return(call, "error")
    <3>1. registered' = FALSE
      BY <1>1, <2>2 DEF HookInv, HookTypeOK
    <3> QED
      BY ZenonT(60), <1>1, <2>2, <3>1, CallReturns
  <2>3. CASE UNCHANGED registered /\ call' = [call EXCEPT !.at = "sockopt", !.refused = TRUE]
    <3>1. registered' = FALSE
      BY <1>1, <2>3 DEF HookInv, HookTypeOK
    <3> QED
      BY ZenonT(60), <1>1, <2>3, <3>1, CallRefused
  <2> QED
    BY ZenonT(60), <2>1, <2>2, <2>3 DEF AddEvent
<1>4. registered' \in BOOLEAN /\ scheduled' \in BOOLEAN /\ ready' \in BOOLEAN
  BY ZenonT(60), <1>2, <1>3 DEF HookInv, HookTypeOK
<1>5. WaitOK' /\ ConnectOK' /\ ConnectIsMade'
  BY ZenonT(60), <1>1, <1>2, <1>3 DEF HookInv, WaitOK, ConnectOK, ConnectIsMade, SameCall
<1> QED
  BY ZenonT(60), <1>1, <1>2, <1>3, <1>4, <1>5, FiberKeeps

LEMMA WaitKeeps ==
    ASSUME HookInv, Leave \/ Wake \/ CancelTimer
    PROVE  HookInv'
<1>1. /\ call \in Call /\ call.at # "out" /\ call.result = "none"
      /\ registered \in BOOLEAN /\ scheduled \in BOOLEAN /\ ready \in BOOLEAN
  BY ZenonT(60) DEF HookInv, HookTypeOK, WaitOK, Leave, Wake, CancelTimer
<1>2. ASSUME NEW a \in {"held", "resumed", "check"}, call' = [call EXCEPT !.at = a],
             timers' \subseteq timers, UNCHANGED <<registered, ready>>,
             scheduled' \in BOOLEAN, call'.at = a => WaitOK' /\ ConnectOK'
      PROVE  HookInv'
  <2>0. a \in Stages
    BY <1>2 DEF Stages
  <2>1. /\ call' \in Call /\ SameCall(call', call) /\ call'.at = a
        /\ call'.cancelled = call.cancelled /\ call'.spent = call.spent
        /\ call'.result = "none" /\ call'.refused = call.refused
    BY ZenonT(60), <1>1, <1>2, <2>0, CallMoves
  <2>2. ConnectIsMade'
    BY ZenonT(60), <2>1 DEF ConnectIsMade
  <2> QED
    BY ZenonT(60), <1>1, <1>2, <2>1, <2>2, FiberKeeps
<1>3. CASE Leave
  <2>1. call.at = "leaving" /\ call' = [call EXCEPT !.at = "held"] /\ timers' = timers
        /\ UNCHANGED <<scheduled, registered, ready>>
    BY <1>3 DEF Leave
  <2>2. SameCall(call', call) /\ call'.cancelled = call.cancelled /\ call'.at = "held"
    BY ZenonT(60), <1>1, <2>1, CallMoves DEF Stages
  <2>3. WaitOK' /\ ConnectOK'
    BY ZenonT(60), <2>1, <2>2 DEF HookInv, WaitOK, ConnectOK, SameCall
  <2> QED
    BY ZenonT(60), <1>1, <1>2, <2>1, <2>3
<1>4. CASE Wake
  <2>1. call.at = "held" /\ call' = [call EXCEPT !.at = "resumed"] /\ timers' = timers
        /\ UNCHANGED <<registered, ready>> /\ scheduled /\ scheduled' = FALSE
    BY <1>4 DEF Wake
  <2>2. SameCall(call', call) /\ call'.cancelled = call.cancelled /\ call'.at = "resumed"
    BY ZenonT(60), <1>1, <2>1, CallMoves DEF Stages
  <2>3. WaitOK' /\ ConnectOK'
    BY ZenonT(60), <2>1, <2>2 DEF HookInv, WaitOK, ConnectOK, SameCall
  <2> QED
    BY ZenonT(60), <1>1, <1>2, <2>1, <2>3
<1>5. CASE CancelTimer
  <2>1. call.at = "resumed" /\ call' = [call EXCEPT !.at = "check"] /\ timers' \subseteq timers
        /\ UNCHANGED <<scheduled, registered, ready>>
    BY ZenonT(60), <1>5 DEF CancelTimer, Disarmed
  <2>2. SameCall(call', call) /\ call'.cancelled = call.cancelled /\ call'.at = "check"
    BY ZenonT(60), <1>1, <2>1, CallMoves DEF Stages
  <2>3. WaitOK' /\ ConnectOK'
    BY ZenonT(60), <2>1, <2>2 DEF HookInv, WaitOK, ConnectOK, SameCall
  <2> QED
    BY ZenonT(60), <1>1, <1>2, <2>1, <2>3
<1> QED
  BY ZenonT(60), <1>3, <1>4, <1>5

LEMMA CheckKeeps ==
    ASSUME HookInv, Check \/ SockOpt
    PROVE  HookInv'
<1>1. /\ call \in Call /\ call.at \in {"check", "sockopt"} /\ call.result = "none"
      /\ registered \in BOOLEAN /\ scheduled \in BOOLEAN /\ ready \in BOOLEAN
      /\ ~registered /\ ~scheduled /\ UNCHANGED <<timers, registered, scheduled, ready>>
  BY ZenonT(60) DEF HookInv, HookTypeOK, WaitOK, Check, SockOpt
<1>2. PICK a \in {"out", "try", "sockopt"} :
         /\ call' \in Call /\ SameCall(call', call) /\ call'.at = a
         /\ call'.cancelled = call.cancelled /\ call'.spent = call.spent
         /\ call'.result = "timeout" => call.cancelled
         /\ a # "out" => call'.result = "none"
         /\ call'.refused = call.refused
         /\ a = "sockopt" => call.at = "check" /\ ~call.cancelled
         /\ call'.result = "ok" => call.at = "sockopt"
  <2>1. CASE Check /\ call.cancelled
    <3>1. call' = Return(call, "timeout")
      BY <2>1 DEF Check
    <3>2. /\ call' \in Call /\ SameCall(call', call) /\ call'.at = "out"
          /\ call'.cancelled = call.cancelled /\ call'.spent = call.spent
          /\ call'.result = "timeout" /\ call'.refused = call.refused
      BY ZenonT(60), <1>1, <3>1, CallReturns
    <3> QED
      BY <2>1, <3>2
  <2>2. CASE Check /\ ~call.cancelled
    <3>1. PICK a \in {"try", "sockopt"} : call' = [call EXCEPT !.at = a]
      BY <2>2 DEF Check
    <3>2. a \in Stages /\ call.at = "check"
      BY <2>2 DEF Stages, Check
    <3>3. /\ call' \in Call /\ SameCall(call', call) /\ call'.at = a
          /\ call'.cancelled = call.cancelled /\ call'.spent = call.spent
          /\ call'.result = "none" /\ call'.refused = call.refused
      BY ZenonT(60), <1>1, <3>1, <3>2, CallMoves
    <3> QED
      BY <2>2, <3>2, <3>3
  <2>3. CASE SockOpt
    <3>1. PICK r \in {"ok", "error"} : call' = Return(call, r)
      BY <2>3 DEF SockOpt
    <3>2. r \in {"ok", "error", "timeout"} /\ r # "timeout" /\ call.at = "sockopt"
      BY <2>3 DEF SockOpt
    <3>3. /\ call' \in Call /\ SameCall(call', call) /\ call'.at = "out"
          /\ call'.cancelled = call.cancelled /\ call'.spent = call.spent
          /\ call'.result = r /\ call'.refused = call.refused
      BY ZenonT(60), <1>1, <3>1, <3>2, CallReturns
    <3> QED
      BY <3>2, <3>3
  <2> QED
    BY ZenonT(60), <2>1, <2>2, <2>3
<1>3. WaitOK' /\ ConnectOK' /\ ConnectIsMade'
  BY ZenonT(60), <1>1, <1>2 DEF HookInv, WaitOK, ConnectOK, ConnectIsMade, SameCall
<1>4. call.at # "out"
  BY <1>1
<1> QED
  BY ZenonT(60), <1>1, <1>2, <1>3, <1>4, FiberKeeps

\* A step of another thread that leaves the timers to the lemmas below.
LEMMA ThreadKeeps ==
    ASSUME HookInv, call' \in Call, SameCall(call', call), call'.at = call.at,
           call'.spent = call.spent, call'.result = call.result,
           call'.refused = call.refused, call.cancelled => call'.cancelled,
           call'.cancelled => call.timed /\ call.spent = Timeout,
           timers' \subseteq CondTimer, \A t \in timers' : TimerOK(t)',
           registered' \in BOOLEAN, scheduled' \in BOOLEAN, ready' \in BOOLEAN,
           WaitOK', ready => ready',
           call.kind = "connect" /\ scheduled' => scheduled \/ ready' \/ call'.cancelled
    PROVE  HookInv'
<1>1. HookTypeOK'
  BY ZenonT(60) DEF HookTypeOK
<1>2. ConnectOK' /\ ConnectIsMade' /\ TimeoutNotEarly'
  BY ZenonT(60) DEF HookInv, ConnectOK, ConnectIsMade, TimeoutNotEarly, SameCall
<1>3. (call.at # "out" => call.result = "none" /\ call.id > 0)'
  BY ZenonT(60) DEF HookInv, SameCall
<1> QED
  BY ZenonT(60), <1>1, <1>2, <1>3 DEF HookInv, SameCall

LEMMA CollectKeeps ==
    ASSUME HookInv, NEW t \in timers, Collect(t)
    PROVE  HookInv'
<1>1. PICK u : u = [t EXCEPT !.state = "collected"]
  BY ZenonT(60)
<1>2. /\ t \in CondTimer /\ t.state = "armed" /\ t.left = 0
      /\ timers' = (timers \ {t}) \cup {u}
      /\ UNCHANGED <<call, registered, scheduled, ready>>
  BY ZenonT(60), <1>1 DEF HookInv, HookTypeOK, Collect
<1>3. u \in CondTimer /\ u.id = t.id /\ u.state = "collected"
  BY ZenonT(60), <1>1, <1>2 DEF CondTimer
<1>4. 0 + call.spent >= Timeout => call.spent = Timeout
  BY HookAssumption DEF HookInv, HookTypeOK, Call
<1>5. TimerOK(u)
  BY ZenonT(60), <1>2, <1>3, <1>4 DEF HookInv, TimerOK
<1>6. timers' \subseteq CondTimer /\ \A w \in timers' : TimerOK(w)'
  BY ZenonT(60), <1>2, <1>3, <1>5 DEF HookInv, HookTypeOK, TimerOK
<1>7. WaitOK' /\ SameCall(call', call)
  BY ZenonT(60), <1>2 DEF HookInv, WaitOK, SameCall
<1> QED
  BY ZenonT(60), <1>2, <1>6, <1>7, ThreadKeeps DEF HookInv, HookTypeOK

LEMMA MarkKeeps ==
    ASSUME HookInv, NEW t \in timers, MarkTinfo(t)
    PROVE  HookInv'
<1>1. PICK u : u = [t EXCEPT !.state = "marked"]
  BY ZenonT(60)
<1>2. /\ t \in CondTimer /\ t.state = "collected" /\ call \in Call
      /\ UNCHANGED <<registered, scheduled, ready>>
  BY ZenonT(60) DEF HookInv, HookTypeOK, MarkTinfo
<1>3. u \in CondTimer /\ u.id = t.id /\ u.state = "marked"
  BY <1>1, <1>2 DEF CondTimer
<1>4. CASE t.id = call.id /\ call.at # "out" /\ ~call.cancelled
  <2>1. /\ call' = [call EXCEPT !.cancelled = TRUE]
        /\ timers' = (timers \ {t}) \cup {u}
    BY ZenonT(60), <1>1, <1>4 DEF MarkTinfo
  <2>2. /\ call' \in Call /\ SameCall(call', call) /\ call'.at = call.at
        /\ call'.cancelled = TRUE /\ call'.spent = call.spent
        /\ call'.result = call.result /\ call'.refused = call.refused
    BY ZenonT(60), <1>2, <2>1, CallMarked
  <2>3. call.timed /\ call.spent = Timeout
    BY ZenonT(60), <1>2, <1>4 DEF HookInv, TimerOK
  <2>4. TimerOK(u)'
    BY ZenonT(60), <1>2, <1>3, <1>4, <2>2, <2>3 DEF HookInv, TimerOK, SameCall
  <2>5. \A w \in timers : TimerOK(w)'
    BY ZenonT(60), <2>2 DEF HookInv, TimerOK, SameCall
  <2>6. timers' \subseteq CondTimer /\ \A w \in timers' : TimerOK(w)'
    BY ZenonT(60), <1>3, <2>1, <2>4, <2>5 DEF HookInv, HookTypeOK
  <2>7. WaitOK'
    BY ZenonT(60), <1>2, <2>2 DEF HookInv, WaitOK
  <2> QED
    BY ZenonT(60), <1>2, <2>2, <2>3, <2>6, <2>7, ThreadKeeps DEF HookInv, HookTypeOK
<1>5. CASE ~(t.id = call.id /\ call.at # "out" /\ ~call.cancelled)
  <2>1. timers' \subseteq timers /\ call' = call
    BY ZenonT(60), <1>5 DEF MarkTinfo
  <2>2. SameCall(call', call) /\ WaitOK'
    BY ZenonT(60), <1>2, <2>1 DEF HookInv, WaitOK, SameCall
  <2>3. timers' \subseteq CondTimer /\ \A w \in timers' : TimerOK(w)'
    BY ZenonT(60), <2>1, <2>2, TimersStay
  <2> QED
    BY ZenonT(60), <1>2, <2>1, <2>2, <2>3, ThreadKeeps DEF HookInv, HookTypeOK
<1> QED
  BY ZenonT(60), <1>4, <1>5

LEMMA CancelEventKeeps ==
    ASSUME HookInv, NEW t \in timers, CancelEvent(t)
    PROVE  HookInv'
<1>1. /\ t \in CondTimer /\ t.state = "marked" /\ call \in Call /\ call.early \in BOOLEAN
      /\ timers' \subseteq timers /\ UNCHANGED ready /\ TimerOK(t)
  BY DEF HookInv, HookTypeOK, CancelEvent, Call
<1>2. PICK b \in BOOLEAN : call' = [call EXCEPT !.early = b]
  BY ZenonT(60), <1>1 DEF CancelEvent
<1>3. /\ call' \in Call /\ SameCall(call', call) /\ call'.at = call.at
      /\ call'.cancelled = call.cancelled /\ call'.spent = call.spent
      /\ call'.result = call.result /\ call'.refused = call.refused
  BY ZenonT(60), <1>1, <1>2, CallEarly
<1>4. timers' \subseteq CondTimer /\ \A w \in timers' : TimerOK(w)'
  BY ZenonT(60), <1>1, <1>3, TimersStay
<1>5. CASE registered
  <2>1. registered' = FALSE /\ scheduled' = TRUE
    BY <1>5 DEF CancelEvent
  <2>2. call.at \in {"leaving", "held"}
    BY ZenonT(60), <1>5 DEF HookInv, WaitOK
  <2>3. ASSUME call.kind = "connect"
        PROVE  call.cancelled
    <3>1. call.id = 1
      BY ZenonT(60), <2>3 DEF HookInv, ConnectOK
    <3>2. t.id = call.id
      BY <1>1, <3>1, HookAssumption DEF TimerOK, CondTimer
    <3> QED
      BY ZenonT(60), <1>1, <2>2, <3>2 DEF TimerOK
  <2>4. WaitOK'
    BY ZenonT(60), <1>3, <2>1, <2>2 DEF WaitOK
  <2>5. registered' \in BOOLEAN /\ scheduled' \in BOOLEAN /\ ready' \in BOOLEAN
    BY ZenonT(60), <1>1, <2>1 DEF HookInv, HookTypeOK
  <2> QED
    BY ZenonT(60), <1>1, <1>3, <1>4, <2>3, <2>4, <2>5, ThreadKeeps DEF HookInv
<1>6. CASE ~registered
  <2>1. UNCHANGED <<registered, scheduled>>
    BY <1>6 DEF CancelEvent
  <2>2. WaitOK'
    BY ZenonT(60), <1>3, <2>1 DEF HookInv, WaitOK
  <2> QED
    BY ZenonT(60), <1>1, <1>3, <1>4, <2>1, <2>2, ThreadKeeps DEF HookInv, HookTypeOK
<1> QED
  BY ZenonT(60), <1>5, <1>6

LEMMA EventKeeps ==
    ASSUME HookInv, Trigger \/ Arrive
    PROVE  HookInv'
<1>1. call' = call /\ call \in Call /\ timers' = timers /\ SameCall(call', call)
  BY ZenonT(60) DEF HookInv, HookTypeOK, Trigger, Arrive, SameCall
<1>2. timers' \subseteq CondTimer /\ \A w \in timers' : TimerOK(w)'
  BY ZenonT(60), <1>1, TimersStay
<1>3. WaitOK' /\ (ready => ready') /\ (scheduled' => scheduled \/ ready')
  <2>1. CASE Trigger
    BY ZenonT(60), <1>1, <2>1 DEF HookInv, HookTypeOK, WaitOK, Trigger
  <2>2. CASE Arrive
    BY <1>1, <2>2 DEF HookInv, HookTypeOK, WaitOK, Arrive
  <2> QED
    BY ZenonT(60), <2>1, <2>2
<1>4. registered' \in BOOLEAN /\ scheduled' \in BOOLEAN /\ ready' \in BOOLEAN
  BY ZenonT(60) DEF HookInv, HookTypeOK, Trigger, Arrive
<1> QED
  BY ZenonT(60), <1>1, <1>2, <1>3, <1>4, ThreadKeeps DEF HookInv

LEMMA TickKeeps ==
    ASSUME HookInv, Tick
    PROVE  HookInv'
<1>1. call \in Call /\ UNCHANGED <<registered, scheduled, ready>>
  BY DEF HookInv, HookTypeOK, Tick
<1>2. PICK n : n = IF call.spent < Timeout /\ call.at # "out" THEN call.spent + 1 ELSE call.spent
  BY ZenonT(60)
<1>3. call.spent \in 0..Timeout /\ n \in 0..Timeout /\ (call.spent = Timeout => n = Timeout)
  BY <1>1, <1>2, HookAssumption DEF Call
<1>4. /\ call' \in Call /\ SameCall(call', call) /\ call'.at = call.at
      /\ call'.cancelled = call.cancelled /\ call'.spent = n
      /\ call'.result = call.result /\ call'.refused = call.refused
  BY ZenonT(60), <1>1, <1>2, <1>3, CallAges DEF Tick
<1>5. ASSUME NEW w \in timers'
      PROVE  w \in CondTimer /\ TimerOK(w)'
  <2>1. PICK t \in timers : w = [t EXCEPT !.left = IF t.left > 0 THEN t.left - 1 ELSE 0]
    BY ZenonT(60), <1>5 DEF Tick
  <2>2. t \in CondTimer /\ TimerOK(t)
    BY DEF HookInv, HookTypeOK
  <2>3. t.left \in 0..Timeout
    BY <2>2 DEF CondTimer
  <2>4. /\ w \in CondTimer /\ w.id = t.id /\ w.state = t.state
        /\ w.left = IF t.left > 0 THEN t.left - 1 ELSE 0
    BY <2>1, <2>2, <2>3, HookAssumption DEF CondTimer
  <2>5. t.left + call.spent >= Timeout /\ call.at # "out" => w.left + n >= Timeout
    BY <1>2, <1>3, <2>3, <2>4, HookAssumption
  <2> QED
    BY ZenonT(60), <1>3, <1>4, <2>2, <2>4, <2>5 DEF TimerOK, SameCall
<1>6. HookTypeOK'
  BY ZenonT(60), <1>1, <1>4, <1>5 DEF HookInv, HookTypeOK
<1>7. WaitOK' /\ ConnectOK' /\ ConnectIsMade' /\ TimeoutNotEarly'
  BY ZenonT(60), <1>1, <1>3, <1>4
     DEF HookInv, WaitOK, ConnectOK, ConnectIsMade, TimeoutNotEarly, SameCall
<1>8. /\ (call.cancelled => call.timed /\ call.spent = Timeout)'
      /\ (call.at # "out" => call.result = "none" /\ call.id > 0)'
  BY ZenonT(60), <1>3, <1>4 DEF HookInv, SameCall
<1> QED
  BY ZenonT(60), <1>5, <1>6, <1>7, <1>8 DEF HookInv

LEMMA HookInvariant == HookSpec => []HookInv
<1>1. HookInit => HookInv
  <2> SUFFICES ASSUME HookInit PROVE HookInv
    OBVIOUS
  <2>1. NoCall \in Call
    BY HookAssumption DEF NoCall, Call, Stages
  <2>2. HookTypeOK
    BY ZenonT(60), <2>1 DEF HookInit, HookTypeOK
  <2>3. /\ call.cancelled = FALSE /\ call.at = "out" /\ call.result = "none"
        /\ call.kind = "io" /\ timers = {} /\ registered = FALSE /\ scheduled = FALSE
    BY DEF HookInit, NoCall
  <2> QED
    BY ZenonT(60), <2>2, <2>3 DEF HookInv, WaitOK, ConnectOK, ConnectIsMade, TimeoutNotEarly
<1>2. HookInv /\ [HookNext]_hvars => HookInv'
  <2>1. ASSUME HookInv, UNCHANGED hvars
        PROVE  HookInv'
    BY ZenonT(60), <2>1
       DEF hvars, HookInv, HookTypeOK, TimerOK, WaitOK, ConnectOK, ConnectIsMade, TimeoutNotEarly
  <2>2. HookInv /\ HookFiber => HookInv'
    BY ZenonT(60), TryKeeps, AddTimerKeeps, AddEventKeeps, WaitKeeps, CheckKeeps DEF HookFiber
  <2>3. ASSUME HookInv, NEW t \in timers, TimerStep(t)
        PROVE  HookInv'
    BY ZenonT(60), <2>3, CollectKeeps, MarkKeeps, CancelEventKeeps DEF TimerStep
  <2> QED
    BY ZenonT(60), <2>1, <2>2, <2>3, EnterKeeps, EventKeeps, TickKeeps DEF HookNext
<1> QED
  BY <1>1, <1>2, PTL DEF HookSpec

\* A blocking call fails with ETIMEDOUT only when its timeout has passed since
\* it was made, for every timeout and every number of calls on the descriptor,
\* whatever callbacks earlier calls and earlier waits of the call left behind.
THEOREM TimeoutsNotEarly == HookSpec => []TimeoutNotEarly
<1>1. HookInv => TimeoutNotEarly
  BY DEF HookInv
<1> QED
  BY <1>1, HookInvariant, PTL

\* connect() with a timeout reports success only on a connection that is made,
\* or when it could not register for the event.
THEOREM ConnectsAreMade == HookSpec => []ConnectIsMade
<1>1. HookInv => ConnectIsMade
  BY DEF HookInv
<1> QED
  BY <1>1, HookInvariant, PTL
=============================================================================
