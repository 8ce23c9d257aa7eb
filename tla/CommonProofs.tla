---------------------------- MODULE CommonProofs ----------------------------
(***************************************************************************)
(* When hash keeps pointers apart, as f_injective of common.v assumes.     *)
(***************************************************************************)
EXTENDS Common, TLAPS

\* Modulo TABLE_SIZE the multiplier, 9649, has the inverse 849.
LEMMA Invertible ==
    ASSUME NEW a \in 0 .. TABLE_SIZE - 1, NEW b \in 0 .. TABLE_SIZE - 1,
           (a * 9649) % TABLE_SIZE = (b * 9649) % TABLE_SIZE
    PROVE  a = b
<1>. DEFINE i == (a * 9649) \div TABLE_SIZE
            j == (b * 9649) \div TABLE_SIZE
<1>1. i \in Int /\ j \in Int
  BY DEF TABLE_SIZE
<1>2. a * 9649 = (16384 * i) + ((a * 9649) % 16384)
  BY DEF TABLE_SIZE
<1>3. b * 9649 = (16384 * j) + ((b * 9649) % 16384)
  BY DEF TABLE_SIZE
<1>4. (a - b) * 9649 = 16384 * (i - j)
  BY <1>1, <1>2, <1>3 DEF TABLE_SIZE
<1>. HIDE DEF i, j
<1>5. a - b = 16384 * (849 * (i - j) - 500 * (a - b))
  BY <1>1, <1>4 DEF TABLE_SIZE
<1>. DEFINE k == 849 * (i - j) - 500 * (a - b)
<1>6. k \in Int /\ a - b = 16384 * k
  BY <1>1, <1>5 DEF TABLE_SIZE
<1>. HIDE DEF k
<1>. QED
  BY <1>6 DEF TABLE_SIZE

\* Two nodes have one slot of the table exactly if their addresses differ by a
\* multiple of its size: the multiplication of common.h's hash loses nothing
\* and adds nothing, so of 16-byte aligned nodes 1024 can be kept apart.
THEOREM SameSlot ==
    ASSUME NEW p \in Nat \ {0}, NEW q \in Nat \ {0}
    PROVE  hash(p) = hash(q) <=> p % TABLE_SIZE = q % TABLE_SIZE
<1>1. Multiplier % TABLE_SIZE = 9649
  BY DEF Multiplier, TABLE_SIZE
<1>2. /\ hash(p) = ((p % TABLE_SIZE) * 9649) % TABLE_SIZE
      /\ hash(q) = ((q % TABLE_SIZE) * 9649) % TABLE_SIZE
  BY <1>1 DEF hash
<1>3. p % TABLE_SIZE \in 0 .. TABLE_SIZE - 1 /\ q % TABLE_SIZE \in 0 .. TABLE_SIZE - 1
  BY DEF TABLE_SIZE
<1>. QED
  BY <1>2, <1>3, Invertible

\* The slot of NULL is shared by the nodes at multiples of the table's size.
THEOREM NullSlot ==
    ASSUME NEW p \in Nat \ {0}
    PROVE  hash(p) = hash(0) <=> p % TABLE_SIZE = 0
<1>1. Multiplier % TABLE_SIZE = 9649
  BY DEF Multiplier, TABLE_SIZE
<1>2. hash(p) = ((p % TABLE_SIZE) * 9649) % TABLE_SIZE /\ hash(0) = 0
  BY <1>1 DEF hash
<1>3. p % TABLE_SIZE \in 0 .. TABLE_SIZE - 1 /\ 0 \in 0 .. TABLE_SIZE - 1
  BY DEF TABLE_SIZE
<1>4. (0 * 9649) % TABLE_SIZE = 0
  BY DEF TABLE_SIZE
<1>. QED
  BY <1>2, <1>3, <1>4, Invertible
=============================================================================
