-------------------------------- MODULE TcpSack --------------------------------
(***************************************************************************)
(* The SACK blocks of an endpoint, tcp/sack.go, on top of its receiver:    *)
(* what the acks say of the segments beyond a gap.  The worker updates     *)
(* them for every segment that cannot be consumed, also if there is no     *)
(* room to keep it, and trims them whenever something is consumed.         *)
(***************************************************************************)
EXTENDS TcpReceiverAnyPeer, SequencesExt

CONSTANT BlockLimits   \* what MaxSACKBlocks may be

ASSUME SackAssumption == BlockLimits \subseteq Nat \ {0}

VARIABLES
  MaxSACKBlocks,  \* a constant of the code
  blocks,         \* SACKInfo: pairs of a start and an end, the latest first
  refused         \* history: bytes for which the heap had no room

sackVars == <<MaxSACKBlocks, blocks, refused>>

SackInit == RcvInit /\ MaxSACKBlocks \in BlockLimits /\ blocks = <<>> /\ refused = {}

Meet(a, b) == a[1] <= b[2] /\ b[1] <= a[2]

Hull(a, b) == <<IF b[1] < a[1] THEN b[1] ELSE a[1], MaxOf(a[2], b[2])>>

\* Mistake: a block that touches the new one is kept beside it.
AbsorbUnlessTouching(acc, b, nxt) ==
  IF b[2] <= b[1] \/ b[1] <= nxt THEN acc
  ELSE IF acc[1][1] < b[2] /\ b[1] < acc[1][2] THEN <<Hull(acc[1], b), acc[2]>>
  ELSE <<acc[1], Append(acc[2], b)>>

\* A step of the loop of UpdateSACKBlocks: acc is the new block with all that
\* it met so far, and the blocks that are kept.  A block that is not beyond
\* nxt is dropped, one that meets the new block is merged into it.
Absorb(acc, b, nxt) ==
  IF b[2] <= b[1] \/ b[1] <= nxt THEN acc
  ELSE IF Meet(acc[1], b) THEN <<Hull(acc[1], b), acc[2]>>
  ELSE <<acc[1], Append(acc[2], b)>>

\* The loop.
Merged(old, new, nxt) ==
  FoldLeft(LAMBDA acc, b : Absorb(acc, b, nxt), <<new, <<>> >>, old)

\* UpdateSACKBlocks.
UpdateSACKBlocks(old, new, nxt) ==
  LET m    == Merged(old, new, nxt)
      kept == IF Len(m[2]) = MaxSACKBlocks THEN Front(m[2]) ELSE m[2]
  IN  IF old = <<>> THEN <<new>>
      ELSE IF m[1][1] <= nxt THEN m[2] ELSE <<m[1]>> \o kept

\* A step of the loop of TrimSACKBlockList: a block is shrunk to what lies
\* beyond nxt, and goes if that is nothing.
Shrink(acc, b, nxt) == IF b[2] <= nxt THEN acc
                       ELSE Append(acc, <<MaxOf(b[1], nxt), b[2]>>)

TrimSACKBlockList(old, nxt) ==
  FoldLeft(LAMBDA acc, b : Shrink(acc, b, nxt), <<>>, old)

-----------------------------------------------------------------------------
\* consumeSegment trims before it counts the FIN.
Trims == /\ blocks' = TrimSACKBlockList(blocks, Len(rcvd') + 1)
         /\ refused' = {n \in refused : n > Len(rcvd')}
         /\ UNCHANGED MaxSACKBlocks

SackInOrder(m) == HandleInOrder(m) /\ Trims

SackOutOfOrder(m) ==
  /\ HandleOutOfOrder(m)
  /\ IF m.len > 0 \/ m.flags = "fin"
     THEN /\ blocks' = UpdateSACKBlocks(blocks, <<m.seq, m.seq + m.len>>, rcvNxt)
          /\ refused' = IF pending' = pending
                        THEN refused \cup (m.seq..(m.seq + m.len - 1)) ELSE refused
     ELSE UNCHANGED <<blocks, refused>>
  /\ UNCHANGED MaxSACKBlocks

SackOther(m) == /\ HandleIgnored(m) \/ HandleReset(m) \/ HandleUnacceptable(m)
                /\ UNCHANGED sackVars

SackHandleSegment(m) == SackInOrder(m) \/ SackOutOfOrder(m) \/ SackOther(m)

SackDrainConsume == DrainConsume /\ Trims

SackElse == /\ DrainSkip \/ DrainStop \/ EndBatch \/ NonZeroWindow \/ Read
            /\ UNCHANGED sackVars

SackNext == \/ \E m \in DataSegments : SackHandleSegment(m)
            \/ \E m \in ResetSegments : SackHandleSegment(m)
            \/ SackDrainConsume \/ SackElse

SackSpec == SackInit /\ [][SackNext]_<<rcvVars, sackVars>>

-----------------------------------------------------------------------------
Held == UNION {pending[i].seq..(pending[i].seq + pending[i].len - 1) :
                 i \in DOMAIN pending}

\* The blocks lie apart: none meets another, in whatever order the segments
\* that they were made of arrived (sack.go:30).
BlocksApart ==
  /\ Len(blocks) <= MaxSACKBlocks
  /\ \A i, j \in DOMAIN blocks : i # j => ~Meet(blocks[i], blocks[j])

\* They cover nothing but bytes that still wait in the heap, or that it
\* refused: nothing that is consumed, and nothing never received.
SackIsHonest ==
  \A i \in DOMAIN blocks :
    (blocks[i][1]..(blocks[i][2] - 1)) \subseteq Held \cup refused

\* The blocks that are reported are sound.
SackIsSound == BlocksApart /\ SackIsHonest
=============================================================================
