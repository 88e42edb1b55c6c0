---------------------------- MODULE StackArena ----------------------------
(***************************************************************************)
(* ArenaAllocator and StackArena (src/src/memory/arena_allocator.cpp and   *)
(* stack_arena.cpp): a chain of blocks, each filled from its start by      *)
(* bumping an offset, and checkpoints that bring the chain back to an      *)
(* earlier position.                                                       *)
(*                                                                         *)
(* A block is its position in the chain.  Addresses are offsets from the   *)
(* block's base, which aligned_alloc gives as a multiple of its own        *)
(* alignment only: base is the residue that an over-aligned request sees.  *)
(* An allocation is live from the caller's view until the arena is reset   *)
(* or cleared, or a checkpoint older than it is restored.                  *)
(***************************************************************************)
EXTENDS Integers, Sequences, SequencesExt, FiniteSets, FiniteSetsExt

CONSTANTS DefaultBlockSize,
          Sizes,        \* sizes callers ask for
          Alignments,   \* alignments callers ask for
          Bases,        \* residues of the addresses of blocks
          MaxBlocks,    \* bound on the blocks in the chain
          MaxTime,      \* bound on the allocations and checkpoints made
          MaxScopes     \* bound on the nesting of ScopedCheckpoints

ASSUME SizesAssumption ==
    /\ DefaultBlockSize \in Nat \ {0}
    /\ Sizes \subseteq Nat
    /\ Alignments \subseteq Nat \ {0}
    /\ Bases \subseteq Nat
ASSUME BoundsAssumption == MaxBlocks \in Nat /\ MaxTime \in Nat /\ MaxScopes \in Nat

VARIABLES blocks,       \* firstBlock and what follows it
          currentBlock, \* position of currentBlock, 0 for nullptr
          totalAllocated, totalUsed,
          checkpoints,  \* StackArena::checkpoints
          scopes,       \* the ScopedCheckpoints alive, outermost first
          live,         \* history: the live allocations
          time          \* history: orders allocations and checkpoints

arenaVars == <<blocks, currentBlock, totalAllocated, totalUsed>>
vars == <<arenaVars, checkpoints, scopes, live, time>>

Block == [base : Bases, size : Nat, used : Nat]

\* time is a history field, which equality of checkpoints does not see
Checkpoint == [block : Nat, offset : Nat, time : Nat]

Allocation == [block : Nat \ {0}, from : Nat, to : Nat, time : Nat]

TypeOK ==
    /\ blocks \in Seq(Block)
    /\ currentBlock \in 0 .. Len(blocks)
    /\ totalAllocated \in Nat
    /\ totalUsed \in Nat
    /\ checkpoints \in Seq(Checkpoint)
    /\ scopes \in Seq(Checkpoint)
    /\ live \subseteq Allocation
    /\ time \in Nat

Init ==
    /\ blocks = <<>>
    /\ currentBlock = 0
    /\ totalAllocated = 0
    /\ totalUsed = 0
    /\ checkpoints = <<>>
    /\ scopes = <<>>
    /\ live = {}
    /\ time = 0

-----------------------------------------------------------------------------
(* ArenaAllocator                                                          *)

\* The least offset from used on whose address is a multiple of alignment
AlignedUsed(block, alignment) ==
    LET address == block.base + block.used
    IN  ((address + alignment - 1) \div alignment) * alignment - block.base

\* Mutant: the padding is not counted.
HasSpaceUnpadded(block, size, alignment) == block.used + size <= block.size

HasSpace(block, size, alignment) ==
    AlignedUsed(block, alignment) + size <= block.size

\* MemoryBlock::allocate in block b of the chain
AllocateIn(chain, b, size, alignment) ==
    LET from == AlignedUsed(chain[b], alignment)
    IN  /\ blocks' = [chain EXCEPT ![b].used = from + size]
        /\ currentBlock' = b
        /\ totalUsed' = totalUsed + size
        /\ live' = live \cup {[block |-> b, from |-> from, to |-> from + size,
                               time |-> time + 1]}
        /\ time' = time + 1
        /\ UNCHANGED <<checkpoints, scopes>>

AllocateInCurrent(size, alignment) ==
    /\ time < MaxTime
    /\ currentBlock # 0
    /\ HasSpace(blocks[currentBlock], size, alignment)
    /\ AllocateIn(blocks, currentBlock, size, alignment)
    /\ UNCHANGED totalAllocated

NewBlockSize(size, alignment) ==
    IF size + alignment > DefaultBlockSize THEN size + alignment ELSE DefaultBlockSize

\* The current block is full: a new one is linked to the end of the chain,
\* wherever the current one is
AllocateInNewBlock(size, alignment) ==
    /\ time < MaxTime
    /\ Len(blocks) < MaxBlocks
    /\ currentBlock # 0 => ~HasSpace(blocks[currentBlock], size, alignment)
    /\ \E base \in Bases :
          LET new == [base |-> base, size |-> NewBlockSize(size, alignment), used |-> 0]
          IN  /\ AllocateIn(Append(blocks, new), Len(blocks) + 1, size, alignment)
              /\ totalAllocated' = totalAllocated + new.size

\* A request of size 0 returns a null pointer and changes nothing
Allocate(size, alignment) ==
    /\ size # 0
    /\ AllocateInCurrent(size, alignment) \/ AllocateInNewBlock(size, alignment)

\* The blocks with those from position b on emptied
EmptiedFrom(b) ==
    [i \in DOMAIN blocks |-> IF i >= b THEN [blocks[i] EXCEPT !.used = 0] ELSE blocks[i]]

\* Mutant: the first block becomes the current one, there or not.
ResetBlocksToFirst ==
    /\ blocks' = EmptiedFrom(1)
    /\ currentBlock' = 1
    /\ totalUsed' = 0

ResetBlocks ==
    /\ blocks' = EmptiedFrom(1)
    /\ currentBlock' = IF blocks = <<>> THEN 0 ELSE 1
    /\ totalUsed' = 0

Reset ==
    /\ ResetBlocks
    /\ live' = {}
    /\ UNCHANGED <<totalAllocated, checkpoints, scopes, time>>

\* The caller clears the arena only when no checkpoint points into it
Clear ==
    /\ checkpoints = <<>> /\ scopes = <<>>
    /\ blocks' = <<>>
    /\ currentBlock' = 0
    /\ totalAllocated' = 0
    /\ totalUsed' = 0
    /\ live' = {}
    /\ UNCHANGED <<checkpoints, scopes, time>>

-----------------------------------------------------------------------------
(* StackArena                                                              *)

Position == [block |-> currentBlock,
             offset |-> IF currentBlock = 0 THEN 0 ELSE blocks[currentBlock].used,
             time |-> time + 1]

Same(cp, other) == cp.block = other.block /\ cp.offset = other.offset

\* The checkpoints up to the first that equals cp, or all of them
UpTo(cps, cp) ==
    LET equal == {i \in DOMAIN cps : Same(cps[i], cp)}
    IN  IF equal = {} THEN cps ELSE SubSeq(cps, 1, Min(equal))

SumUsed(chain) ==
    LET sum[b \in 0 .. Len(chain)] == IF b = 0 THEN 0 ELSE sum[b - 1] + chain[b].used
    IN  sum[Len(chain)]

\* Mutants: the block itself is emptied; the statistics are left as they are.
RestoreToBlock(cp, cps) ==
    /\ IF cp.block = 0
       THEN ResetBlocks
       ELSE /\ blocks' = EmptiedFrom(cp.block)
            /\ currentBlock' = cp.block
            /\ totalUsed' = SumUsed(SubSeq(blocks', 1, cp.block))
    /\ checkpoints' = UpTo(cps, cp)
    /\ live' = {a \in live : a.time < cp.time}
    /\ UNCHANGED <<totalAllocated, time>>
RestoreWithoutSum(cp, cps) ==
    /\ IF cp.block = 0
       THEN ResetBlocks
       ELSE /\ blocks' = [EmptiedFrom(cp.block + 1) EXCEPT ![cp.block].used = cp.offset]
            /\ currentBlock' = cp.block
            /\ UNCHANGED totalUsed
    /\ checkpoints' = UpTo(cps, cp)
    /\ live' = {a \in live : a.time < cp.time}
    /\ UNCHANGED <<totalAllocated, time>>

\* restoreCheckpoint, the list of checkpoints being cps
Restore(cp, cps) ==
    /\ IF cp.block = 0
       THEN ResetBlocks
       ELSE /\ blocks' = [EmptiedFrom(cp.block + 1) EXCEPT ![cp.block].used = cp.offset]
            /\ currentBlock' = cp.block
            /\ totalUsed' = SumUsed(SubSeq(blocks', 1, cp.block))
    /\ checkpoints' = UpTo(cps, cp)
    /\ live' = {a \in live : a.time < cp.time}
    /\ UNCHANGED <<totalAllocated, time>>

SaveCheckpoint ==
    /\ time < MaxTime
    /\ checkpoints' = Append(checkpoints, Position)
    /\ time' = time + 1
    /\ UNCHANGED <<arenaVars, scopes, live>>

\* The caller restores a checkpoint that the arena still lists
RestoreCheckpoint(i) ==
    /\ Restore(checkpoints[i], checkpoints)
    /\ UNCHANGED scopes

PopCheckpoint ==
    /\ checkpoints # <<>>
    /\ Restore(Last(checkpoints), Front(checkpoints))
    /\ UNCHANGED scopes

\* The constructor and the destructor of a ScopedCheckpoint
OpenScope ==
    /\ time < MaxTime
    /\ Len(scopes) < MaxScopes
    /\ scopes' = Append(scopes, Position)
    /\ checkpoints' = Append(checkpoints, Position)
    /\ time' = time + 1
    /\ UNCHANGED <<arenaVars, live>>

CloseScope ==
    /\ scopes # <<>>
    /\ Restore(Last(scopes), checkpoints)
    /\ scopes' = Front(scopes)

Next ==
    \/ \E size \in Sizes, alignment \in Alignments : Allocate(size, alignment)
    \/ Reset
    \/ Clear
    \/ SaveCheckpoint
    \/ \E i \in DOMAIN checkpoints : RestoreCheckpoint(i)
    \/ PopCheckpoint
    \/ OpenScope
    \/ CloseScope

Spec == Init /\ [][Next]_vars

-----------------------------------------------------------------------------
(* Properties                                                              *)

\* No two live allocations share a byte, whatever was restored, reset or
\* allocated since they were made.
LiveDisjoint ==
    \A a, b \in live : a # b /\ a.block = b.block => a.to <= b.from \/ b.to <= a.from

\* Every live allocation lies in the used part of its block, so that the next
\* allocation there begins behind it.
LiveInUse ==
    \A a \in live : a.block <= currentBlock /\ a.to <= blocks[a.block].used

\* The blocks are filled in the order of the chain: what is in use of each fits
\* into it, which is the assertion "Should always succeed on new block"
\* (arena_allocator.cpp:146) for a new one, and nothing is in use behind the
\* current one, so that restoring the sum of the blocks up to it loses nothing.
BlocksFilledInOrder ==
    \A b \in DOMAIN blocks :
        /\ blocks[b].used <= blocks[b].size
        /\ b > currentBlock => blocks[b].used = 0

\* The statistics stay in order through any mix of operations: never more in
\* use than the offsets say, which getWastePercentage subtracts unsigned.
StatisticsInOrder ==
    /\ totalUsed <= SumUsed(blocks)
    /\ SumUsed(blocks) <= totalAllocated

\* What was allocated stays the caller's until it is given back.
LiveMemoryKept == LiveDisjoint /\ LiveInUse

\* Offsets and statistics tell how full the blocks are.
FillingKnown == BlocksFilledInOrder /\ StatisticsInOrder

=============================================================================
