------------------------------ MODULE History ------------------------------
(***************************************************************************)
(* A contract that keeps a History of the checkpoint library, whose keys   *)
(* are block numbers: it pushes at the present block, directly or through  *)
(* an operation on the latest value as Votes does, and looks up the past.  *)
(***************************************************************************)
EXTENDS Checkpoints, FiniteSetsExt

CONSTANT MaxBlock    \* the bound on block numbers; beyond MaxKey pushes revert

ASSUME MaxBlockAssumption == MaxBlock \in Nat

VARIABLES history,            \* the checkpoints
          block,              \* block.number
          historyReturned    \* what the last push returned

historyVars == <<history, block, historyReturned>>

HistoryInit == history = <<>> /\ block = 0 /\ historyReturned = <<0, 0>>

-----------------------------------------------------------------------------
\* A fault in push: the block number is cut to the type of the keys.
PushCut(value) ==
  LET key == Cast(Uint(KeyLength), block)
  IN  /\ CanDownCastToUint(ValueLength, value)
      /\ CanInsert(history, key)
      /\ history' = Inserted(history, key, value)
      /\ historyReturned' = InsertReturns(history, key, value)
      /\ UNCHANGED block

\* push(value): SafeCast.toUint32(block.number) and SafeCast.toUint224(value).
PushAtBlock(value) ==
  LET key == Cast(Uint(KeyLength), block)
  IN  /\ CanDownCastToUint(KeyLength, block)
      /\ CanDownCastToUint(ValueLength, value)
      /\ CanInsert(history, key)
      /\ history' = Inserted(history, key, Cast(Uint(ValueLength), value))
      /\ historyReturned' = InsertReturns(history, key, Cast(Uint(ValueLength), value))
      /\ UNCHANGED block

\* push(op, delta), with the operations of Votes; subtraction is checked.
PushAdded(delta) == PushAtBlock(Latest(history) + delta)

PushSubtracted(delta) ==
  /\ delta <= Latest(history)
  /\ PushAtBlock(Latest(history) - delta)

MineBlock ==
  /\ block < MaxBlock
  /\ block' = block + 1
  /\ UNCHANGED <<history, historyReturned>>

HistoryNext ==
  \/ \E value \in 0 .. MaxValue + 1 :
       PushAtBlock(value) \/ PushAdded(value) \/ PushSubtracted(value)
  \/ MineBlock

HistorySpec == HistoryInit /\ [][HistoryNext]_historyVars

-----------------------------------------------------------------------------
\* getAtBlock and getAtProbablyRecentBlock do not revert.
CanGetAtBlock(blockNumber) ==
  blockNumber < block /\ CanDownCastToUint(KeyLength, blockNumber)

GetAtBlock(blockNumber) == UpperLookup(history, Cast(Uint(KeyLength), blockNumber))

GetAtProbablyRecentBlock(blockNumber) ==
  UpperLookupRecent(history, Cast(Uint(KeyLength), blockNumber))

-----------------------------------------------------------------------------
\* The types, and keys that increase and are blocks that have been reached.
HistoryOK ==
  /\ history \in Seq(Checkpoint)
  /\ block \in 0 .. MaxBlock
  /\ historyReturned \in (0 .. MaxValue) \X (0 .. MaxValue)
  /\ \A i \in 1 .. Len(history) :
       /\ history[i].key <= block
       /\ i > 1 => history[i - 1].key < history[i].key

\* For every block that is over, both lookups return the value of the last
\* checkpoint up to it: the value at the end of that block.
PastBlocksAnswer ==
  \A b \in 0 .. MaxBlock :
    LET upTo == {i \in 1 .. Len(history) : history[i].key <= b}
    IN  CanGetAtBlock(b) =>
          /\ GetAtBlock(b) = IF upTo = {} THEN 0 ELSE history[Max(upTo)].value
          /\ GetAtProbablyRecentBlock(b) = GetAtBlock(b)

\* The checkpoints are those of blocks that have been reached, one for each,
\* and answer for every block that is over.
HistoryIsExact == HistoryOK /\ PastBlocksAnswer

\* What lookups say of a block never changes once the block is over, even when
\* block numbers have outgrown the keys.
HistoryLine == INSTANCE Timeline WITH
  MaxTime <- MaxKey,
  now <- block,
  valueAt <- [key \in 0 .. MaxKey |-> UpperLookup(history, key)],
  replaced <- historyReturned

HistoryTimelineSpec == HistoryLine!Spec
=============================================================================
