---------------------------- MODULE HashContract ----------------------------
(***************************************************************************)
(* The mining half of the contract (Hash.sol): mine(), the difficulty      *)
(* adjustment and the halving of the reward, after the genesis.            *)
(*                                                                         *)
(* Transactions execute in the open block, block + 1; nodes answer calls   *)
(* from the latest sealed one.  Rivals mint with proofs of their own, which *)
(* are theirs alone: the contract hashes the sender into them.             *)
(***************************************************************************)
EXTENDS Integers

CONSTANTS
  EpochBlocks,     \* EPOCH_BLOCKS
  Interval,        \* ADJUSTMENT_INTERVAL
  BlocksPerMint,   \* TARGET_BLOCKS_PER_MINT
  MintsPerBlock,   \* MAX_MINTS_PER_BLOCK
  MiningSupply,    \* MINING_SUPPLY
  Halved,          \* BASE_REWARD >> era, by the era
  EraMints,        \* ERA_MINTS
  MaxWord,         \* type(uint256).max
  GenesisDifficulty,  \* what _seedBody() sets, MaxWord >> 32
  Nonces,          \* the nonces the miner tries
  Digest,          \* keccak256 of the miner's challenge of an epoch and a nonce
  MaxBlock         \* bound: the last block that opens

ASSUME ContractAssumption ==
  /\ {EpochBlocks, Interval, BlocksPerMint, MintsPerBlock, EraMints} \subseteq Nat \ {0}
  /\ {MiningSupply, MaxWord, MaxBlock} \subseteq Nat
  /\ GenesisDifficulty \in 1..MaxWord

\* A shift by one halves.  That more shifts leave less follows by induction,
\* which is out of the prover's reach.
ASSUME HalvedAssumption ==
  /\ Halved \in [0..63 -> Nat]
  /\ \A e \in 0..62 : Halved[e + 1] = Halved[e] \div 2
  /\ \A e, f \in 0..63 : e =< f => Halved[f] =< Halved[e]

\* _epoch().
EpochOf(b) == b \div EpochBlocks

ASSUME ContractDigestAssumption ==
  Digest \in [(0..EpochOf(MaxBlock)) \X Nonces -> Nat]

VARIABLES
  block,       \* the latest sealed block
  totalMints,
  minted,      \* totalMiningMinted
  difficulty,  \* currentDifficulty
  adjMint,     \* lastAdjustmentMint
  adjBlock,    \* lastAdjustmentBlock
  mintsIn,     \* mintsInBlock
  used,        \* usedProofs, the miner's own: nonce and epoch
  latest       \* the contract as of the sealed block: difficulty and reward

contractVars ==
  <<block, totalMints, minted, difficulty, adjMint, adjBlock, mintsIn, used, latest>>

Open == block + 1
Blocks == 0..MaxBlock

\* What a mint of the era is worth.
Reward(total) == LET era == total \div EraMints
                 IN  IF era < 64 THEN Halved[era] ELSE 0

\* What the next mint is paid: its own reward, clipped to what is left.
Pay == LET reward == Reward(totalMints + 1)
           left   == MiningSupply - minted
       IN  IF reward > left THEN left ELSE reward

----------------------------------------------------------------------------
(* _adjustDifficulty().                                                    *)

Taken   == Open - adjBlock
OnTime  == Interval * BlocksPerMint
Due     == totalMints + 1 - adjMint >= Interval

\* Faulty variant: mulDiv(old, target, taken).
ScaledInverted == IF Taken = 0 THEN difficulty \div 4 ELSE (difficulty * OnTime) \div Taken

Scaled  == IF Taken = 0 THEN difficulty \div 4 ELSE (difficulty * Taken) \div OnTime

\* mulDiv() and the checked old * 4 revert.
Overflows == Scaled > MaxWord \/ difficulty * 4 > MaxWord

AtLeast(low, x) == IF x < low THEN low ELSE x
AtMost(high, x) == IF x > high THEN high ELSE x

\* Faulty variant: without the last line, next == 0.
AdjustedToZero == AtMost(difficulty * 4, AtLeast(difficulty \div 4, Scaled))

\* Between a quarter and four times the old one, and not zero.
Adjusted ==
  AtLeast(1, AtMost(difficulty * 4, AtLeast(difficulty \div 4, Scaled)))

----------------------------------------------------------------------------
(* mine().                                                                 *)

\* Nothing is left to pay.
Exhausted == minted >= MiningSupply \/ Pay = 0

\* Faulty variant: the adjustment is computed unchecked.
ClosedUnchecked ==
  {c \in {"supply", "cap"} :
     \/ c = "supply" /\ Exhausted
     \/ c = "cap"    /\ mintsIn[Open] >= MintsPerBlock}

\* Why a mint in the open block reverts whatever its proof is.
Closed ==
  {c \in {"supply", "cap", "overflow"} :
     \/ c = "supply"   /\ Exhausted
     \/ c = "cap"      /\ mintsIn[Open] >= MintsPerBlock
     \/ c = "overflow" /\ Due /\ Overflows}

\* Why the miner's proof does.
Unproved(n) ==
  {c \in {"work", "used"} :
     \/ c = "work" /\ Digest[<<EpochOf(Open), n>>] >= difficulty
     \/ c = "used" /\ <<n, EpochOf(Open)>> \in used}

\* The effects of a mint that does not revert.
Mint ==
  /\ mintsIn' = [mintsIn EXCEPT ![Open] = @ + 1]
  /\ totalMints' = totalMints + 1
  /\ minted' = minted + Pay
  /\ IF Due THEN difficulty' = Adjusted /\ adjMint' = totalMints + 1 /\ adjBlock' = Open
            ELSE UNCHANGED <<difficulty, adjMint, adjBlock>>

\* The miner's transaction mine(n) executes.
Mine(n) ==
  /\ Open =< MaxBlock
  /\ IF Closed \cup Unproved(n) = {}
     THEN Mint /\ used' = used \cup {<<n, EpochOf(Open)>>}
     ELSE UNCHANGED <<mintsIn, totalMints, minted, difficulty, adjMint, adjBlock, used>>
  /\ UNCHANGED <<block, latest>>

\* A rival's transaction does, with a good proof.  (One that reverts changes
\* nothing.)
RivalMine ==
  /\ Open =< MaxBlock
  /\ Closed = {} /\ difficulty > 0
  /\ Mint
  /\ UNCHANGED <<block, used, latest>>

\* The open block is sealed.
Seal ==
  /\ Open =< MaxBlock
  /\ block' = Open
  /\ latest' = [difficulty |-> difficulty, reward |-> Reward(totalMints)]
  /\ UNCHANGED <<totalMints, minted, difficulty, adjMint, adjBlock, mintsIn, used>>

\* miningState(), the fields the program reads, as the latest block answers it.
MiningState == [epoch      |-> EpochOf(block),
                difficulty |-> latest.difficulty,
                reward     |-> latest.reward]

\* The end of _seedBody(): mining opens.
ContractInit ==
  /\ block = 0
  /\ totalMints = 0 /\ minted = 0
  /\ difficulty = GenesisDifficulty
  /\ adjMint = 0 /\ adjBlock = 0
  /\ mintsIn = [b \in Blocks |-> 0]
  /\ used = {}
  /\ latest = [difficulty |-> difficulty, reward |-> Reward(0)]

----------------------------------------------------------------------------

ContractTypeOK ==
  /\ block \in Blocks
  /\ {totalMints, minted, adjMint, adjBlock} \subseteq Nat
  /\ difficulty \in Nat \ {0}
  /\ mintsIn \in [Blocks -> 0..MintsPerBlock]
  /\ used \subseteq Nonces \X (0..EpochOf(MaxBlock))
  /\ latest \in [difficulty : Nat \ {0}, reward : Nat]

=============================================================================
