----------------------------- MODULE MineKernel -----------------------------
(***************************************************************************)
(* One launch after another of the kernel mine() of                        *)
(* kernel/keccak_grinder.cu by GpuRuntime::launch_mine()                   *)
(* (src/gpu/kernel_ffi.rs): the host resets found and result, starts a     *)
(* grid of threads, waits for all of them and copies found and result      *)
(* back; the threads race for both.                                        *)
(*                                                                         *)
(* The digest of a nonce is any number of Digests; which one is Keccak's   *)
(* affair.  A digest or target is compared limb by limb, as four words,    *)
(* the most significant first.                                             *)
(***************************************************************************)
EXTENDS Integers, FiniteSets

CONSTANTS
  None,        \* Rust's Option::None
  NonceSpace,  \* how many nonces a u64 holds
  BatchSize,   \* batch_size
  BlockSize,   \* block_size, threads per block
  GridWord,    \* how many values a u32 holds, grid_count's type
  Word,        \* how many values a limb has, 2^64
  Digests      \* the digests and targets that occur

ASSUME NoneAssumption == None \notin Int
ASSUME SizesAssumption ==
  /\ {NonceSpace, BatchSize, BlockSize, GridWord, Word} \subseteq Nat \ {0}
  /\ BatchSize =< NonceSpace
ASSUME DigestsAssumption == Digests \subseteq 0..(Word * Word * Word * Word - 1)

VARIABLES
  digest,  \* the digest of challenge and nonce, for each nonce
  target,  \* the difficulty
  host,    \* where launch_mine() is
  start,   \* its nonce_start
  found,   \* found_buf
  result,  \* result_buf
  thread,  \* where each thread of the grid is
  answer,  \* what the last launch_mine() returned
  winner   \* history: the nonce whose thread set found in this launch

hostVars == <<host, start, answer>>
vars == <<digest, target, hostVars, found, result, thread, winner>>

Nonces == 0..(NonceSpace - 1)

\* (batch_size / block_size) as u32.
GridCount == (BatchSize \div BlockSize) % GridWord

\* The grid: grid_count blocks of block_size threads.
Threads == (0..(GridCount - 1)) \X (0..(BlockSize - 1))

\* gid = blockIdx * blockDim + threadIdx, and nonce_start + gid.
NonceOf(g) == (start + (g[1] * BlockSize + g[2])) % NonceSpace

\* to_be_bytes in words, and what the kernel's bswap64 makes of the sponge's lanes.
Limbs(v) ==
  LET q1 == v \div Word
      q2 == q1 \div Word
      q3 == q2 \div Word
  IN  <<q3 % Word, q2 % Word, q1 % Word, v % Word>>

\* less.
Less(h, d) ==
  \/ h[1] < d[1]
  \/ h[1] = d[1] /\ h[2] < d[2]
  \/ h[1] = d[1] /\ h[2] = d[2] /\ h[3] < d[3]
  \/ h[1] = d[1] /\ h[2] = d[2] /\ h[3] = d[3] /\ h[4] < d[4]

Solves(g) == Less(Limbs(digest[NonceOf(g)]), Limbs(target))

Init ==
  /\ digest \in [Nonces -> Digests]
  /\ target \in Digests
  /\ host = "idle" /\ start = 0 /\ answer = None
  /\ found = 0 /\ result = 0
  /\ thread = [g \in Threads |-> "done"]
  /\ winner = None

----------------------------------------------------------------------------
(* launch_mine().                                                          *)

\* The launch loop calls it for some batch.
LaunchMine ==
  /\ host = "idle"
  /\ start' \in Nonces
  /\ host' = "reset_found"
  /\ UNCHANGED <<digest, target, answer, found, result, thread, winner>>

\* Faulty variant: found keeps the value of the last launch.
KeepFound ==
  /\ host = "reset_found"
  /\ host' = "reset_result"
  /\ winner' = None
  /\ UNCHANGED <<digest, target, start, answer, found, result, thread>>

ResetFound ==
  /\ host = "reset_found"
  /\ found' = 0
  /\ host' = "reset_result"
  /\ winner' = None
  /\ UNCHANGED <<digest, target, start, answer, result, thread>>

ResetResult ==
  /\ host = "reset_result"
  /\ result' = 0
  /\ host' = "launch"
  /\ UNCHANGED <<digest, target, start, answer, found, thread, winner>>

\* A grid without a block CUDA refuses (CudaFails).
Launch ==
  /\ host = "launch" /\ GridCount > 0
  /\ thread' = [g \in Threads |-> "enter"]
  /\ host' = "synchronize"
  /\ UNCHANGED <<digest, target, start, answer, found, result, winner>>

\* stream.synchronize() returns.
Synchronize ==
  /\ host = "synchronize"
  /\ \A g \in Threads : thread[g] = "done"
  /\ host' = "read_found"
  /\ UNCHANGED <<digest, target, start, answer, found, result, thread, winner>>

ReadFound ==
  /\ host = "read_found"
  /\ IF found # 0 THEN host' = "read_result" /\ UNCHANGED answer
                  ELSE host' = "idle" /\ answer' = None
  /\ UNCHANGED <<digest, target, start, found, result, thread, winner>>

ReadResult ==
  /\ host = "read_result"
  /\ answer' = result
  /\ host' = "idle"
  /\ UNCHANGED <<digest, target, start, found, result, thread, winner>>

\* A CUDA call fails and launch_mine() returns its error; worker.rs does not
\* launch again.  Threads that were started are not followed any more.
CudaFails ==
  /\ host \notin {"idle", "failed"}
  /\ host' = "failed"
  /\ thread' = [g \in Threads |-> "done"]
  /\ UNCHANGED <<digest, target, start, answer, found, result, winner>>

----------------------------------------------------------------------------
(* A thread of mine().                                                     *)

\* if (*found) return.  A plain load beside the others' atomicCAS: it may see the
\* value from before the launch.
Enter(g) ==
  /\ thread[g] = "enter"
  /\ \E seen \in {0, found} :
       thread' = [thread EXCEPT ![g] = IF seen # 0 THEN "done" ELSE "hash"]
  /\ UNCHANGED <<digest, target, hostVars, found, result, winner>>

\* Faulty variant: a plain store instead of atomicCAS.
HashAndStore(g) ==
  /\ thread[g] = "hash"
  /\ IF Solves(g)
     THEN /\ found' = 1
          /\ thread' = [thread EXCEPT ![g] = "write"]
          /\ winner' = IF winner = None THEN NonceOf(g) ELSE winner
     ELSE /\ thread' = [thread EXCEPT ![g] = "done"]
          /\ UNCHANGED <<found, winner>>
  /\ UNCHANGED <<digest, target, hostVars, result>>

\* Faulty variant: atomicAdd(found, 1) instead of atomicCAS.
HashAndAdd(g) ==
  /\ thread[g] = "hash"
  /\ found' = IF Solves(g) THEN found + 1 ELSE found
  /\ IF Solves(g) /\ found = 0
     THEN thread' = [thread EXCEPT ![g] = "write"] /\ winner' = NonceOf(g)
     ELSE thread' = [thread EXCEPT ![g] = "done"] /\ UNCHANGED winner
  /\ UNCHANGED <<digest, target, hostVars, result>>

\* The hash, and if it is less, atomicCAS(found, 0, 1).
Hash(g) ==
  /\ thread[g] = "hash"
  /\ IF Solves(g) /\ found = 0
     THEN /\ found' = 1
          /\ thread' = [thread EXCEPT ![g] = "write"]
          /\ winner' = NonceOf(g)
     ELSE /\ thread' = [thread EXCEPT ![g] = "done"]
          /\ UNCHANGED <<found, winner>>
  /\ UNCHANGED <<digest, target, hostVars, result>>

\* *result = nonce.
Write(g) ==
  /\ thread[g] = "write"
  /\ result' = NonceOf(g)
  /\ thread' = [thread EXCEPT ![g] = "done"]
  /\ UNCHANGED <<digest, target, hostVars, found, winner>>

Host == \/ LaunchMine \/ ResetFound \/ ResetResult \/ Launch \/ Synchronize
        \/ ReadFound \/ ReadResult \/ CudaFails
Next == Host \/ \E g \in Threads : Enter(g) \/ Hash(g) \/ Write(g)
Spec == Init /\ [][Next]_vars

----------------------------------------------------------------------------
(* What a launch must keep.                                                *)

TypeOK ==
  /\ digest \in [Nonces -> Digests]
  /\ target \in Digests
  /\ host \in {"idle", "reset_found", "reset_result", "launch", "synchronize",
               "read_found", "read_result", "failed"}
  /\ start \in Nonces
  /\ found \in {0, 1}
  /\ result \in Nonces
  /\ thread \in [Threads -> {"enter", "hash", "write", "done"}]
  /\ answer \in Nonces \cup {None}
  /\ winner \in Nonces \cup {None}

\* keccak_grinder.cu, on result: "first winner wins".  Whatever the threads'
\* order, and although they look at found without synchronising, the nonce that
\* is copied back is the one whose thread was first to set found.
FirstWinnerWins == host = "read_result" => result = winner

\* Limb-wise comparison, race, resets and the two copies back together behave
\* like a search in one step of the nonces that the grid covers, which are those of
\* the batch but for the remainder of the division by block_size and what the cast
\* to u32 cuts off, for the contract's comparison.
Search == INSTANCE BatchSearch
            WITH Covered <- GridCount * BlockSize,
                 phase <- IF host \in {"idle", "failed"} THEN host ELSE "searching"
SearchSpec == Search!Spec

=============================================================================
