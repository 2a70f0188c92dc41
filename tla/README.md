# TLA+ models of tree-status

These modules model `src/tools/tree-status/src/main.rs`. That file is the
index-repair and audit tool for compressed (concurrent Merkle) trees. The tool
compares the index database with the chain and reports where they differ.
`fix-tree` also pushes the missing transactions back into the ingester's
transaction stream. The ingester (`src/nft_ingester/src/main.rs`) reads that
stream and writes the index. Its transaction consumer is modelled and
composed with fix-tree. Its account consumer and the start-up that spawns both
consumers are modelled too.

## The system

| Part (spec.md name) | Code | State it changes | Operations |
|---|---|---|---|
| Chain State Reader | `get_onchain_tree_seq` 727-749 | none (reads the tree account) | read the tree's sequence counter at *confirmed* commitment |
| Index State Reader | `get_tree_max_seq` 751-763, `get_missing_seq` 766-795, the SQL in `check_tree_leafs` 827-848, the `cl_audits` look-ups 664-682 | none (reads the index) | `max(seq)` and `count(distinct seq)`; the seqs missing from `1..n`; the highest indexed seq per leaf |
| Gap Detector & Range Builder | `build_seq_ranges` 612-648 | none (pure) | a contiguity pass, then ranges at most 10 apart are joined |
| fix-tree and the Concurrent Repair Pipeline | `fix_tree` 424-486, `find_and_forward_txns_for_missing_seqs` 488-566, `find_signatures_for_missing_seq_range` 654-725, `send_txn` 579-610 | range channel, signature channel, thread states, the ingester's stream | a producer thread sends ranges. `get_sigs_concurrency` resolver threads page through signatures between two indexed transactions. `get_txn_concurrency` forwarder threads fetch each transaction and push it. Everything runs in a crossbeam scope that is joined with `unwrap()` |
| check-tree | `check_tree` 372-422 | none | the same reads and decision as fix-tree; it only logs the missing ranges |
| Audit fetch | `read_tree_start` 920-972, `process_tx` 975-997, `parse_tx_sequence` 1000-1065, `node_idx_to_leaf_idx` 1067-1068 | the feed position, `sig_id`, the result channel | N tasks share the signature feed through a mutex. Under the lock, a task takes the next item and an id. After the lock it fetches and decodes the transaction, then sends `(id, sig, events)`. The tasks are joined by `try_join_all` |
| show-tree | `read_tree` 880-917 | the reorder map, `next_id`, the output | each received result is inserted by id. If `next_id` is then present, that one entry is printed. When the channel closes, the leftovers are printed in id order |
| check-tree-leafs | `check_tree_leafs` 797-877 | the per-leaf map, the report, the output | keep the highest seq per leaf, query the index aggregate, then report mismatches, leaves "not found in blockchain" and leaves "not found in db" (their signatures are written out) |
| CLI entry point | `main` 245-370 | the exit status | runs the chosen command for one tree or for each tree of a file, logging each tree's error. A bad line (`maybe_pubkey?`) or a panic inside a command ends the process |
| Ingester transaction stream | `service_transaction_stream` 194-235, `process_instruction` 333-367, `handle_transaction` 369-429 (nft_ingester) | the index, stream acks | receive a batch, handle every instruction, and ack a message if any instruction succeeded. The listener task is restarted after a panic |
| Ingester account stream | `service_account_stream` 237-278, `handle_account` 280-330 (nft_ingester) | account state, stream acks | the same loop, one update per message. An undecodable message is skipped; `owner().unwrap()` panics the task |
| Ingester start-up | `main` 103-192 (nft_ingester) | which tasks run | unwrap()ed configuration and connections, then the role's tasks are spawned. Only `All` and `Ingester` spawn the stream consumers. Ctrl-c shuts everything down |
| Signature feed | `find_signatures` (txn_forwarder crate, not under `src/`) | its own paging position | yields the tree's signatures oldest first. Modelled from the spec |

How the parts interact: fix-tree reads the chain, then the index. If
`max(seq) != count(distinct seq)`, it computes the missing seqs, builds the
ranges, and runs the three-stage pipeline. The ingester writes what the
pipeline forwards into the index, while fix-tree is still running. It also
writes the transactions of the live feed. show-tree and check-tree-leafs do not use
the gap detector. Both run the audit fetch over the whole history and consume
its results while the fetch tasks run.

What is hard here, and what the properties target:
- **Out-of-order completion.** Audit results arrive in completion order, not
  feed order. show-tree must still print in order, and check-tree-leafs must
  keep the maximum seq per leaf.
- **Window bounds.** The repair window is bounded *exclusively* by the
  transactions of the nearest indexed seqs, and pages move a cursor. Off-by-one
  mistakes and batched transactions at the bound decide what is forwarded.
- **Thread interleaving.** Several resolvers send into one channel.
  Forwarders run concurrently.
- **Termination by dropped senders.** `iter()` on a crossbeam receiver ends
  only when every sender is gone.
- **Partial failure.** A range lookup or page fetch failure is logged and that
  range is skipped. A forwarder's `unwrap()` panics its thread, and the
  scope's `unwrap()` then panics fix-tree. An audit task's `?` aborts
  `try_join_all`, and with it the whole audit.
- **At-least-once delivery.** The ingester acks a message after handling
  it. A panic or a failed ack leaves the message pending, and it is handled
  again. A transaction is acked as soon as *one* of its instructions
  succeeded.

## Modules

| Module | Models | State ↔ code |
|---|---|---|
| `TreeHistory` | the environment: what a tree's history can be | a transaction is its position in the history (its signature). It has `ok` and `seqs` (the seqs of its change-log events). `Histories(n, b)` is every batching of `1..n` into transactions of at most `b` events, with or without one failed transaction |
| `SeqRanges` | `build_seq_ranges` | `ContigStep` and `JoinStep` are the bodies of the two loops, folded with `FoldLeft`. `Blocks(S, gap)` is an independent reference definition |
| `MCSeqRanges` | the input of the range builder | the missing set is any subset of `1..MaxSeq`, given in ascending order |
| `RepairPipeline` | `check_tree`, `fix_tree` and the whole pipeline | `command` is the subcommand, chosen in `Init`. `rQueue` and `sQueue` are the crossbeam channels. `produced` means the producer dropped `r_sender`. `sOpen` is the resolvers still holding an `s_sender` clone. `bState` and `cState` are the threads. `sent` is the history of the signature channel. `forwarded` is what was pushed to the stream. The index is the set `indexed`. Actions: `CheckTreeFails`, `CheckTree` (the shared reads and tests; it ends in `ReportGaps` for check-tree or `StartRepair` for fix-tree), `Produce`, `BTake` (take a range, look up its bounds), `BPage` (one iteration of the paging loop), `BExit`, `CSend` (one `send_txn(..).unwrap()`), `CExit`, `ScopeJoin` |
| `AuditFetch` | `read_tree_start`, `process_tx`, `parse_tx_sequence` | `feedPos` is the feed. `sigId` is `sig_id`. `wState` is each task (idle, busy with `[id, sig]`, or exited). `results` is the result channel. `fetchPhase` is the `try_join_all` future. Actions: `Claim(w)` (under the lock: receive and `fetch_add`), `Finish(w)` (fetch, decode, send), `Join` |
| `OrderedPrinter` | the abstract promise of show-tree | the output is always a prefix of the history, and it only grows |
| `ShowTree` | `read_tree` | `buf` is the `HashMap`, `nextId` is `next_id`, and `printed` is the printed `(id, sig)` entries. Actions: `Receive` (insert, then at most one remove) and `Flush` (the sorted print after the channel closes) |
| `CheckTreeLeafs` | `check_tree_leafs` | `leafs` is the `HashMap` leaf → (signature, seq). `LeafMaxSeqOf(indexed)` is the index aggregate. Actions: `Receive` (fold the result's pairs through `LeafUpdate`) and `Report` (query, remove, report) |
| `IngestStream` | `service_transaction_stream`, `handle_transaction`, `process_instruction` | `published` is what was pushed to the stream. `delivered` and `acked` are the consumer group's state. `batch`, `cur`, `ixDone` and `ids` are the task's loop state. Actions: `Recv` (a batch of new or pending messages), `HandleIx` (one instruction: written, or failed and printed), `Ack` (ack the ids if any; the ack may fail), `Crash` (the task panics and is respawned with an empty loop state), `Connect` (the new task's `T::new(..).unwrap()`: the messenger connects, or the task panics and the outer loop spawns another at once). `task` says whether the task is still connecting or listening |
| `RepairIngest` | fix-tree and the ingester running together | extends `RepairPipeline` and instantiates `IngestStream`, which shares `txs` and `indexed`. The stream holds `forwarded` and the live feed's `inflight` transactions. A step is either a fix-tree step or a consumer step |
| `TreeLoop` | `main` | `lines` is the pubkey stream, and `result[i]` is how the command ends for item i. `stage`, `pos`, `processed`, `logged` and `exit` are the loop's state. Actions: `Setup` (every `?` before the loop, and the `pg_url` parse that `get_pg_conn` unwraps for `PgActions`), `Step` (one loop iteration), `EndLoop`, `Flush` |
| `AccountStream` | `service_account_stream`, `handle_account` | `kind[m]` is what message m carries: an update, an undecodable message, or an update without owner. `applied` is the written updates. `delivered`, `acked`, `batch`, `cur`, `ids` and `fails` are as in `IngestStream`. Actions: `Connect` (as in `IngestStream`, its failures bounded by `MaxConnectFails`), `Recv`, `Handle` (skip, panic and respawn with an empty batch, or apply or fail the update), `Ack` |
| `Ingester` | nft_ingester `main` | `role`, `metrics` (which of `metrics_host` and `metrics_port` are set) and `phase` (starting, running, panicked, stopped). `Start` panics when `setup_metrics` would unwrap a missing host or port (`MetricsPanics`). It instantiates `IngestStream` and `AccountStream`, with the account consumer's variables renamed. Actions: `Start`, `CtrlC`, and a step of either consumer while a stream role runs |
| `MCAuditCommands` | tree-status `main`'s choice between show-tree and check-tree-leafs | instantiates `ShowTree` and `CheckTreeLeafs` over shared fetch variables. `command` is chosen once. The other command's variables keep their initial values |
| `MCRepairPipeline`, `MCRepairIngest` | model values for the threads | |

Each action models a whole step of its thread. For example, `BPage` fetches
one page, sends every signature of it and moves `before`. `Report` queries the
index and produces every report line. Failures are disjuncts of the step they
interrupt, limited by a shared `failures < MaxFailures` budget.

## Runs

| Run | Checks | Result |
|---|---|---|
| `seq_ranges` | `ContiguityPartition`, `JoinedRangesExact`: every subset of `1..12`, join gap 10 | pass: the output is exactly the maximal blocks, ascending, and separated by more than the gap |
| `repair_pipeline` | `NoDuplicateSignature`, `RepairCompleteOrSurfaced` | pass (1,187,209 states, under worker symmetry) |
| `repair_missing_seq` | `MissingSeqTxForwarded` (spec §8) | **violation** |
| `repair_nogaps` | `NoGapsReportIsTrue` (spec §2/§3) | **violation** |
| `repair_fetch_isolation` | `FetchFailureIsolated` (spec §7) | **violation** |
| `audit_commands` | `PrintsWholeHistory`, `ImplementsOrderedPrinter` (refinement of `OrderedPrinter`), `ReportsExact`, `CommandTerminates` | pass (526,384 states): either command |
| `audit_tx_failure` | `TxFailureNotFatal` (spec §7) | **violation** |
| `ingest_partial_ack` | `AckedFullyWritten` (spec §8) | **violation** |
| `repair_ingest` | `RepairedEndToEnd` | pass (1,390,861 states): fix-tree and the ingester together |
| `repair_ingest_liveness` | `Termination` of fix_tree, `ForwardedEventuallyIndexed` (also across a failed connect of the listener's messenger and its respawn) | pass |
| `tree_loop_panic` | `TreeIsolation` (spec §6/§7) | **violation** |
| `ingester_no_owner` | `UpdateEventuallyAcked` (the code's own skip of malformed messages; spec §7) | **violation** |

check-tree's logged ranges are `build_seq_ranges` of the ascending missing
numbers over a fixed index. `JoinedRangesExact` already checks that
composition exhaustively, so no separate property restates it for
`ReportGaps`.

`RepairedEndToEnd` is the end-to-end claim of spec §8. Suppose fix-tree
completed, and the ingester drained the stream without a failed instruction.
Then every transaction whose seqs were all missing is now wholly indexed, or
its range failed and was logged. The property holds although the ingester
writes the index between fix-tree's reads of it (the missing-seq query, then
the bound look-ups per range). It also holds when the ingester's task panics
and re-handles messages. A failed instruction is excluded because of
finding 6.

Findings shown by the violation runs:
1. **A batched transaction at a window bound is never repaired**
   (`main.rs:667`). A batched transaction can carry an indexed seq and a
   missing one. It is then itself the `until` or `before` bound, and the search
   excludes its own bounds. Trace: the index is {1, 4} and the history is
   `<<{1,2},{3,4}>>`. The window is empty, so nothing is forwarded and seqs 2
   and 3 stay missing. The TODO at line 650 points at this.
2. **Missing newest seqs read as "no gaps"** (`main.rs:462`). The check is
   `max == count`. Trace: the index holds `{1}` of an on-chain 4. It passes the
   test, and nothing is repaired.
3. **One fetch failure stops forwarding** (`main.rs:558`). `unwrap()` panics
   the forwarder. With one forwarder, every other signature is left
   unforwarded. The spec says a FetchError drops only that signature.
4. **One failed transaction aborts an audit** (`main.rs:960`). The `?` on
   `process_tx` makes `try_join_all` cancel everything. The spec says fetch
   and decode errors are skipped.
5. **A tree's panic stops every later tree** (`main.rs:739`). In
   `get_onchain_tree_seq`, `split_at_mut` panics for an account shorter than
   a tree header, such as a wallet pubkey in the file. `check_tree` and
   `fix_tree` also convert the on-chain seq with `try_into().unwrap()` (381). Trace:
   `check-trees` over two trees, and the first one panics. The second is never
   checked. Spec §6 and §7 require per-tree isolation. `let pubkey =
   maybe_pubkey?;` (285) does the same for one unparseable line of the file.
   `TreeIsolation` fails on that too when `LineKinds` includes `"bad"`.
6. **A partly failed transaction is acked and its seq is lost**
   (nft_ingester `main.rs:416`). `handle_transaction` collects the message id
   for every successful instruction, and the consumer acks when the ids are
   nonempty. Trace: the history is `<<{1},{2,3}>>` and transaction 2 is on the
   stream. Seq 2 is written, seq 3's instruction fails, and the message is
   acked. Seq 3 is never written. Worse, with finding 1, transaction 2 is now
   partly indexed. It bounds fix-tree's window, so fix-tree never forwards
   it again.
7. **An account update without owner starves its batch** (nft_ingester
   `main.rs:296`). `handle_account` skips a message that does not
   deserialize, but it unwraps the owner. Trace: role `Ingester`. The batch
   `<<m1, m2>>` holds an update without owner (m1) and then an update (m2).
   m1 panics the task, and the respawned task gets the same pending batch
   again, forever. m2 is never applied or acked. With no owner-less update,
   the same property holds (3,600 states).

The reorder map of show-tree removes at most one entry per received result
(`main.rs:901`: an `if` where spec §4.5 asks to drain). Ready entries stay
buffered until the final flush. The output order is still right
(`ImplementsOrderedPrinter`). No run states the memory bound.

Every property of a passing run has a mutant in `PROJECT.json`: a plausible
bug in the definition it is about. Under the run's configuration, TLC finds
the property violated with that mutant in place.

## Bounds

- `MCRepairPipeline.cfg` uses 2 resolvers, 2 forwarders, 6 seqs, batches of
  at most 2, and 1 failure. The code's join gap (10) and page limit (1000)
  are scaled down to 2 and 2, so that the small histories still reach joined
  ranges, multi-page windows and pages that end exactly at a bound. The
  comparisons of the code are kept, and only the constants are scaled.
  `seq_ranges` checks the range builder at the real gap of 10. The threads
  of each pool are a symmetry set (`WorkerSymmetry`): they run the same
  loop, no property names one, and the run checks only safety.
- `MCRepairIngest.cfg` uses 1 resolver, 1 forwarder, 3 seqs, batches of at
  most 2, and join gap 1, so two separated missing seqs make two ranges. It
  allows one fix-tree failure, one failed instruction or ack, one panic of
  the ingester's task (mid-batch, or a failed connect of its messenger), recv batches of 1, and any subset of the history's
  successful, unindexed transactions still in flight on the stream. One
  ingester step can fall between any two fix-tree steps. That is enough for
  an index write to land between the missing-seq query and a bound look-up.
- `MCRepairIngestLiveness.cfg` uses 2 seqs and `MaxIngestFails = 0`.
  Liveness checking costs more. A failed instruction is finding 6, which
  would break `ForwardedEventuallyIndexed` by construction. The same
  counter bounds failed acks, so this run has none either. Failed acks are
  checked only by the safety run `repair_ingest`.
- `MCIngesterNoOwner.cfg` uses two account messages of any kind, recv
  batches of two (so one batch can hold a poisoned message and an update),
  every role, and a one-seq tree on the transaction stream.
- `MCTreeLoopPanic.cfg` uses every subcommand and two items naming two
  trees.
- The audit runs use 2 tasks, 3 seqs, batches of at most 2, one possible
  failed transaction, height 1 (2 leaves) and 1 failure. This is enough for up
  to 4 results to complete in any order, for two seqs of one leaf to arrive
  in reverse order, and for every subset of seqs to be indexed.

## Fairness

- Weak fairness per thread (`BStep(b)`, `CStep(c)`) and on `CheckTree`,
  `Produce` and `ScopeJoin`. These are OS threads, or the code that runs
  before and after them, and they keep running while they can.
- Weak fairness per fetch task (`Claim(w) \/ Finish(w)`), on `Join`, and on
  the consumer's `Receive` and `Flush` or `Report` of the command that runs. The tokio runtime polls
  every ready future of `try_join` and `try_join_all`.
- Weak fairness on the ingester's `Connect`, `Recv`, `HandleIx` and `Ack`.
  Its loop runs in a spawned tokio task, which keeps being polled, and the
  outer loop spawns a new task as soon as one panics. Failed connects are
  bounded: the model assumes Redis becomes reachable. `Recv` may return
  any pending message. This is the environment assumption about
  plerkle_messenger's Redis consumer group: a message left unacked is handed
  out again.
- In `Ingester`: weak fairness on `Start` and on the steps of both consumers,
  as above. Per account message, strong fairness on a recv that hands it
  out. A pending message may wait while the task handles other batches, and
  the consumer group still hands it out again. The order of that batch is
  the environment's choice. No fairness on `CtrlC`: the operator may never
  press it, so the liveness property excepts a stopped process.
- No fairness on failures or panics: they may happen, and need not.

## Not modelled

- **Confirmed vs finalized commitment** of the chain reads. Within one
  invocation the history is fixed. The ingester's concurrent writes are
  modelled (`RepairIngest`).
- **Duplicated messages from several validators** (the TODO at nft_ingester
  375). Each message is one transaction, and writes are idempotent sets. This
  is the spec's idempotence assumption.
- **The backfiller and the background tasks** of the ingester. Their code is
  outside `src/`. The start-up's unwraps are one nondeterministic step
  (`Start`), except `setup_metrics`'s, which depends on the configuration.
- **The account listener's respawn loop** (nft_ingester 250) is modelled
  (`AccountStream`'s `Connect`), but no passing run checks `Ingester`: its
  run shows finding 7. The transaction listener's identical loop (207) is
  checked by `ForwardedEventuallyIndexed`.
- **A restart of the nft_ingester process.** Each start draws a new
  `consumer_id` (116); whether the consumer group hands the old consumer's
  pending messages to the new one is plerkle_messenger's behaviour, outside
  `src/`.
- **Undecodable transaction messages** (nft_ingester 383): they are never
  acked and are handed out again for ever. fix-tree only forwards
  transactions in the ingester's own encoding, so the model has none.
- **`get_onchain_tree_seq`'s decoding** of a little-endian u64. TLC's
  integers are 32-bit, so the counter is a small constant and the i64
  conversion's panic is an outcome of `TreeLoop`'s commands.
- **Byte-level conversions**: account parsing, flatbuffer serialization,
  logging and metrics. No property is about them.
- **The repair-name crate**, which only declares modules.
