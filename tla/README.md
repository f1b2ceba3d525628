# TLA+ verification of the NBTE bridge

The repository is a federated bridge between Bitcoin (runes, Taproot assets) and
EVM chains (RSK, BOB).  This project models the bridge nodes and the contracts they
talk to, checks the models with TLC on small instances and proves the most important
properties with TLAPS for all instances.  Paths below are relative to the root of the
repository.

## 1. Inventory

| Component | State | Operations | What makes it correct |
|---|---|---|---|
| Main loop, `bridge_node/bridge/main_bridge.py` | none | ping, `run_iteration` of each bridge, for ever; exceptions are caught per bridge | every bridge keeps getting its turn |
| Rune deposit scan, `bridges/runes/service.py:181-467` | last scanned block, `IncomingBtcTx`, `RuneDeposit` rows | `scan_rune_deposits`, `_sync_ord_with_bitcoind` | no deposit is missed, none is accepted that a reorganisation can remove |
| Rune -> EVM, `bridges/runes/bridge.py:66-96`, `service.py:604-1018` | `RuneDeposit.status`, `net_amount_raw`, signatures and signers, `evm_tx_hash` | validate, ask, update signatures, send, confirm, answer | minted once, and only with a majority; sent at most once; confirmed in the end |
| Rune token -> BTC, `service.py:1020-1404` | `RuneTokenDeposit` rows, the wallet's outputs | scan events, create, sign and broadcast a PSBT | a leader pays a burn once; the wallet backs the tokens; burns are paid in the end |
| Ord multisig wallet, `common/ord/multisig.py`, `utxos.py` | outputs (in bitcoind), cache of ord answers | coin selection, PSBT creation and signing | funded to the satoshi, nothing spent twice or too early, accepted by the nodes that must sign |
| EVM event scanner, `common/evm/scanner.py` | last scanned block | `scan_new_events` | the rows are the events of the scanned blocks |
| Peer-to-peer network, `common/p2p/` | connections, sequence numbers, cached addresses, answer callbacks | connect and validate, call, `ask`, `answer` | a call gets its own reply or none; only federators are talked to; every call ends |
| `RuneBridge.sol`, `RuneToken.sol`, `Freezable.sol` | processed transfers, tokens, policies, pause and freeze flags | `acceptTransferFromBtc`, `transferToBtc`, registration, administration | a transfer is processed once; frozen means nothing moves |
| `NBTEBridgeAccessControl.sol` | role members | signature checks, role administration | a strict majority of distinct current federators |
| Tap <-> RSK, `bridges/tap_rsk/`, `contracts/tap/Bridge.sol` | batches and their status, processed transfers | process the current batch, sign, accept | one batch at a time, each transfer once, finalised means processed |
| Amounts, `service.py:1436-1475`, `RuneBridge.sol` | balances, fees, policies | convert, subtract fees | tokens stay backed to the last unit; rounding costs less than a unit |
| Fee rates (not modelled), `common/btc/fees.py`, `service.py:1165` | cached answer | estimate, check | honest nodes do not refuse each other's rate |
| Deposit addresses, `service.py:154-179`, `api/app.py` | users, addresses | `generate_deposit_address` | one address per user, stored before it is shown |
| View of deposits (not modelled), `service.py:469-602` | cached block lookups | last scanned block, last deposits | a new deposit appears and stays |
| Monitoring, messengers, RPC clients, frontend, deployment | none of the bridge's | I/O | - |

How they interact: every node runs the main loop in one thread; a Pyro daemon thread
answers questions of the leader.  The leader is fixed by configuration
(`network.py:110`).  Leader and followers scan into their own databases, but only the
leader collects signatures (`network.ask`, one peer after the other) and sends
transactions.  The contract checks the signatures again.

What is hard: crashes between a database commit and a remote call; calls that raise
although they took effect; lost answers; the configuration of a node (fee, leadership)
changing at a restart; governance transactions between signing and mining; blocks and
reorganisations between the calls of one scan; two scans into one database; the wallet
spending an output whose deposit has not been processed.  `PROJECT.json` lists these
hazards at the lines where they bite.

## 2. Modules

| Module | Models |
|---|---|
| `FederatorSignatures` | the signature rules of `NBTEBridgeAccessControl.sol` |
| `FederatedMint` | abstract: a transfer is minted at most once, with the votes of a strict majority of the current members for exactly this transfer and amount |
| `RuneToEvm` | the direction Rune -> EVM: scan results, the leader's loop, peers, contract, governance, restarts |
| `RuneDepositScan` | `scan_rune_deposits` call by call against bitcoind, ord and the wallet |
| `FederatedPayout` | abstract: runes are paid only for burns, once by each member, and every member that has paid is missing from the quorum of the next payment |
| `RuneTokenToBtc` | the direction RuneToken -> BTC: burns, rows of every node, the leader's loop, signatures, wallet, broadcast, restarts |
| `CoinSelection` | `create_rune_psbt` output by output, and the checks of the nodes that sign |
| `TransferAmounts` | amounts and fees of both directions, with every rounding |
| `EvmEventScanner` | `scan_new_events` batch by batch, with its two users |
| `TapToRsk`, `RskToTap` | the two directions of the Tap bridge, with the contract as they see it |
| `PyroProxy` | the proxies of one peer, one after the other: handshake, calls, sequence numbers, timeouts, cached federators |
| `DepositAddresses` | concurrent requests for deposit addresses and the scanner that looks them up |
| `MC...` | instances of these modules for TLC |
| `RuneToEvmProofs` | theorems: refinement of `FederatedMint`; database and EVM agree; reverts have a cause |
| `RuneTokenToBtcProofs` | theorems: rows and payments agree; refinement of `FederatedPayout`; the wallet backs the tokens; what `CoinSelection` builds |
| `TapToRskProofs`, `RskToTapProofs` | theorems: what is sent, in what order, and what statuses say about it, in both directions of the Tap bridge |
| `RuneDepositScanProofs`, `EvmEventScannerProofs`, `AmountsAndAddressesProofs`, `PyroProxyProofs` | theorems about the two scans, about `TransferAmounts` and `DepositAddresses`, and about calls to peers |

How the modules fit together: `RuneToEvm` takes a scan as one step, whose steps are
`RuneDepositScan`; `RuneTokenToBtc` and `RskToTap` take rows as scanned in order, which is
what `EvmEventScanner` shows; `RuneTokenToBtc` takes a selection as any set of outputs that
covers the amount and does not contain one too many, which is `RunesAreCovered` of
`CoinSelection`; the calls to peers that the directions may lose are those that `PyroProxy` ends
with an error.

Operators whose comment begins with "Variant" are deliberately wrong versions of the
definition that follows them.  Substituted for it they make a property fail, which shows
that the property depends on that piece of code.

### RuneToEvm

A candidate is a node that may be configured as leader; its database and its loop are
modelled.  The other nodes only answer questions (`answer_sign_rune_to_evm_transfer_question`
reads nothing from the database, so a peer has no state but its fee setting).  A candidate's
database knows the deposit addresses, as it does when it was set up from a copy of the
leader's.

* One action per step between two database commits or remote calls.  The program counter
  `pc` walks through `run_iteration`: `idle` (scan) -> `confirm` -> `handle` -> for each
  deposit `sign` -> `ask` -> `send` -> `sending` -> `sent` -> `own` -> `handle`.
* A deposit stands for (txid, vout, rune).  Its net amount is named by the fee setting it
  was computed with, because that is the only input on which two nodes can disagree.
* A signature is a record of signer and message; recovering it against another message
  yields no federator.
* `Depth` abstracts confirmations to what the scan tells apart; the scan that sees a
  deposit at depth 3 is the last one to list it.  The scan is one action here, because it
  commits once; what happens inside it is the subject of `RuneDepositScan`.
* `TransactRaises` covers a `transact` that raises before or after the EVM node has taken
  the transaction.  `HandlingRaises` covers every other call that can raise, the balance
  check included.
* Transactions of one account are mined in nonce order.  A mined block is final: the
  code takes the first receipt it sees and has no notion of EVM confirmations here.
* `Restart` is a stop at any point and a start with any fee setting, as leader or not.

### RuneDepositScan

One action per remote call or database transaction of `scan_rune_deposits`.  A block is
named by its height; when a reorganisation removes the block whose hash is stored or in
flight, the height becomes that of the fork, since `listsinceblock` goes by the last
common ancestor.  Reorganisations are shorter than `btc_min_confirmations`
(`ScanAssumption`): that is what the setting is for.  Several scanners share one database,
the case the check "Last block changed ... while processing deposits!" is written for.

### RuneTokenToBtc

Every node has its rows; a candidate also has a loop.  `pc` walks through
`handle_accepted_rune_token_deposit`: take the next deposit, build a PSBT and sign it oneself, ask one peer
after the other, finalise, commit `SENDING_TO_BTC`, broadcast, commit the result.  A broadcast
may raise before or after bitcoind has taken the transaction.  A peer signs while its own row is `ACCEPTED`
(`answer_sign_rune_token_to_btc_transfer_question`), which is all that keeps two leaders
from paying without limit: a node that leads and pays has left that status.  The abstract
specification says exactly that, and no more: its `payments` are records of an id (the position among
the wallet's transactions), the burn and the node that paid, and a node may add one only while the
nodes that have not paid for the burn are a quorum.  Outputs are named, change becomes an output of
its own when the transaction is mined, and two transactions that spend the same output exclude each other.

### CoinSelection

Amounts in satoshis and the sizes of scripts are those of the code; outputs differ in satoshis, runes, other
runes, confirmations, whether they are change, indexed by ord, and usable.  One step per turn of the
two loops of `create_rune_psbt`; the exceptions end the selection.

### EvmEventScanner

A chain is a sequence of blocks, and a block a set of events, each with its log index: its position among
all logs of the block.  An event stands for its transaction.  A reorganisation replaces the last blocks by a
longer branch in which the old events may or may not occur, in other blocks and at other log indices.  A batch is fetched in one step; the
chain moves between batches.  Rows and last block are committed together; a retry limit, an
exception of the callback or a restart rolls back, and so does the unique constraint on transaction hash and log index
(`runes/models.py:304`).  That key depends on the block that an event is in.  The table of the Tap bridge has the transaction's index in its
key as well, and a unique column with the contract's counter (`tap_rsk/models.py:154`, `tap_rsk/models.py:176`), which no property
relies on.

`deep` is a history variable: it counts reorganisations that removed more blocks than the margin, and a fetched log carries
the count as its `era`.  `RowsMatchChain`, `ScanInvariant` and `EventsAreRecorded` promise something
only while there was none.  `SecondRowNeedsDeepReorganisation` holds regardless: it says that the constraint is not what keeps an
event from becoming two rows, but the margin.

### TapToRsk and RskToTap

Each node has its own tapd, so each deposit has a home: the node that gave out its address.  Rows, batches and
statuses are those of the database.  A follower that signs a batch stores it without its
transfers, in the table it would take its own batches from; `TapToRsk` keeps that, since it
matters when the leadership moves.  An answer that is lost after the follower has stored the batch, and a
`transact` that raises before or after the node has taken the transaction, count against one bound, `MaxIncidents`, together with restarts and the owner's changes.
The order of a batch is the order of insertion: the column it is sorted by (`models.py:193`) is always NULL in
this direction.  A scan inserts its new deposits in the order of their addresses, which is any order of the
deposits.  The contract is `acceptTransferFromTap`, the processed
transfers, the assets, the federators and the threshold, which the owner may change.  In the other
direction nobody signs: a node sends from its own tapd, and `SentInOrder` is a statement about
each node.  Two leaders send everything twice; the code has nothing against it.

### PyroProxy

A connection is a number; a request that was sent is executed by the peer at any later time, also after the
caller has given up, and its reply goes to the connection it came from.  Sequence numbers wrap
around after `SeqMod` (2^16 in the code, 2 in the run).  The connection is stored before the peer's handshake is validated and
stays when the validation raises (`client.py:445`), and a call over a stored connection validates nothing.  What keeps a
refused peer from being asked is `PyroNetwork`: it makes its proxies afresh for each question (`network.py:250`), calls each of them once and
lets go of one that raised.  So `dropped` marks a proxy whose handshake raised, which is not called again (`InHand`), and
`get_peers` replaces the proxy, cache of addresses included; between two of these steps a proxy may be called, released and
claimed by other threads as its class allows, more often than the network does.  A request remembers, as history, when its connection was
validated.  The server's side has a cache of its own (`bridge_ssl.py`), which is not modelled.

### DepositAddresses

Requests run at READ COMMITTED: an insert waits for a concurrent transaction that has inserted
the same key and then fails or goes on; statements and the commit are steps.  The sequence
of user ids is never rolled back, and the address is derived from the id.

### TransferAmounts

A holder may also burn tokens without a transfer (`RuneToken.sol:121`).  That is left out: it takes tokens away and leaves the runes, so that
with it the wallet holds at least, rather than exactly, what backs the tokens.  Amounts are exact: Decimals of 80 digits hold them.  The percentage is a fraction, every division truncates as in
`int()` and in Solidity.

## 3. Runs

| Run | Bounds | Shows |
|---|---|---|
| `rune_to_evm` | 3 nodes, 2 of them candidates, 1 deposit, 2 fee settings, 2 runes of which one is registered, failing calls, 1 restart, 1 governance transaction | sent once by a node; confirmed is minted, failed is not, except by the other leader; a revert has a cause outside the signature collection; statuses follow the life cycle; refinement of `FederatedMint` |
| `rune_to_evm_live` | 4 nodes, 3 required signatures, 2 deposits of which one may be spent, mempool of 1, fair peers | valid deposits are confirmed although the two peers that are needed may never answer in the same iteration |
| `rune_to_evm_resume` | 3 deposits, mempool of 2 | **violated**: see finding 1 |
| `rune_deposit_scan` | 2 scanners on one database, 1 deposit, 5 blocks, buffer = required = 2, 1 reorganisation, 1 restart | nothing missed, accepted is final, the last block only moves back with a reorganisation, deposits are accepted in the end |
| `rune_token_to_btc` | 3 nodes, 2 of them candidates, quorum 2, 2 burns, 1 output with the runes of both, 1 failing call, 1 restart, 2 governance transactions | sent is paid; the wallet backs the tokens; burns are paid; refinement of `FederatedPayout`, hence a leader pays once |
| `coin_selection` | all wallets of up to 4 outputs of 11 kinds, 2 amounts, 2 rates | what is spent may be spent, what is built is right, and a shortage is one |
| `event_scan` | 5 blocks, 2 events at 2 log indices, margin 1, 2 reorganisations of up to 2 blocks, batches of 2 blocks, 2 faults, 1 retry | the rows are the events of the scanned blocks; a second row of an event needs a deep reorganisation; events are recorded |
| `tap_to_rsk` | 3 nodes whose signatures are all required, 2 deposits, batches of up to 2, 2 incidents: faults, restarts or changes by the owner | sent once, one batch at a time, what is sent is accepted, finalised is settled, signed can be sent in full, the shown status advances, deposits are processed |
| `rsk_to_tap` | 2 nodes, 3 transfers, batches of 2, 1 failing call, 2 restarts | each node sends once and in order; the status tells what was sent; transfers are sent |
| `pyro_proxy` | 2 threads, 4 calls, sequence numbers modulo 2, 3 ticks, refetch after 2, 1 fault, 2 changes of the federators, any number of proxies | a reply belongs to its call; only peers that were validated, and federators lately, are asked; calls end |
| `deposit_addresses` | 2 requests at a time for one EVM address, which is a user of each of 2 bridges, 2 failures | one address each, credited to its user; requests end |
| `transfer_amounts` | deposits and burns of up to 7 units, 2 transfers, 3 policies, divisor 4, fee 15% | tokens stay backed, rounding is fair |

`WalletInvariant`, `InputInvariant`, `BatchInvariant`, `StatusInvariant` and `AddressInvariant` are conjunctions that
begin with the type invariant of their module; the type invariants of the other modules are theorems.  What follows from a
property is not checked beside it: `MintedOnce` and `PaidOnceByEachLeader` from the refinements, which are proved
too.

Why the bounds are enough.  Three nodes are the smallest federation in which a majority is not
everybody.  `rune_to_evm_live` has four, of whom three must sign: with three nodes the leader needs one peer, and signatures of peers
would never have to add up over iterations.  The wrong version of `ExtendedSignatures` that keeps only the signatures of the last iteration
indeed passes with three nodes and fails with four.  `config.peers` (`PeerOrder`) gives the order in which peers are asked, and `MaxDepth` is 2 in
this run, so that a deposit does not fall off the listing there; what the listing loses or not is `RuneDepositScan`'s subject.  One deposit meets every fault of the loop of `RuneToEvm`, two compete for the mempool, and a second leader
needs no second deposit.  Five blocks let a deposit be mined, removed, mined again and leave a window
of two confirmations, which is the least buffer `ScanAssumption` allows.  With a quorum of 2 of 3 a burn can be paid
twice, so that the limit of `FederatedPayout` is reached, and a single output makes the second payment wait for change and lets
leaders compete.  Four outputs suffice for runes in two of them, one for the fee and one to be skipped.  A margin of one
with reorganisations of one and two blocks is at and beyond the margin, and two log indices let an event come back at
its old index or at another one.  Two deposits make batches of one
and of two; all three signatures are required, so that a lost answer matters; two incidents let
the leadership move and return, a federator go and come back, or any two kinds of them meet.  Three transfers do not fit one batch.
A sequence number modulo 2 wraps around with the third message.  Two requests wait for each other's insert, and user
ids go up to 6, more than the requests and failures use.  Seven units with a divisor of four meet every remainder.
`LowPostage` and `Dust` of `RuneToEvm` and `Foreign` of `RuneDepositScan`, deposits that the code ignores or never
gets to send, are empty in the runs; the theorems hold for any.  The theorems of section 5 have no bounds.

Fairness is weak fairness of the threads that the code keeps running, and nothing more unless named here.

* The main loop runs for ever (`main_bridge.py:47-55`).  So the loop of a candidate in `RuneToEvm`, of the first leader in
  `RuneTokenToBtc` and `TapToRsk`, of the followers in `RuneTokenToBtc`, of every node in `RskToTap` and the scans are weakly
  fair as a whole, each as one disjunction: which of its steps the loop takes remains open.  A leader that comes
  later may do nothing.
* Blocks come: mining on the EVM and in bitcoind, and ord's indexing of blocks, are weakly fair.
* `RuneToEvm` is strongly fair to each peer's answers, whatever they are about: the loop asks again in every iteration, and a peer
  that never answers in time is a peer that is down.  It does not assume that two peers answer in the same iteration; that
  the stored signatures add up over iterations is what the run checks.  The run excludes governance, restarts and
  failing calls, which can stop a deposit for good (finding 1).  `RuneTokenToBtc` and `TapToRsk` need no fairness of
  peers: they refuse or lose answers up to the bound on faults.
* `RskToTap` is strongly fair to a scan that reaches the head: new transfers disable it again and again.  Its loop calls
  tapd without a timeout (`tap/client.py:171`), so fairness takes tapd to answer or fail in the end.
* `PyroProxy` is fair to the thread that owns the proxy, since a socket has a timeout, and `DepositAddresses` to the
  statements of each request.

Where the code may stop for good, the liveness property names it: a batch or deposit interrupted in a `SENDING` status, a
change of the leader, a batch signed without its transfers, a frozen bridge, a change by the owner.

## 4. Findings

1. `service.py:779` says "Raising an exception here is fine, transactions will just be
   resumed".  `SENDING_TO_EVM` is committed before (`service.py:745`), and only `ACCEPTED`
   deposits are picked up (`service.py:604-617`), so a deposit that meets the mempool limit
   stays in `SENDING_TO_EVM`.  The balance check (`service.py:761`) and a restart have the
   same effect.  `rune_to_evm_resume` shows it.

Observations from modelling the code, which no run claims:

* `multisig.py:379` and `wiring.py:43` add a confirmation before a user's output is spent,
  so that it is not "spent before it's processed".  Confirmations are counted at coin
  selection, later than the scan of the same iteration.  Two blocks in between suffice:
  the output is spent while its deposit is unknown or only `DETECTED`, and once ord has
  indexed the spending block the scan ignores it (`service.py:243-251`).  `RuneDepositScan` contains these
  steps, which is why `DepositsAreAccepted` excepts outputs the wallet has selected.
* `create_rune_psbt` estimates the size of a transaction with a change output
  (`multisig.py:429`) also when the inputs match outputs and fee exactly and there is none
  (`multisig.py:432-437`).  The nodes that sign estimate it as it is (`multisig.py:563`), find a
  fee more than a tenth too high (`service.py:1174`) and refuse; comments allow for a transaction
  without change (`service.py:1094`, `service.py:1113`).  `PeersAcceptChange` is therefore about
  transactions with change.
* "self-sign is implicit" (`tap_to_rsk.py:72`): with one required signature a batch is signed without any answer.
  The calls are then made from `zip` of the transfers and no signatures (`tap_to_rsk.py:135`), so
  none is made, the hash of the last one does not exist and the batch stays `SENDING_TO_RSK`.  `SignedInFull`
  excepts this threshold.
* A follower stores the batch it signs without its transfers (`tap_to_rsk.py:255`), and takes it up when it becomes the leader.
  A peer that it asks then signs no transfers, stores that (`tap_to_rsk.py:260`), and repeats the empty answer
  to the first leader when that asks about the same batch (`tap_to_rsk.py:248`), which drops it for its length.  If that
  peer's signature is needed the batch stays `CREATED`.  `DepositsAreProcessed` excepts it as `SignedBlank`.
* An event that a reorganisation deeper than the margin moves from a scanned block to a later one is fetched again.  At another log index
  it becomes a second row, so that a burn would be paid a second time; at the same one every later scan violates the constraint and is
  rolled back, and the bridge scans no more.  `RowsMatchChain` and `EventsAreRecorded` are therefore about margins that hold.
* The lookups of block times and numbers turn any exception into `None` (`service.py:588`) and are cached
  (`service.py:123`), so that one failing call of `getblock` hides the deposits of all
  pages opened at that block.

## 5. Proofs

`RuneDepositScanProofs` proves, for any number of deposits, scanners, blocks and
reorganisations, from `ScanAssumption` alone:

* `TypeCorrect`: the type invariant;
* `NoDepositIsMissed` and `AcceptedDepositsAreFinal`.  Neither is inductive.  The inductive
  invariant relates what a scan holds in its local variables to the chain: the stored
  last block and the one in flight are below every block that can still be removed, and the
  confirmations of the listing are a lower bound of the present ones, up to the depth of
  a reorganisation;
* `ScanWindowAdvances`: the action property, from the same invariant and the comparison at
  the commit.

`RuneToEvmProofs` proves, from `NodeAssumption`, `DepositAssumption`, `DepthAssumption` and `BoundAssumption`:

* `TypeCorrect`.  The type invariant alone is not inductive, because
  `send_rune_deposit_to_evm` cuts the stored list to the required number: `LoopInv` adds
  that the list is that long while the loop is about to send;
* `MintsAreAgreed`: `RuneToEvm` implements `FederatedMint` with `signed` as the votes.  The
  inductive invariant `VoteInv` says that every signature in an answer, a stored list or a
  transaction was made by its signer, and that a deposit with a mint is marked as processed.  At
  the step that mints, the contract has compared the signers pairwise
  (`checkFederatorSignatures`), so the map from positions to signers is injective and its
  range has as many members as the list: a strict majority of the federators of that
  moment, each of whom voted for this message.  Nothing is assumed of the leader;
* `DepositsAreMintedOnce`: from the refinement;
* `DepositsAreSentOnce`, `ConfirmedDepositsAreMinted`, `FailedDepositsAreNotMinted` and the
  action property `StatusesFollowLifeCycle`.  None is inductive.  `SendInv` adds what holds
  between the commits: while the loop sends, the deposit is `SENDING_TO_EVM` and has no
  transaction of this node (`SendingInv`); a deposit with a transaction is past `ACCEPTED`
  (`TransactionInv`), so that the commit of `SENDING_TO_EVM` comes before the only
  transaction; the stored hash is that of the deposit's own transaction, in the state the
  status claims (`HashInv`); what is minted has a successful transaction (`MintInv`);
* `RefusalsHaveACause`.  `CauseInv` adds that nobody has two signatures in a stored list, that a processed deposit has a
  successful transaction of some leader, and that until governance acts the contract is as it was deployed and everything
  on the way to it has a registered rune, the required number of signatures and no signer twice.  A deposit that is
  processed already was then sent by another leader, by `DepositsAreSentOnce`.

`RuneTokenToBtcProofs` proves, about `RuneTokenToBtc`, from `FederationAssumption`, `WalletAssumption` and `BoundAssumption`:

* `LeadersPayOnce` and `SentBurnsArePaid`.  `RowInv` adds what holds between the commits: a row
  exists only for a burn, a loop that is about to broadcast has committed `SENDING_TO_BTC` and has
  no transaction for this burn yet, and who has paid has left `ACCEPTED`.  Rows and loops are typed for any set of
  amounts in change outputs, since nothing here depends on them;
* `FrozenBurnsNothing`, from `FrozenInv`: freezing pauses, and only unfreezing allows to unpause;
* `PayoutsAreFederated`: `RuneTokenToBtc` implements `FederatedPayout`.  That every signer was
  `ACCEPTED` when it signed is not enough, since it may lead and pay later.  The argument orders the
  leaders that have paid for a burn, or hold a transaction for it, by the time when they started that transaction.
  Whoever has started signs no transaction that is started later: while it holds its own it leads, and a leader does
  not answer, and once it has paid its row is no longer `ACCEPTED`.  `OrderInv` says so, and that at every payment the
  nodes that started earlier leave a quorum.  The leader that started last finds all others that have
  paid missing among its signers.  The order is existentially quantified in the invariant, and each
  start extends it;
* `WalletBacksTokens`: `WalletInvariant`.  The inductive `RunesInv` says that the runes of the unspent outputs
  and those paid for burns are together what the wallet held initially (`Conserved`), and that a transaction
  under way returns all runes of its inputs but those of its burn (`BuiltInv`).  If every burn was paid once at most, the
  payments are no more than what was burnt, and the rest backs the supply.

The runes of outputs are sums over sets, which the community modules define by a recursive function that picks elements in
some order.  The prover knows no induction principle with an operator for the property, so the ones for numbers and
finite sets are lemmas about the set of instances for which the property holds (`NumberInduction`, `SetInduction`, from the well-founded
orders of the library).  `SumExists` shows that the recursion defines something, and `SumOfAdded` that the order does not
matter; `SumOfUnion`, `SumCongruence` and `SumOfIndexed` are what the theorems use.

The same module proves, about `CoinSelection`, from `KindAssumption` and `NumberAssumption`, for any outputs of the wallet and any
amounts, fee rates and limits, all five invariants of its run.  `SelectionInv` adds what the two loops leave behind:

* `SelectionSpendsSafely`: the first loop adds outputs with runes and the second one those without, each in the order of the
  list (`PassInv`), so that none is added twice;
* `SelectionCoversTransfer`: before the last output was added the runes were too few (`CoverInv`), and what the second
  loop adds changes nothing about the sum over the inputs with runes;
* `SelectionSpendsAll` and `SelectionIsAccepted`: there are only two shapes of the outputs, with change and without
  (`FundedInv`), and the estimate with a change output yet to come is the size of the transaction that has it (`Estimates`);
* `SelectionShortageIsReal`: the second loop has passed over no output that could pay (`AddedInv`).

`EvmEventScannerProofs` proves, from `ScannerAssumption`, for any batch size, margin, retries, faults,
blocks and reorganisations:

* `TypeCorrect`;
* `ScanInvariantHolds` and `RowsAreTheEvents`.  `RowsMatchChain` is not inductive, because it says
  nothing of a scan under way; `ScanInvariant` adds that the scan has found the events of the blocks
  before its next batch and goes no further than the margin.  The chain's steps rest on one
  lemma: while `deep` is 0, all but the last `Margin` blocks stay;
* `SecondRowsNeedDeepReorganisations`, however many reorganisations there are and however deep.  `EraInvariant` adds that the chain has no
  event twice, and that every log fetched since the last deep reorganisation is on the chain with at least the margin above
  it.  Two of them for one event are then the same log; a deep reorganisation begins a new era, in which nothing has been
  fetched yet.  The unique constraint is not used.

`PyroProxyProofs` proves, from the assumptions of `PyroProxy`:

* `TypeCorrect` and `RepliesMatchCalls`.  Sequence numbers cannot show this: they wrap around, and the
  theorem holds for a modulus of one.  `NumberInv` says that no request is on a connection that is yet to be made, and
  `QuietInv` that nothing is under way on the open connection between calls, and during a call nothing but its own
  request or reply.  It holds because every error closes the connection;
* `PeersAreFederators`, from `PeerInv`: what is cached was listed at the time the cache is dated with, and the peer of an open
  connection was a federator less than the refetch interval before it was validated, unless the proxy has been dropped; so the
  connections that were never validated are those of dropped proxies.

`AmountsAndAddressesProofs` proves, about `TransferAmounts`, from `AmountsAssumption`, for any divisor, percentage and policies:

* `AmountsAreNaturals` and `TokensStayBacked` together: a balance stays a natural
  number only because tokens are backed, and they stay backed only if the amounts are natural;
* `RoundingStaysFair`: the net amount is what is left after the fee, short of less than one unit;

and about `DepositAddresses`, from `AddressesAssumption`, for any users and any number of requests at a time:

* `UsersHaveAddresses` and `DepositorsAreCredited`.  Rows alone do not show either, because a request first reads and
  then writes.  `RequestInv` says what a request's transaction may rely on: an id it has taken belongs to nobody else
  until it commits (`Fresh`), and what it is about to insert is the address derived from that id.  `RowsInv` makes ids and
  users one to one, `ShownInv` says that what was shown is committed, and `DepositInv` follows deposits from the
  shown address to the user that the scanner looks up.

`RskToTapProofs` proves, from `FederationAssumption` and `BoundAssumption`, for any number of nodes, transfers and incidents and any
batch limit:

* `TypeCorrect`;
* `SendsInOrder` and `StatusesAreTrue`.  Both follow from `CutInv`: the batches of a node cut the events it has scanned
  into consecutive pieces, and what its tapd has sent ends where the last batch begins or where it ends.  `StepInv`
  relates the program counter to the status of the current batch, which is always the last one; so a batch whose
  `SENDING_TO_TAP` was interrupted is never followed by another, which is why nothing is sent twice.

`TapToRskProofs` proves, from `FederationAssumption`, `DepositAssumption` and `BoundAssumption`, for any number of nodes,
deposits and required signers, any homes of the deposits and any batch limit:

* `TypeCorrect`;
* `BatchesAreSound`: `BatchInvariant`;
* `TransfersAreSentOnce`, `FinalizedMeansSettled` and `ContractAccepts`;
* the action property `StatusAdvances`.

The proof has two stages.  The first goes through the actions once.  `LoopInv` is inductive on its own: types, the status
of the current batch at each program counter (`StepInv`), rows without repetition on the node's own addresses (`RowsInv`), and
batches that cut the rows into pieces, empty ones for batches signed for another node (`CutInv`).  From it a deposit is in one
place of one batch of one node (`OwnTransfers`, `LinkedOnce`).  `LoopInductive` shows beside it that every step has the
shape `Shape`: which batch may change and how, which transaction may be added, what mining may do.  The second stage needs only
that shape.  `SignInv` says that a batch with transfers never carries its own node's signature, and peers' signatures for all of
its transfers or none.  `SendInv` and `TxInv` say that the transactions of a node that is sending are the first transfers of its
batch, and that every other transaction is of a batch that its node has begun to send: the next call is
therefore for a transfer that has none.  `SettleInv` keeps, from `SENT_TO_RSK` on, a transaction no later than the batch's hash for each
of its transfers; `MineInv` says that an account's transactions are mined in order, so that the last receipt
settles all.  `AcceptInv` says that, while the owner leaves the contract alone, the signers of a batch and the node that sends it
are as many as the contract requires; that no accepted transfer is sent again comes from `TransfersAreSentOnce`.

Only proved, and in no run: the type invariants that are not part of such a conjunction (section 3), `ScanInvariant`, `EraInvariant`, `MintedOnce`, `PaidOnceByEachLeader` and
`NoTransferWhileFrozen`.

Only model-checked: the liveness properties (`DepositsAreConfirmed`, `DepositsAreAccepted`, `BurnsArePaid`, `EventsAreRecorded`,
`DepositsAreProcessed`, `TransfersAreSent`, `CallsEnd`, `RequestsEnd`), which depend on fairness and are out of the prover's reach.
Every invariant and every action property of the runs is a theorem as well.

## 6. Not modelled

* What an exception of one bridge, or a ping, costs the other bridges in the same iteration of the main
  loop: each direction's fairness says what the loop gives it.
* Fee rates: a number that is estimated and compared within wide limits; a leader whose rate is refused asks
  again with a new one, which `RuneTokenToBtc` has as a peer that does not sign.
* The page's view of pending and last deposits and the queries of the monitor: they only read.
* Messengers, RPC clients, the frontend and deployment scripts: I/O without bridge
  state (what the calls may return or raise is in the actions that make them).
* `BTCAddressValidator.sol`, `RuneUtils.sol` and `TapUtils.sol`: functions on strings, whose model would be
  their code.
* Rune registration requests, withdrawals of fees, role administration and upgrades of the contracts: the
  directions see only their effects, which are governance actions there.
* The creation of Tap deposit addresses, a single insert after a call of tapd.
* The superseded `RuneBridge_v00.sol`; ECDSA, hashing, SSL, PSBT encoding, PostgreSQL's and Pyro's own
  workings, which are taken to be right.
* Eviction of transactions from mempools, and reorganisations of the EVM beneath a receipt the code has seen.
