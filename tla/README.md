# Validator funding pool: specification, model checks and proofs

This directory specifies the validator funding pool in TLA+, checks the
specification with TLC on small instances and proves the safety results about
the contract and the commands with TLAPS, for every number of accounts and runs
and every amount. Every definition that stands for code names its source lines in
`PROJECT.json`.

- [The system](#the-system)
- [Modules](#modules)
- [What each run checks](#what-each-run-checks)
- [Fairness](#fairness)
- [What is proved](#what-is-proved)
- [Where the code and its documents differ](#where-the-code-and-its-documents-differ)
- [What is not modelled](#what-is-not-modelled)
- [Plan](#plan)

## The system

One Ethereum validator is funded by an operator and up to 32 participants.

| Part | State | Operations |
| --- | --- | --- |
| `ValidatorFundingPool.sol` | phase, number, deadline and membership of the funding attempt; active funding, refunds, credits and claims per account and in total; a reentrancy lock; its ETH | commit and predeposit 1 ETH, open an attempt, fund, close an expired attempt, top up 31 ETH, request an exit, refund, claim |
| `FeeRecipientForwarder.sol` | its ETH | receive, sweep everything into the pool |
| command scripts | what a run read and printed, the transaction it signed, its receipt | one command per operation of the contracts; each checks first, signs once, waits, and judges what was mined |
| beacon preflight (`scripts/lib/common.ts`) | what the beacon node answered | absence of a validator before the predeposit; credentials and freshness before funding and top-up |
| deployment record, integrity checks | a JSON file; nothing in memory | written by two commands, compared with the chain and the local build by all |
| deposit-data file, its validation | a JSON file somebody else wrote | two entries selected, compared with the pool, the node and each other |
| network configuration, signer selection | what the environment declares | a chain is pinned, an account chosen among those the connection lists |
| transaction fields | nothing | gas and fees chosen from three reads |
| `status`, parsing, error reporting | none | |

How the parts interact:

- The pool calls the deposit contract (twice), the withdrawal-request predeploy
  and the recipients of refunds, claims and change. Each callee may call the
  pool again while its call is open. `fund`, `receive`, `closeExpired...` and
  `openFundingAttempt` take no lock.
- ETH reaches the pool by `fund`, by plain transfers (funding in `Funding`,
  proceeds in `ToppedUp`, refused otherwise) and with no call at all.
- A command reads the pool and the beacon node by separate requests, then
  prints, waits for a person and a device, signs, and waits for a block. The
  chain moves between any two of these.
- A command's verdict comes from the receipt of whatever was mined at the nonce
  it used, and for `sweep` from the balances and logs of that block.

What is hard about it, and what makes each part correct:

| Part | Hard behaviour | Correct if |
| --- | --- | --- |
| pool | reentrant calls; attempts that follow one another; rounding; ETH that comes uncalled; a deadline | ETH is conserved, all debts can be paid at once, weight is paid for, shares do not depend on who claims when, refunds are never lost, every attempt ends |
| fund command | stale and torn reads, several runs, replacement at the nonce, a swapped device, declarations that fit one attempt and not the next | it reports success exactly when its payment was credited; nothing reported is missing; donations have known causes; what was printed and declared is one attempt's |
| operator commands, deposit data | a step that cannot be undone; files, nodes and declarations that do not fit together; overlapping runs; other tools | what is committed, and what others are led to fund, is sound; each step is reported once |
| signer selection | accounts of the node beside the device's; a chain number that passes through a float | the declared signer on the declared chain, or nothing |
| transaction fields | the chain moves between the reads and until the inclusion | what is signed is valid and stays so; gas runs out for named causes only |
| sweep command | others acting in the same block | a sweep that landed is not reported as lost |
| beacon preflight | reorganizations, deposits by others, a node that lags, a slow operator | the 31 ETH go to the pool's validator; nothing unseen is signed |
| claim and refund commands | a recipient the device does not show, amounts that move, two runs for one balance, replacement at the nonce | a payout is reported exactly when it happened as composed; others cannot make it smaller than printed |
| request-exit command | an endpoint that names another validator, old beacon answers, epoch boundaries, a fee that moves, requests dropped in silence | a checked request is not lost; a signed one reverts for the fee only |
| deploy commands, the record, integrity | overlapping runs, a crash at any step, a file without a lock, artifacts that mask too much, contracts that lie | what is on disk names checked contracts that belong together, and the declared pool; commands act on the sources' contracts only; a broken forwarder closes no way out |

`PROJECT.json` lists the hazards line by line with the property that covers each.

## Modules

| Module | What it is |
| --- | --- |
| `WeiSums` | `SumOver(f, S)`, the sum of amounts over a finite set, defined by cardinality so that it needs no recursion and can be reasoned about |
| `ValidatorFundingPool` | the contract |
| `FundingEscrow` | what the contract promises its accounts, in five variables |
| `PoolImplementsEscrow` | the refinement mapping between the two |
| `SenderVerifiedReceipt` | which mined transactions a command accepts as its own |
| `FundCommand` | runs of `scripts/fund.ts` beside the pool, from the review on |
| `DepositData` | the deposit-data file: selection and validation of entries, the match with the beacon node |
| `SignerSelection` | which chain a command is connected to and which account it signs with |
| `OperatorCommands` | runs of `scripts/commit-predeposit.ts`, `open-funding-attempt.ts`, `top-up.ts` and `close-expired-funding-attempt.ts` beside the pool, and of `fund.ts` up to its review |
| `TransactionFields` | the gas limit and fees every command signs, while the chain moves |
| `SweepCommand` | the forwarder and one run of `scripts/sweep.ts` beside the pool |
| `BeaconPreflight` | the beacon checks of `commit-predeposit`, `fund` and `top-up` |
| `PayoutCommand` | runs of `scripts/claim.ts` and `scripts/refund.ts` beside the pool |
| `ExitCommand` | runs of `scripts/request-exit.ts` beside the pool, the withdrawal-request predeploy and the consensus layer |
| `RuntimeCode` | the comparison of code on chain with the local build, immutables masked |
| `DeploymentIntegrity` | the checks of a deployment record that every command makes |
| `DeploymentRecord` | runs of `scripts/deploy.ts` and `scripts/deploy-forwarder.ts`, the file they write, and the commands that read it |
| `MC*` | small instances for TLC |
| `ValidatorFundingPoolProofs` | theorems about the contract and its refinement, with the lemmas on sums |
| `FundCommandProofs`, `OperatorCommandsProofs`, `PayoutCommandProofs`, `SweepAndExitProofs` | theorems about a command beside the pool, the last about two; each extends the proofs of the pool |
| `TransactionFieldsProofs`, `BeaconPreflightProofs`, `DeploymentRecordProofs` | theorems about those three |

Operators ending in `_Mutant` are never used by a specification: each is a
plausible slip in the operator that follows it, and each property is shown to
notice one.

### ValidatorFundingPool

Variables and actions have the names of the contract. A reverting transaction
changes nothing and is no action, so every `revert` is a conjunct of a guard.
Three groups of reverts are not guards because they never fire: the checked
additions (amounts are bounded by the ETH in existence), the checked
subtractions and the subtraction in each `AccountingSnapshot`. That those never
underflow is what `TypeOK` and `Solvent` say.

A handler that calls out of the pool is two actions: `refundTo` up to the call
pushes a frame on `calls`, `payoutReturns` is the rest. `requestExit` has three,
because it may call twice. Between them every handler is enabled that its own
guard allows, so reentrancy is explored to depth `MaxDepth` by all callees.
`Enter` and `Leave` are the two halves of `nonReentrant`.

- `balance` is the pool's ETH. `value` arrives with the call; a callee that
  refuses ETH is a revert of the whole transaction and so a stutter.
- A payment of the pool to itself would run its own `receive`.
  `_validateRecipient` excludes it, so it never happens; `SendEth` nevertheless
  says what it would do in `ToppedUp`, where `receive` keeps the ETH, so that the
  exclusion matters: without it `BalanceExplained` fails. (In `Funding` it could
  only be credited to the pool as a listed participant, which is left out.)
- `predepositSubmitted` also stands for the committed pubkey, written with it.
- `topUpRootValid` is chosen when the data is committed: the pool only knows
  that the root is not zero.
- The loops over the participants are taken at once; no address occurs twice in
  the list (`AttemptIsConsistent`).
- `now` moves only between transactions. `proceedsIn` is a history variable: the
  ETH that arrived and was nobody's funding.

The accounts of the model have no balances of their own, so where a payout goes
matters only in that it leaves the pool.

### FundingEscrow

`held`, `owed`, `stake`, `received`, `paid`: contributions are given back or
turned into stake all together, stake is what was contributed, and a payment
brings an account exactly up to its share. There are no attempts, deadlines,
balances or calls in it. The pool maps `held` to the active funding of an
attempt whose top-up was not submitted, because the contract leaves the active
amounts of the attempt that topped up in place.

### FundCommand

Each run is a sequence of steps: the attempt's number, the terms of the review,
amount, estimate, the reads of `assertStillFundable` that can refuse (in any
order, because the code issues them together; the operator's target comes after
the others), signature, verdict. The
transaction goes to a `mempool`, may be replaced there at its nonce, and is
mined in nonce order against the pool as it then is.

- The endpoint is honest and answers between transactions.
- The deadline and the timestamp it is compared with are one read in the model:
  if any pair of answers passes, a moment in between passes too.
- A run that gives up waiting takes no further step. A pure reprice is the same
  transaction.
- `pins` are the `EXPECTED_*` variables of a run: for each that is set, the
  values it accepts. Most runs set none, which is the command with the least
  protection. A target that is not pinned decides nothing and is not read.
- The review is read term by term: the number of the attempt, the deadline, then
  the targets, in any order, because the participants are listed as they stand
  and an attempt opened in between may reorder them. So a review that mixes two
  attempts exists, and `SignedReviewIsOfOneAttempt` says that it is never signed.
  What is printed and compared with nothing (totals, the other participants) is
  left out.
- The beacon checks are in `BeaconPreflight`, what precedes the review is in
  `OperatorCommands`, the integrity checks in `DeploymentIntegrity`.
- Other accounts open, close, fund and top up. Refunds, claims, exit requests
  and silent ETH are left out, because nothing a run reads depends on them.

### SweepCommand

A block is what happens between two ticks of the pool's clock. The forwarder is
an account of the pool (it may even be a listed participant). When the block of
the command's sweep ends, the model records what the pinned reads return: both
balances at the end of the block before, the pool's at the end of this one, and
the sum of the outflow events of this one, taken as increments of the totals
that the same handlers update. The verdict is the two comparisons of
`assertSweepWasCredited`. Its first check, that the receipt has exactly one
`Swept` event, always passes with the forwarder modelled and is left out.

### BeaconPreflight

The consensus layer is external and is modelled from what the checks rely on:
the first deposit for a pubkey fixes the credentials, later ones add to the
balance, anyone may deposit, and what is not final can be undone and ordered
anew. The node follows the chain with delay. A healthy answer does not mean that
it has caught up: it may lag a few slots and still report neither syncing nor
optimistic, so all the model takes from it is that at that moment the node has
followed what is final, two epochs back. It may lag further at the next request,
which the code sends in parallel with it. One run of `commit-predeposit` and one of `fund`
or `top-up`, whose preflight is the same code.

### PayoutCommand

`claim` and `refund` are one program up to the balance they read and the
function they call, so a run chooses between them. It prints a recipient and an
amount; what the device signs may name another recipient, because calldata is
not rendered; the transaction then waits, may be replaced and is mined in nonce
order, as in `FundCommand`, and the verdict is `senderVerified` and
`assertPayoutReachedRecipient`. A recipient that refuses ETH is a revert, which
is possible at any time. The participant's payouts are made by the runs only;
everybody else uses the pool freely. The amount is reported and not compared, so
`ShortPayoutsHaveACause` says what the comparison would have found: with the
pool's accounting, nobody else can reduce what was printed.

### ExitCommand

A tick of the pool's clock is a slot. The fee changes and queued requests are
processed when a block ends. The preflight's reads are separate steps, and the
answer of a node that lags is the answer of an earlier moment, so lag and age
are one thing. The consensus layer is external: activation, slashing, a
voluntary exit with the validator's own key, and `process_withdrawal_request`,
which honours the first eligible request and drops the others. Requests of other
validators share the queue, so any number of the pool's may be processed in a
block. Each account runs the command once; without `BEACON_NODE_URL` it skips
the preflight. The endpoint says which validator is the pool's and may name
another; a deposit-data file that can be read must name the same one, one that
cannot is passed over. The credentials are compared in `BeaconPreflight` and assumed
here. The pool's life ends with the top-up and the exit requests: payouts change
nothing an exit depends on.

### DepositData, SignerSelection, OperatorCommands

A deposit-data file is a sequence of entries. A root is the tuple it is the
hash of, and a signature the message and the key that made it, so that hashing
and the curve are taken to be perfect and everything built on them is checked:
which entries are found (the search parses the amounts it passes and no others),
which fields are compared with what, and under whose fork version. The file may
be another for every run. What the pool does with the data, and what the deposit
contract would do with the top-up, follow from the roots.

A connection is the network, the endpoint's chain, the accounts the node lists
and the declarations of the environment. `AsNumber` is what `Number()` does
beyond the safe integers (one bit is lost), with the largest safe integer set
to 5.

A run connects, prepares (everything it reads before its estimate is immutable
or its own), estimates, signs and concludes, in the order of the code's
refusals. Its transaction waits, may be replaced at its nonce and is mined in
nonce order. The operator also acts by other means, with data the deposit
contract takes whether it is sound or not: `FundedCommitmentsAreSound` is about
what a participant's run of `fund` does then. The beacon checks of these
commands are in `BeaconPreflight` and pass.

### TransactionFields

The estimate, the fees and the block gas limit are three reads. Between them
and until the inclusion blocks are built, each of which moves the base fee by
an eighth at most (by one wei below 8) and the gas limit by less than 1/1024,
and others deposit, which changes the number of hashes of the deposit contract's
Merkle update. Percentages and constants are the code's; numbers of the instance
are small, so that every rounding happens.

### RuntimeCode, DeploymentIntegrity, DeploymentRecord

Code is a sequence of bytes, an artifact its code and the ranges of its
immutables. `RuntimeCodeMatches` is the code's comparison: same length,
plausible ranges, equal after masking. `Integrity` is `assertDeploymentIntegrity`
with its three scopes: a command authenticates the forwarder, leaves it alone, or
(`status`) reports on it after printing the pool. A contract is its code and what
its getters report; only the code of the sources must report the truth.

A run starts as one of the commands with one environment, reads, checks, sends,
checks what landed, and writes in two steps, because `writeFileSync` empties the
file and then fills it; it may end before any of them (`Crash` is also an
endpoint that fails and an operator that gives up). `AnotherRecord` is the
environment selecting another file, or somebody replacing it. The immutables of
the model's contracts hold one value each; artifacts within
`MAX_MASKED_IMMUTABLE_BYTES` and with plausible ranges are taken as solc's, as
the code takes them.

What the model also shows, and no property claims: of two overlapping runs the
last to write wins, so the other's record is lost; its contract then exists on
chain under no record, which the output of that run still names.

## What each run checks

| Run | Instance | Distinct states | Question |
| --- | --- | --- | --- |
| `pool_safety` | two accounts, two attempts, calls one inside another, 5 ticks, 3 wei of proceeds, one exit | 325,000 | all safety properties of the contract, and the refinement |
| `pool_three_accounts` | three accounts; lists of one to four addresses with the pool and the zero address in them; fairness below | 158,000 | attempts end, refunds and claims are paid, with membership that changes between attempts |
| `fund_two_runs` | two plain runs for one signer, or one with pins, calldata or another device; transfers, two attempts; two runs do not review at once; they are interchangeable (symmetry) | 2,820,000 | verdicts, reported funding, causes of donations, one attempt reviewed, declarations |
| `fund_reviewed_attempt` | one run | violated | is the reviewed attempt the funded one? |
| `sweep` | operator and forwarder, attempts with and without the forwarder, 2 rewards | 3,609,000 | verdicts of the sweep |
| `sweep_shared` | the same with 3 rewards | violated | can the forwarder fall short? |
| `beacon_preflight` | four deposits | 137,000 | custody, absence, nothing unseen |
| `payout` | two runs for one participant, two attempts, 6 wei of proceeds; a run with another recipient (the operator, the pool) or device has the pool to itself; the runs are interchangeable | 3,772,000 | verdicts, causes of short payouts |
| `exit` | two accounts ask, three fees, default and configured caps, epochs of two slots; a run about another validator or without a file is the only one | 4,736,000 | requests dropped, requests reverted |
| `deployment_record` | three runs, four pools, four forwarders, ten records, ten environments; a run that is not plain has the file to itself | 605,000 | coherence of the record, the declared pool, contracts acted on, forwarder and ways out |
| `transaction_fields` | three blocks, five deposits, four base fees, costs from far below to above the ceiling | 256,000 | validity of what is signed, causes of running out of gas |
| `operator_commands` | two runs, twelve files, four nodes, eleven connections, two attempts; a run that is not plain has the pool to itself | 825,000 | verdicts, single reports, soundness of the commitment, signer and chain |

One wei of the model stands for one ETH of the predeposit and three for the 31
of the top-up (one for `sweep` and `exit`, where amounts do not matter), so that
targets of several sizes, partial funding, an operator that owes nothing itself and
divisions with a remainder all occur.

The bounds and why they are enough. Two attempts, because every fact about
attempts relates one to the next and `AttemptIsConsistent` says that nothing
else is carried over; a clock long enough for both to expire. Reentrancy two
frames deep in `pool_safety`, which the code never reaches: the lock admits one
(`CallDiscipline`, proved for any depth), and the mutant without the lock shows
what the second would do. Proceeds up to three, so that claims, rounding and
later proceeds that make dust claimable occur. In `fund_two_runs` one other
account, since everybody but the signer enters only through the state of the
attempt; two runs do not read their reviews at once, because such reads change
nothing for the other run. Four deposits for `BeaconPreflight`: the pool's two, one of another
before and one between. In `payout` six wei of proceeds, so that a claim of
several wei can be split between two runs with new proceeds in between, and two
attempts, so that a refund can be made of two; only runs that pay their
participant from its own device overlap (`OnlyPlainRunsOverlap`), because what
a substituted recipient or device does to a verdict does not depend on another
run. In `exit` epochs of two slots and five slots in all, so that activation,
the waiting period and the processing of a request can each fall on both sides
of an epoch boundary; fees 1 to 3, so that the fee can exceed its double. In
`deployment_record` three runs, so that a file emptied by two of them is read
by a third; a run with an unusual environment or record overlaps with nobody,
because what the checks decide does not depend on others, and what overlapping
writers do does not depend on the checks. In `operator_commands` the same holds:
bad files, declarations, devices and replacements concern one run, overlapping
concerns plain ones, which differ in the validator. No fork version is pinned
there (`forkVersionPin = Unset`: a chain the repository does not know), which
leaves the declaration to decide; the canonical system contracts are pinned in
`deployment_record`. In `transaction_fields` three blocks, one more than the cap
promises, and five deposits, so that a count may cross a multiple of eight; that
the gas fits for as many as 51 blocks is proved only.

`CHECK_DEADLOCK FALSE` throughout: the bounded clock and proceeds run out, a run
ends, and nobody is obliged to act.

The properties of the pool:

- `LedgersAddUp`, `BalanceExplained`: totals are sums; every wei is accounted
  for, also while a call is open.
- `Solvent`: refunds of all earlier attempts and the open attempt's funding, or
  after the top-up every claim, can be paid at once.
- `ClaimsMatchShares`: claimed plus claimable is the pro-rata share of all that
  ever arrived, whoever claimed before.
- `CreditsAreBacked`: final weight is what was funded, plus the predeposit.
- `AttemptIsConsistent`: list, index, targets and funding describe one attempt.
- `RefundsPaidWhole`: a refund goes down only by being paid, once and whole.
- `ImplementsEscrow`: the refinement.
- `AttemptsEnd`, `RefundsArePaid`, `ClaimsArePaid`: liveness.

Of the commands: `VerdictsAreRight` (success is reported exactly when the
transaction composed was mined, from the right account, and credited),
`ReportedFundingIsHeld` (what the successful runs report together is on the
pool's books), `DonationsHaveTwoCauses` (with an honest endpoint, a transfer
ends as proceeds only if a later attempt topped up, or if another run of the
same signer was credited; ACCOUNTING.md argues this in prose),
`NoFalseShortfall`, `ShortSweepWasShared`, `TopUpIsThePools`,
`PredepositAvoidsKnownValidator`, `NothingUnseenIsSigned`,
`PayoutVerdictsAreRight` (the payout that was composed is the one that is
reported), `ShortPayoutsHaveACause`, `CheckedRequestsAreNotLost` (a request that
passed the preflight is dropped only when the validator is exiting anyway,
however old the answers; or the endpoint lied about the pubkey and no file was
there to contradict it), `OnlyAFeeSpikeReverts` (nothing else about the pool
can invalidate a request between estimate and block; with the default cap the
fee must more than double), `WrittenRecordsAreCoherent`, `DeclaredPoolStays`.

Of the reviews and declarations: `SignedReviewIsOfOneAttempt`,
`DeclaredTermsAreFunded` (what is credited in the reviewed attempt has the terms
the environment declared). Of the operator's commands:
`OperatorVerdictsAreRight`, `OneReportPerStep` (of all overlapping runs, one
reports a commit, a top-up, an opening or a closing), `IrreversibleStepsAreSound`
(commit and top-up), `FundedCommitmentsAreSound`, `RunsSignAsDeclared` (chain and
signer). Of the record:
`ActsOnCheckedContracts` (a command signs only for a contract that the sources
build and a record that tells the truth about it), `DeclaredForwarderIsNotIgnored`,
`EscapeHatchIsOpen`. Of the fields: `CapOutlastsFullBlocks`,
`SignedFieldsAreValid`, `OutOfGasHasACause`. The fee cap covers the two full
blocks its comment promises only from a base fee of 8 wei up ([see
below](#where-the-code-and-its-documents-differ)).

## Fairness

Only `pool_three_accounts` assumes any: time passes; a call that was made returns (a
transaction is finite); somebody closes an expired attempt, which anyone may do
and every funder wants to; an owner with a refund or a claim collects it, to
itself. Weak fairness is enough: each of these stays enabled once it is, except
while a call is open, and calls return. In particular nobody needs to fund, top
up, or send proceeds. An account that refuses ETH is not owed liveness by the
contract and has `refundTo` and `claimTo`; the model assumes that collecting
succeeds.

## What is proved

`tlapm` checks every step of the eight proof modules. What is proved is about the
specification and not about an instance: the bounds of the runs are arbitrary
naturals, the sets of accounts, runs, files, environments and amounts arbitrary,
so the theorems hold for executions of any length and for any depth of reentrant
calls. The state constraints that keep TLC's instances small
(`OnlyPlainRunsOverlap`) and the symmetry are in the configurations only: the
proofs are for runs of every kind, overlapping as they like, which is the
argument that the constraints hide nothing.

Safety is proved for every property of the passing runs; three liveness
properties are [model-checked only](#only-model-checked).

### Assumptions

| Where | What is assumed of the constants | Why the code justifies it |
| --- | --- | --- |
| `ValidatorFundingPool` | finitely many accounts, the operator among them, the pool and the zero address not; natural amounts; predeposit and top-up positive and adding up to the deposit; a positive window | the constructor's checks and constants |
| `FundCommand` | the funder and the keys are accounts; finitely many runs; a run pins the four variables there are | `EXPECTED_*` in `fund.ts` |
| `PayoutCommand` | recipients are addresses; the mark of a call that names no recipient is none | |
| `ExitCommand` | who asks is an account; an epoch has a slot; `FAR_FUTURE_EPOCH` is later than the end of the run | it is 2^64 - 1 |
| `OperatorCommands` | the operator's other means commit two entries that can be found; the chain has a fork version; a node lists accounts; an entry that is found has a pubkey | the pool refuses a wrong length; `DepositData` parses what it finds |
| `TransactionFields` | a base fee of 7 wei at least; a block gas limit of 1024 at least; a transaction that costs gas; natural tips, costs of a hash and deposit counts | EIP-1559 does not lower a base fee below 8 wei by a whole wei; the protocol's least limit is 5000 |
| `BeaconPreflight` | the two kinds of credentials differ; deposits are positive | the deposit contract's minimum |
| `DeploymentRecord` | records have the fields the parser requires; the sources compile to code with plausible ranges; code of the sources reports the truth; an artifact is what solc wrote for the sources, or is missing, implausible, or of the length of no contract there is | the last is the trust every command puts in `artifacts/` and its solc: an artifact somebody forged, with plausible ranges and the length of a contract on chain, is what the comparison is made with |

TLC evaluates all of them on the instances.

### The pool

`IInv` is the inductive invariant: `TypeOK`, `LedgersAddUp`,
`AttemptIsConsistent`, `CallDiscipline`, `CreditFacts`, `BalanceExplained`,
`ClaimsWithinShares`. None of the first few is inductive alone. Conservation
needs to know what the deposit contract has received, hence the lock and the
frames (`CreditFacts`, `CallDiscipline`); the credits need the attempt to be
complete when they are written; a claim keeps `ClaimsWithinShares` only because
gross proceeds equal `proceedsIn` while no change is held, which is
conservation again. There is one lemma per action and conjunct group, after the
facts about sums: changing one account, clearing a list, summing over distinct
addresses, monotonicity.

| Theorem of `ValidatorFundingPoolProofs` | Property |
| --- | --- |
| `InvariantHolds` | `IInv` |
| `TypeCorrect`, `TotalsAreSums`, `EtherIsConserved`, `AttemptsAreClean`, `WeightIsPaidFor` | `TypeOK`, `LedgersAddUp`, `BalanceExplained`, `AttemptIsConsistent`, `CreditsAreBacked` |
| `PoolIsSolvent` | `Solvent`: rounded shares of any number of holders never add up to more than the whole |
| `ClaimTimingIsIrrelevant` | `ClaimsMatchShares` |
| `RefundsAreNeverLost` | `RefundsPaidWhole` |
| `PoolImplementsTheEscrow` | `ImplementsEscrow`: initial states map to initial states, each action to an escrow step or a stutter |

### The commands

Each proof has the same shape. The invariant of a command is `IInv` and, for
each run, what it has established by its step. Steps of the pool are summed up
first in one fact of what they cannot take back (`PoolGoesOn` and its like), and
each conjunct about a run is shown to survive that; then there is one lemma per
step of a run. What makes the invariants stronger than the properties:

- `CommandIInv` (`FundCommandProofs`). A pending transaction belongs to one run
  that waits for it, and carries the calldata the run composed if it goes to the
  pool (`MempoolIsSound`). What a run has read, and no longer reads, holds in
  the reviewed attempt for as long as that attempt stands (`TermsStillHold`,
  `FunderStillOwes`): this is what links a read before the signature to a block
  after it. Attempts do not go back, so one later look at the number settles
  that two earlier reads were of one attempt (`ReviewIsSound`). For
  `ReportedFundingIsHeld` the credits of all runs are summed (`CreditsAreHeld`).
- `OperatorIInv` (`OperatorCommandsProofs`). A plan is sound from the moment it
  is composed, whatever is committed later by other means; a commit happens once,
  so what is committed is what the receipt says; `CallsAreMadeOnce` is
  `OneReportPerStep` about receipts, and needs that an attempt once closed stays
  closed (`ReceiptIsSound`).
- `PayoutIInv` (`PayoutCommandProofs`). `PromiseStands`: what was printed is
  still owed, or another run was paid from it. That `Enough` survives everybody
  else's calls needs conservation: a share is computed from the balance, and is
  the pro-rata part of proceeds that only grow. A replaced transaction is never
  the composed one, which is why accepting only the composed one is enough.
- `SweepIInv` (`SweepAndExitProofs`). `BlockIsSound` compares what the books say
  the pool was ever paid with what the balances and events of the block add up
  to. In the middle of a reentrant payout the two differ by what is in flight;
  the end of a block is between transactions, where `BooksAreSettled`.
- `ExitIInv` (`SweepAndExitProofs`). Answers may be of any earlier slot, but what
  they say of the activation epoch does not change, and who may exit may exit
  from then on (`Mature`). What was estimated stays allowed, because credits do
  not shrink; so only the fee is left (`SignedIsSound`).
- `FieldsIInv` (`TransactionFieldsProofs`). `RiseIsBounded` tells by how much the
  base fee can have risen one and two blocks after it was read: by 9/8 and 81/64,
  with the exception below 8 wei, where it rises by a whole wei. It starts with
  the read, before the signature. `KeepsDistance` does the same for the gas
  limit, without a root or a power: a limit that has 100/95 of the gas loses
  less than 1/1024 of what it is with a block, so after *n* blocks it has at least
  (1024 - *n*)/1024 of that. That leaves the gas room for 51 blocks,
  which is the bound `SignedFieldsAreValid` names.
- `PreflightIInv` (`BeaconPreflightProofs`). `PoolIsFirst`: from the first stage
  on, the first deposit is final and the pool's. What is final is not undone,
  so no later answer has to be trusted for it. For the absence check, a deposit
  that was final when the command began is at the node's head once the node
  answered healthy (`CommitIsSound`).
- `IInv` of `DeploymentRecordProofs`. All code on chain is known: it was there,
  is foreign, or was compiled from the sources (`ChainIsKnown`). So code that
  matches the local artifact is the sources' (`RuntimeCodeMatches` with
  plausible ranges; a lemma on masking), and then what it reports is the truth.
  A run keeps from one check to the write what the check found (`RunKnows`), and
  the file, when it can be read, is what one run wrote (`FileIsSound`).

| Module | Theorem | Property |
| --- | --- | --- |
| `FundCommandProofs` | `CommandInvariantHolds` | `CommandIInv` |
| | `FundVerdictsAreRight` | `VerdictsAreRight` |
| | `ReportedIsHeld` | `ReportedFundingIsHeld` |
| | `DonationsAreExplained` | `DonationsHaveTwoCauses` |
| | `ReviewsAreOfOneAttempt` | `SignedReviewIsOfOneAttempt` |
| | `DeclaredTermsBind` | `DeclaredTermsAreFunded` |
| `OperatorCommandsProofs` | `OperatorInvariantHolds` | `OperatorIInv` |
| | `OperatorReportsAreRight` | `OperatorVerdictsAreRight` |
| | `StepsAreReportedOnce` | `OneReportPerStep` |
| | `IrreversibleStepsHold` | `IrreversibleStepsAreSound` |
| | `FundedCommitmentsHold` | `FundedCommitmentsAreSound` |
| | `DeclarationsBind` | `RunsSignAsDeclared` |
| `PayoutCommandProofs` | `PayoutInvariantHolds` | `PayoutIInv` |
| | `PayoutReportsAreRight` | `PayoutVerdictsAreRight` |
| | `ShortfallsAreOnesOwn` | `ShortPayoutsHaveACause` |
| `SweepAndExitProofs` | `SweepInvariantHolds` | `SweepIInv` |
| | `SweepsAreCredited` | `NoFalseShortfall` |
| | `ShortSweepsAreExplained` | `ShortSweepWasShared` |
| | `ExitInvariantHolds` | `ExitIInv` |
| | `CheckedRequestsCount` | `CheckedRequestsAreNotLost` |
| | `RevertsAreFeeSpikes` | `OnlyAFeeSpikeReverts` |
| `TransactionFieldsProofs` | `FieldsInvariantHolds` | `FieldsIInv` |
| | `CapOutlasts` | `CapOutlastsFullBlocks` |
| | `FieldsAreValid` | `SignedFieldsAreValid` |
| | `GasRunsOutForACause` | `OutOfGasHasACause` |
| `BeaconPreflightProofs` | `PreflightInvariantHolds` | `PreflightIInv` |
| | `CustodyIsSettled` | `TopUpIsThePools` |
| | `KnownValidatorIsAvoided` | `PredepositAvoidsKnownValidator` |
| | `NothingIsSignedUnseen` | `NothingUnseenIsSigned` |
| `DeploymentRecordProofs` | `InvariantHolds` | `IInv` of the record |
| | `RecordsAreCoherent` | `WrittenRecordsAreCoherent` |
| | `DeclaredPoolIsKept` | `DeclaredPoolStays` |
| | `OnlyGenuineContracts` | `ActsOnCheckedContracts` |
| | `DeclaredForwarderCounts` | `DeclaredForwarderIsNotIgnored` |
| | `EscapeHatchStaysOpen` | `EscapeHatchIsOpen`, an action property |

### Only model-checked

- `AttemptsEnd`, `RefundsArePaid`, `ClaimsArePaid`: temporal proofs under
  fairness and `ENABLED` are beyond the prover.

## Where the code and its documents differ

1. *The funded attempt need not be the reviewed one* (`fund_reviewed_attempt`).
   SECURITY.md:153 lists "The funding attempt that was reviewed is the funding
   attempt that is funded" among the enforced invariants. The attempt is
   compared before the signature only, in reads that are not one snapshot, and
   the check of the receipt (`assertFundingWasCredited`) does not look at the
   attempt of the event. If the reviewed attempt is closed and another opened
   with the same signer in it, between two of these reads or while the
   transaction is pending, the payment is credited under the other agreement
   and the command prints `Funded`. No ETH is lost: it is active funding or a
   refund (`ReportedFundingIsHeld`).
2. *A forwarder can fall short honestly* (`sweep_shared`). A comment in
   `assertSweepWasCredited` (common.ts:4229-4231) says the forwarder's balance
   cannot have fallen between the read and the sweep. `sweep()` is open to
   everybody: if another caller sweeps earlier in the same block and a smaller
   reward follows, the signer's sweep forwards less than the balance of the
   block before, and the command reports as fatal that the difference "was not
   forwarded at all". `ShortSweepWasShared` shows that this is the only way to
   that report with the forwarder of this repository.
3. *The fee cap is not always the most the fee can rise to*. The comment on the
   cap (common.ts:3562-3564) says that the base fee grown by an eighth for each
   of two blocks "is the most it can rise if every one of them is full". A full
   block raises a base fee below 8 wei by a whole wei, and the cap rounds down:
   from 7 wei the fee may rise to 9 and the cap is 8 (`CapFallsShortAtTheFloor`,
   proved). The transaction then waits for the fee to fall; nothing is lost.
   From 8 wei up the comment holds, which `CapOutlastsFullBlocks` says, with one
   block at the floor.

The first two are runs that TLC must find violated; the third is arithmetic, and
a lemma.

## What is not modelled

- Parsing, formatting, printing and error wording; environment variables, but
  for what they declare. A value that does not parse is `Malformed` where a
  command goes on to compare it, and otherwise a run that refuses at once.
- The curve arithmetic and hash trees under deposit data, which `DepositData`
  takes to be perfect; the shape of beacon responses and of the record.
- The warnings about plaintext endpoints and addresses printed for a person.
- A dishonest endpoint: the documents declare it trusted. `ExitCommand` does
  model one that names another validator, `OperatorCommands` a beacon node of
  another chain, `DeploymentIntegrity` contracts and artifacts that are not
  genuine, and `PayoutCommand` calldata that was changed between the command and
  the signature.
- `status` beyond its integrity gate and its report on the forwarder: it reads
  and prints.
- Slashing in `BeaconPreflight`: a validator that can be slashed was activated,
  and its epochs are refused already.
- Gas in the contract: a loop bounded by 32 is one step.
- The mocks, the tests and the end-to-end harness, which are read for what they
  expect of the program; the clear-signing descriptors, which are data.

## Plan

Done: the contract, its escrow and their proofs; every command, with the deposit
data, the signer selection, the transaction fields, the beacon preflight, the
deployment record and its integrity; proofs of the safety of all of them. Next,
in this order:

1. A further lemma about `DepositData`: data that passes the validation is
   accepted by the deposit contract, stated apart from the commands.
2. Liveness of the exit, by TLC: with a cap that is high enough and a validator
   that becomes eligible, repeated requests end in an exit.
