# Formal model of keiba-masters-kit

TLA+ specifications, model-checking runs and machine-checked proofs for
keiba-masters-kit. The centre is the voting daemon: it sends irreversible
requests (one vote per race, once) over an unreliable network, from a process
that may die, with a disk that may fail and an operator who may stop it at any
moment. Around it, the planning pipeline that decides what is sent, the paper
contest that takes it in rehearsals, the back test that replays a day, and the
scripts that played the contest and its ledger.

Paths below are relative to the repository unless they end in `.tla` or `.cfg`.

## 1. Inventory

| Component | State it keeps | Operations | Talks to |
|---|---|---|---|
| voting service, `internal/voting/service.go` | none of its own besides a token cache and `controlMu`; everything else is in the store | import (plan, bundle), arm (plan, bundle), kill, cancel, tick (expire, submit, reconcile), recover, halt | store (every decision is a durable event), API client, STOP / FREEZE files |
| store and journal, `internal/voting/store.go` | `events.jsonl` (authoritative), `snapshot.json`, the same in memory | open and replay, import, update, kill flag | disk |
| control interface, `internal/voting/http.go`, `cmd/votingd/main.go` | the unix socket, which is also the process lock; the process's own life | listen / take over, serve commands, shut down | operator through votectl, launchd |
| API client, `client.go`, `driver.go` | none | login, read the vote of a race, submit once | the contest's server |
| paper driver, `paper.go` | simulated votes and balance, in memory and in `paper_state.json` | the same as the client | disk |
| contract, `types.go`, `config.go` | none | canonical hash and validation of plan, bundle, policy | |
| votectl, `cmd/votectl/main.go` | none | one request per command | control socket |
| planning pipeline, `pykeiba/dp.py`, `plan.py`, `select.py`, `panel.py`, `cli.py` | none between commands; within one, the stages solved, or the bank left and the plans built so far | solve the policy table, follow it over a day's races, write the bundle | panel and table files, the clock; writes the bundle votectl imports |
| back test, `pykeiba/backtest.py`, `allocate.py` | the replay's bank, whether it is frozen, the outcomes | replay a panel with the target strategy or with the table, settle at official dividends | panel and table |
| contest scripts, `submission/phase1/`, `submission/phase2/optimizer.py` | none; they read the caller's ledger and write one plan per call | one plan by the policy table, the tail strategy, the fixed three tickets, the price bands of the all-in day, or the knapsack | the caller's ledger, a market snapshot, the daemon |
| recovery, `submission/phase1/recover_allin.py` | a policy file, a plan file | prepare by hand; tick: build, import, arm | both daemons' snapshots |
| ledger, `submission/tools/build_ledger.py` | none | merge snapshots and histories, imply the bank, reconcile it | snapshots, histories, the official balance |
| probability model, `pykeiba/model.py`, `odds.py`, `harville.py`, ... | none | numerical fits | |
| data tools, `submission/tools/build_nll_surface.py`, `synthetic_surface.py`, `phase2/reproduce.py` | none | numerical fits | |
| deployment, `launchd/`, `scripts/` | none | restart the daemon | |

How they interact. votectl imports hashed plans and arms them; the ticker calls
`Tick` once a second; `Tick` takes the first due record and either submits it
(guard, read, guard, durable POSTING, one POST, durable outcome) or reconciles an
earlier POST by reading. Every handler holds `controlMu` from its first read of
the store to its last write, network calls included. launchd restarts a dead
process; `Recover` then turns what was interrupted into something the ticker can
go on with.

Which behaviours are hard, and what makes each component correct:

* **voting service.** A process death between any two durable writes; a POST with
  an unknown outcome that the contest accepts late; the second plan of a race;
  the guard's verdict going stale while login and read take seconds; a failed
  write in the middle of a loop; a conflict and the halt being two writes.
  Correct when a race is posted at most once, no closed race hides a request of
  ours, a kill and a terminal state are final, a POST rests on a verdict from after
  the read, trouble stops the day, and every armed plan is decided.
* **store and journal.** A death between any two system calls, writes and syncs
  that fail and leave something behind, loss of power. Correct when a start
  sees what was acknowledged and at most what was tried after that, and when it
  is not refused without need.
* **control interface.** Two processes between lookup, dial, remove, bind and
  listen; a stale socket; unlink on close. Correct when there is one writer, the
  running daemon can be reached, and a dead one does not block its successor.
* **planning and contract.** The table is solved on a grid of banks with rounded
  stakes, and followed with whole points; the plans are charged against the bank
  on the assumption that every ticket loses; Python writes the bundle and Go
  checks it. Correct when following the table delivers at least what it reports,
  a day never costs more than the bank, and the daemon admits what the planner
  writes.
* **back test.** The bank moves with dividends nobody knew at bet time, results may
  be missing, unused budget rolls forward, and a hit freezes the rest. Correct when
  the knapsack buys the likeliest set it can pay for, one hit reaches the goal,
  later races get more, and a profitable day is kept.
* **contest scripts and ledger.** Each call sees only a ledger that may lag behind
  the races settled, a market that may be incomplete or name things twice, and a
  clock that may have passed the deadline; a race that is skipped has to be made up
  by the others. Correct when the daemon admits what a script writes, the floors add
  up to the minimum turnover, a hit of the tail strategy is enough, and the ledger
  holds every vote as it was cast and bounds what a missing row may hide.
* **recovery.** A scheduler's ticks that may die between any two steps, beside an
  original daemon that was killed but still answers. Correct when one daemon at most
  posts the race.
* **paper driver.** A write that fails after votes and balance changed, and a death
  around the rename. Correct when the ledger conserves points and no recorded vote
  is lost.

## 2. Modules

| Module | What it is |
|---|---|
| `VoteRecord.tla` | the per-race record and each update the handlers give to `UpdateRecord`, as pure operators |
| `VotingService.tla` | the service against the contest: handlers, ticker, crash and restart, contest, clock |
| `MCVotingService.tla` | constant values for TLC: three plans, two races, a bundle |
| `VerdictHistory.tla` | the service with a history variable: could the plan at hand be sent at some moment since its read? |
| `MCVerdictHistory.tla` | the same for TLC |
| `VotingServiceProof.tla` | lemmas on the record, type correctness, the invariant `SendInv` and the safety theorems, the invariant `DayInv` and the theorems about what a day comes to, and the freshness of the verdict a POST rests on |
| `StoreEvents.tla` | contents of the store and the events that change it |
| `AtomicStore.tla` | what the handlers may rely on: an atomic, durable store |
| `JournalStore.tla` | journal and snapshot, system call by system call; implements `AtomicStore` |
| `JournalStoreProof.tla` | the refinement of `AtomicStore` and that deaths leave a readable journal, for every instance |
| `ControlSocket.tla` | start, takeover, shutdown and death of several daemon processes |
| `ControlSocketProof.tla` | at most one writer, and the running daemon's socket stays its own |
| `Ordering.tla` | sorting by a strict order, as the scripts' `sorted` does, and selecting from a list |
| `PolicyTable.tla` | `dp.py` as pure operators: actions, stakes, grid, backward induction, bound, and the value of following a table |
| `PlanContract.tla` | the plan document: how `plan.py` writes it and what `types.go` admits |
| `PaperDriver.tla` | the paper contest: votes, balance, state file |
| `PlanDay.tla` | `policy-table`, `plan`, import and paper votes as one pipeline, composed of the three above |
| `Allocation.tla` | the target strategy's share of the budget, stakes, shortlist and knapsack, as pure operators |
| `Backtest.tla` | the replay of a panel with either strategy, from the pipeline's state; extends `PlanDay` |
| `MCPlanDay.tla` | six policy specifications and five panels for TLC |
| `VotePlan.tla` | the plan writers `build_vote_plan.py` (table and tail strategy) and `sanrentan3_plan.py`, on `PlanContract` |
| `AllinPlan.tla` | `allin_plan.py` and `phase2/optimizer.py`, which uses `Allocation` |
| `Recovery.tla` | `recover_allin.py` beside the killed daemon |
| `VoteLedger.tla` | `build_ledger.py`: entries, payouts, implied bank |
| `Competition.tla` | the contest as it was played: script, import, vote, settlement, recovery and ledger together |
| `MCCompetition.tla` | calendars, markets, a table and the class specifications for TLC |
| `PlanningProof.tla` | what the plan contract and the allocation compute: stakes, sums, shares of a budget, the knapsack |
| `CompetitionProof.tla` | every invariant of the contest: types, what the scripts write against what the daemon admits, floor, goal, recovery and ledger |
| `PlanDayProof.tla` | the pipeline's invariant: table, plans, contract and paper ledger, for every spec and panel; that following the table delivers its value |
| `BacktestProof.tla` | the replay's invariant, and that the knapsack buys the likeliest set |
| `ArithmeticProof.tla` | the facts on division, sums, folds and orders that these proofs share |

Definitions whose name starts with `Bad` are wrong variants of the definition
that follows them. No specification uses them. Each one is a slip somebody could
make in the code (a dropped guard, a counter not advanced, an order swapped);
putting it in the place of the right one makes TLC report the property named in
`PROJECT.json`, which shows that the property depends on that piece of code.

### VotingService

* `race[p]` is the `RaceRecord` of plan `p`, reduced to what decides anything:
  state, armed, the counts of arms, POSTs, pre-POST reads and verification reads,
  and `NextActionAt`. `killed` is the kill flag. Journal and memory are one
  variable here, because the store keeps them equal (that is what `JournalStore`
  is about).
* `pc`, `cur`, `todo`, `cont` are the handler in progress: the label it has
  reached, its plan, the plans its loop still has to visit, and where a halt
  returns to. They are what a crash loses.
* `wire[p]` is what the contest has done with the POST of `p`, `vote[r]` what a
  read of race `r` answers. The contest takes one vote per race, may publish it
  late, or publish something else; somebody may vote by hand on the site.
* `sent`, `wire` and the counters `faults` and `crashes` are history or
  environment: no handler's guard reads them, except that `wire` decides the answer
  of a POST.
* A handler that does one write is one action (`ImportPlan`, `Arm`,
  `CancelUnposted`). One that does several, or goes to the network, is split
  exactly at its durable writes and exchanges, because the process may die there
  and the contest, the clock and the STOP file may move: `Submit`,
  `ReadFails`/`ReadAnswers`, `BeforePost` (the second guard), `Commit` (the durable
  attempt), `Send`, `PostAccepted`/`PostRefused`/`PostUnknown`.
* Each write has three outcomes: `ok`; `unwritten` (the append failed, nothing
  changed); `unsaved` (the journal took the event, the snapshot failed: the caller
  sees an error although the state has changed). The third one is what the
  comment in `appendLocked` calls "the journal is authoritative". A write whose
  line reached the file but whose sync failed has a fourth effect, visible only
  after a restart: it is modelled in `JournalStore`, where a start either finds
  it as the last event or refuses the journal.
* The day is a small number of instants; the horizon stands for every later one.
  Target and deadline are constants of the plan, as in the plan contract.

### JournalStore

* `journal` is a sequence of lines, each a sequence number and an event, or
  `Torn`; `synced` is how much of it survives a loss of power; `snap` is the
  snapshot, `mem` the state in memory, `pc` the point the append has reached.
* `OpenStore` is the whole of `OpenStore`, `load` and `writeSnapshotLocked`:
  `Opens` holds exactly when every check of `load` passes.
* `Begin`, `WriteLine`, `SyncLine`, `Finish` are the four parts of
  `appendLocked` between which a process can die. `Add` glues what follows a torn
  line to it, as a file opened with `O_APPEND` does.
* A snapshot is replaced by a rename and therefore by one step, or not at all.

### ControlSocket

* `file` is what is at the socket path: nothing, a file nobody listens on, or the
  listener of a process. `pc[p]` is the system call process `p` is at.
* `net.Listen` is two steps, `Bind` and `Listen`: between them a dial is
  refused. `CloseListener` unlinks the path whoever owns it, which is what Go's
  unix listener does, and `Exit` is the deferred `os.Remove`.
* `OneAtATime` says that starts and stops of different processes do not overlap.
  It is what launchd provides for its own job and what a start by hand breaks.

### PlanDay, PolicyTable, PlanContract, PaperDriver

* `table` grows by one stage per step, as the loop of `solve` does; `Stage` is the
  whole body of that loop. Points are integers, and a probability is a number of
  draws out of `draws`: values are exact counts of outcomes, so a comparison of
  two of them means what it says. What the code's floats add (errors of the last
  digit, ties broken by them) is not modelled.
* A stake may be a fraction of a point: `per_race_cap / tickets` is not rounded.
  `Spend` therefore keeps the cost of all tickets, and a row's `stake_each` is the
  integer part that the table file gets.
* `panel`, `index`, `bank`, `plans`, `clock` are `command_plan`: the races in
  `load_panel`'s order, the loop's position, the points left, the plans built, and
  the wall clock it reads. `SkipRace`, `PlanRace` and `PlanFails` are the three ways a
  turn of the loop ends.
* A race file has the horses' numbers by win price (`win`) and its quoted combinations
  in the order in which `pick_near_odds` would take them (`quotes`). A bet names the
  horses of its combination, a mark the number of a horse: `plan.py` cuts the marks by
  rank and writes numbers, and the daemon knows the numbers 1 to 18. Which combinations
  are near the target odds is statistics and left out.
* A turn of the loop that has a row to bet ends the command (`PlanFails`) where
  `build_features`, `bet_id` or `build_plan` raises: a race whose trifecta market was
  not captured, a picked horse above 18, a stake or a time `build_plan` refuses.
* `Import` is `ValidateBundle` on what was written. What happens between import
  and submission is `VotingService`; here the paper driver may get the plans in
  any order, more than once, and be restarted between them.
* `votes`, `balance` and `file` are the paper driver. Its mutex makes `Submit` one
  step; the state file is replaced by a rename, so a death leaves the old or the
  new one.

### Backtest and Allocation

* `points`, `frozen`, `outcomes` are `run_target_strategy`'s bank, flag and list; the
  table strategy uses the first and the last. `StartReplay` branches off the
  pipeline where `plan` would start, because both commands read the same table and
  panel; afterwards the plan's own variables stand still.
* `Allocate` is the whole of `allocate`: candidates, stakes, shortlist, knapsack, and
  the leftover to the best ticket at the last race. `Pick` is the code's
  dynamic program, its rows of values and the way back through its table of choices, and
  `KnapsackIsOptimal` compares the result with every subset of the shortlist.
* A result may lack its finish, or its dividends; a combination may pay more or less
  than it was quoted. The discount is the fraction `FactorNum / FactorDen`, so stakes
  are exact.

### Competition, VotePlan, AllinPlan, Recovery, VoteLedger

* One call of a script is one action (`TableRace`, `TailRace`, `Sanrentan3Race`,
  `AllinRace`, `DynamicRace`): it reads the ledger, a snapshot and the clock, and
  leaves a plan or refuses. `Import` is the daemon's check of `PlanContract`; `Vote`
  is the daemon of `VotingService` reduced to its three outcomes, which is what the
  ledger sees of it.
* What ranks a combination (scores, probabilities) is data: a snapshot lists its rows
  in that order, with repetitions, rows without odds, rows of another length or with a
  horse twice (which `parse_comb` lets through), and lists that are too short.
* The caller of the scripts is not in the repository. Assumed of it: it calls them
  race by race, charges a vote when it is confirmed, and may note, when the race is
  settled and possibly after the next plan was built, what was paid. It may miss a row,
  or write one that says nothing of a payout or a refund.
* `Prepare`, `TickOpens`, `TickWrites`, `TickImports`, `TickArms` are the recovery's
  steps between which it may die (`TickEnds`, which also stands for its refusals).
  Ticks do not overlap: one scheduler calls them. `killed` bars the original daemon
  from voting and, as in `service.go`, not from importing.
* `secured` and `front` are history: the goal a hit has reached, and what each front
  race was asked for and spent.

## 3. Runs

| Run | Module, config | Expect | Question |
|---|---|---|---|
| `full_day` | `MCVerdictHistory`, `VotingFullDay.cfg` | pass | all safety properties, without automatic recovery |
| `automatic` | `MCVotingService`, `VotingAuto.cfg` | pass | retries, cancel, expiry, no global halt: still one POST, one unresolved POST at a time |
| `settles` | `MCVotingService`, `VotingLive.cfg` | pass | every armed plan is decided, every POST settled |
| `due_plan_stalls` | `MCVotingService`, `VotingStall.cfg` | violation | is a due plan taken up in its turn? |
| `journal` | `JournalStore`, `Journal.cfg` | pass | the journal implements the atomic store; death alone never makes it unreadable |
| `journal_empty` | `JournalStore`, `JournalEmpty.cfg` | violation | is every journal a death leaves accepted? |
| `journal_failed_write` | `JournalStore`, `JournalFailedSync.cfg` | violation | is an acknowledged event restorable after a failed write? |
| `socket` | `ControlSocket`, `Socket.cfg` | pass | one writer, reachable, comes back, under launchd |
| `two_daemons` | `ControlSocket`, `SocketTwoStarts.cfg` | violation | is a second daemon refused whenever it is tried? |
| `plan_day` | `MCPlanDay`, `PlanDay.cfg` | pass | does the table deliver what it reports, does the day fit the bank, does the daemon admit the bundle, does the paper ledger add up, does the replay keep its strategy's promises? |
| `conservation_bound` | `MCPlanDay`, `PlanBound.cfg` | violation | is `R_max * initial / goal` an upper bound of reaching the goal? |
| `competition` | `MCCompetition`, `Competition.cfg` | pass | do the scripts, the recovery and the ledger keep their promises, whatever the market, the clock, the votes and the payouts do? |

What the passing runs show:

* `AtMostOnePostPerRace`, `DayInv`: no race is posted twice, across crashes,
  failed writes and rival plans; the reason is that the attempt is durable before
  the request leaves and is never reset. `DayInv` is the invariant the proofs of
  section 5 are inductions on.
* `NoHiddenVote`: KILLED, EXPIRED, REJECTED and CONFIRMED_EXISTING never stand in
  front of a request the contest took or may still take.
* `ConfirmedIsRecorded`: a confirmation is a read that showed the plan's content.
* `AdmittedFitsBudget`: the check at submission never refuses what import admitted
  (`docs/06-safety.md:40`: plans over the limit are not sent in part).
* `KillIsFinal`, `TerminalIsFinal`: what a step may never do.
* `SentOnFreshVerdict`: an attempt becomes durable, and its request leaves, only if the
  plan could be sent at some moment since the read before the POST was answered. The
  clock, the STOP file and death may come between the second guard, the durable attempt
  and the request, so "in time" itself does not hold, in the model as in the code
  (section 6).
* `TroubleStopsDay`: the day stops after a conflict, a refusal or an unknown POST,
  as long as neither a crash nor a failed write comes between the result and the
  halt. Section 6 says what happens when one does.
* `OneUnresolvedPost`, `ReadRetriesBounded`: without the global halt, what keeps an
  unresolved POST alone is `Tick`'s order, and what ends a read's retries is their
  count. The safety properties of `full_day` are proved for this policy too, see
  section 5, and not run again.
* `ArmedIsDecided`, `PostIsSettled` (liveness).
* `ImplementsAtomicStore`: refinement with `value <- mem`, `alive <- pc # "down"`.
* `SingleWriter`, `Reachable`, `ComesBack`.
* `SolvedIsDelivered`: at every bank between two grid points, too, following the
  table is worth at least the value it reports, over every outcome of every race
  (what `simulate_table` samples). It needs `WholePoints`, see section 6.
* `PlannedFitsBank`, `PlannerCompletes`: the plans of a day cost what the bank lost
  and never more than it had; with default creation times and a cap that splits into
  whole units, the command ends without a bundle only at a race without a trifecta
  market or at a picked horse above 18.
* `RefusedIsExplained`: if the daemon refuses a bundle, then for the creation times,
  the date, a limit, patterns without the trifecta, or the mark of a horse above 18;
  order, times, bets and the other marks agree on both sides.
* `PaperConserves`, `AdmittedIsAffordable`, `VoteIsFinal`: points are conserved by
  failed writes and restarts, a day within the opening balance is never refused for
  funds, and no vote is lost from the file.
* `KnapsackIsOptimal`, `OneHitReachesTarget`, `LaterRacesGetMore`, `ProfitIsKept`: the
  promises of `allocate.py` and `backtest.py`, over every sequence of results.
* `TableIsAffordable`: a row of the table, which was sized for a grid point and may be
  taken over from a poorer one, never asks for more than the replay's bank.
* `BuiltIsAdmitted`: the daemon, with `ValidateBetID` and the patterns, refuses a
  script's plan only for a win market that lists a horse twice, for rows of the plan's
  pool that repeat a combination (the scripts of the first two weeks) or are malformed
  (all but the all-in script), or above one of the two limits of `OverLimits` that the
  scripts do not know (section 6); and an all-in plan costs what its class says although
  its bands may be short.
* `FloorMakesUp`: the minimum turnover is reached at the last front race whatever was
  passed before, unless the cap cuts the floor.
* `HitSecuresGoal`: after a hit of the tail strategy the bank covers the goal and the
  rest of the qualification, through all later losses, until the goal is raised or
  another day's strategy takes over.
* `PostedOnce`: see section 5.
* `LedgerHoldsVotes`: every vote the contest took is in the ledger with the plan that
  was cast, whichever daemon cast it; a confirmed entry is a vote it took; and when all
  votes were seen confirmed, the payouts of the races without a row are at most the
  unexplained credit, the step on which the bound of `build_ledger.py:69-70` rests. That
  the credit is explained is not claimed: the commentary itself leaves 1,000 points
  unidentified.

Bounds and why they are enough:

* Three plans: two rivals for one race and one for another race, which is what
  the per-race rules and the interplay of a trouble in one race with the sending
  of the next one need. Races are otherwise independent. `automatic` and
  `settles` leave the rival out; rivalry does not depend on the policy.
* One crash and one failed write in any order and place (`full_day`; in
  `automatic` one of the two): a crash needs a durable state to come back to, and
  the recovery leaves no state that a first run could not leave, so a second one
  repeats the first. The safety theorems hold for any number.
* Four or five instants: before, at and after each target, deadline and the end of
  the day. `Window` and `Gap` put the two races' windows next to each other or on
  top of each other.
* Two verification reads and two pre-POST reads instead of the policy's number
  and 4: once "not the last" and once "the last".
* Three events on two plans plus the kill, one write that fails clean, one that
  fails half way, two deaths, one loss of power: a torn or duplicate line needs
  an event before it and one behind it. `States = {validated, killed}` suffices,
  because the store compares states only for equality.
* Three processes of which two may die: a dead one, its successor and a late
  starter.

* Six policy specifications: a reach table with two bands; one whose goal and cap
  are no multiples of its grid, over three races; one for the expected bank; one with
  three tickets and a cap that three does not divide; one with the goal near the
  initial bank; one where a poorer state is worth more than the next one, so that its
  row is taken over. Both sizing rules, the cap, the affordable stake and every
  rounding occur. Two or three races suffice, because a stage uses only the one
  before it.
* Five panels: races in another order than their names, two at the same time, one
  without a trifecta market, one with fewer combinations than the row asks for, fields
  of 19 in which horse 19 is the last of the market, the favourite, or in a quoted
  combination, one after midnight. Budgets off the grid, at it, and above the goal.
* Dividends below, at and above the quoted odds, with a discount of 4/5; a shortlist of
  three; a stake may exceed the allowance. One replay of two or three races has every
  pair of a hit, a miss and a missing result.
* Four calendars, one per strategy: four front races; one front race and three of the
  tail day; a fixed day followed by an all-in day of two races, the second of which may
  be left to the recovery; a dynamic day of two races. Markets: two flawless ones of
  different classes, an incomplete one, one without win prices, one with a horse twice,
  one with combinations twice, one with malformed rows, one with too few rows. The daemon admits five tickets, so
  that an all-in plan fits and a plan raised to its floor may or may not. `MaxFaults` is one: one bad
  market, late script, unconfirmed vote, refund or missed row at any place. Each of the
  properties is about one such event and what the ordinary races around it do.
* A clock that may pass twice, and two failed writes or deaths of the paper driver.

The journal run has `CHECK_DEADLOCK FALSE`: a daemon whose journal is refused
really stops. `JournalEmpty.cfg` and `JournalFailedSync.cfg` have it for the same reason, and
`PlanDay.cfg`, `PlanBound.cfg` and `Competition.cfg` because the day and the contest end.

`VotingAuto.cfg` sets `MaxMishaps` to one, one crash or one failed write, to keep its
longer day small; `full_day` explores both together for the shared handlers.

## 4. Fairness

`VotingService!FairSpec` assumes weak fairness of the ticker (one-second ticker in
`Run`), of a handler under way (network calls have timeouts, so a handler
ends), of restart and recovery (launchd's KeepAlive) and of the clock. Nothing is
assumed of the operator, of the disk, or of the contest: it may never answer,
never publish, refuse or accept late. `settles` has no failed writes, because one
may leave a record in POSTING without a next read until the next restart; what a
failed write does to the ticker is the run `due_plan_stalls`.

`ControlSocket!FairSpec` assumes that launchd starts a daemon when none runs and
that a process under way goes on. Whether the store opens is not assumed, so
`ComesBack` allows for starts that fail again and again.

## 5. Proofs

Checked by `tlapm` for every value of the constants the `ASSUME`s admit: any
number of plans, races, bundles, crashes and failed writes, any schedule and
policy.

* `VotingServiceProof!TypeCorrect`: the type invariant, one step per action, from
  lemmas on what each record update returns: it stays a record, the terminal states
  disarm, an attempt is counted once.
* `VotingServiceProof!SendInvariant`: `SendInv` is inductive together with
  `TypeOK`. It has four parts. `RecordInv` ties a record's state to its count of
  POSTs. `WireInv` ties the count to what left the process and what the contest
  did: `sent[p] <= race[p].posts`, and nothing is open behind REJECTED.
  `RivalsInv` says the store never holds two plans of a race. `HandlerInv` says
  that what a handler read still holds when it acts, which is what `controlMu` is
  for: at label `post` the record is POSTING, nothing has been sent for it, and
  the day is not killed. `AtMostOnePostPerRace` alone is not inductive: from
  `posts <= 1` nothing follows about a handler that has already decided to send.
* From it: `OnePostPerRace`, `NothingHidden`, `KilledForGood`, `TerminalForGood`. The
  last two are action properties, proved by a case analysis of the step in a state that
  satisfies `SendInv`.
* `VotingServiceProof!SentOnVerdict`: `SentOnFreshVerdict`, for the service with the
  history variable. `VerdictInv` says that a handler which is about to commit or to send
  has had its verdict; it is inductive because only a guard that passes leads there, and
  whatever time and the STOP file do afterwards does not take the verdict back.
* `VotingServiceProof!DayInvariant`: `DayInv` is `SendInv` and four more parts, each
  of which a property needs and none of which follows from another. `ReadsInv`: a
  record that can still be read before its POST has an attempt left, except while the
  handler holds the answer to the last one. `FreshInv`: the first process has sent
  nothing before it has recovered. `TroubleInv`: without a mishap, trouble has killed
  the day or the handler is about to. `BudgetInv`: the plans in the store together
  with those a bundle under way is about to add keep the limits of the day. The
  second half of that sentence is what makes it inductive: a bundle is checked once
  and imported plan by plan.
* The argument is one lemma about all actions, `StepIsUpdate`: a step changes at most
  one record, and the way it does is among those `Updates` lists, each with the
  evidence for it (the read that showed the vote, the guard that checked the budget,
  the halt that follows). The invariants, and `ConfirmedForGood`, `OneOpenPost`,
  `ReadsBounded`, `AdmittedIsSubmitted`, `TroubleStops`, follow from it without a look
  at the actions. `AdmittedIsSubmitted` compares sums over sets of plans:
  `SumInsert`, `SumGrows` and `SumSplit` of `ArithmeticProof`. `OneOpenPost` assumes
  automatic recovery, `AdmittedIsSubmitted` and `TroubleStops` assume its absence: with
  it the code drops closed plans from what it counts as reserved, and does not halt
  on an unknown POST (it still does on a conflict, a failed budget guard and used-up
  reads, service.go:499, 517, 616, 734).
* `JournalStoreProof!JournalImplements`: `JournalStore` refines `AtomicStore`. The
  invariant, `StoreInv`, says that every readable prefix of the journal from
  `synced` on replays to a state the abstract store may show, that what has been
  written is the event in progress or nothing, and that the snapshot is never ahead
  of the memory. It has to speak of every prefix, because a loss of power may leave
  any of them. `DeathIsRestorable` adds `CalmInv`: without a half-written line the
  journal is exactly the memory's history, so each check of `load` passes.
* `ControlSocketProof!OneWriter`, `RunningIsReachable`: while starts and stops do not
  overlap (`OneAtATime`), at most one process is busy; a process that has bound the
  path and is not past its close owns the file; and beside a running process the
  others are off, probing or dialing. Without the second part, `Dialed` could not be
  shown to refuse the newcomer.

* `CompetitionProof!RecoveryPostsOnce`: `PostedOnce` for every calendar, market and
  number of faults. `PostedOnce` is not inductive: from "nobody has posted twice"
  nothing follows about the original daemon, which may still be given the race's plan
  after the recovery has begun. The invariant, `RecoveryIsAlone`, says that once a tick
  is under way or the recovery's journal is not empty, the original daemon is killed
  and at most VALIDATED for the race (`OriginalIsOut`); a killed daemon imports but
  never votes, so it stays there. The rest of it says that only the recovery race
  reaches the recovery's plan file and journal.
* `CompetitionProof!ContestTypes`: the types, for every calendar, market and number of
  faults. `WellFormed` adds to `TypeOK` what the types rest on: the caller's counters
  agree with the races done (`LedgerTypes`), the plan that waits is one of whole tickets
  for the next race (`PlanTypes`), votes are of races of the calendar (`VoteTypes`).
  `Reachable` is `WellFormed` and `RecoveryIsAlone`; all that follows rests on it.
* `CompetitionProof!BuiltAdmitted`: `BuiltIsAdmitted`. One lemma per script says what it
  writes: `VotePlanParts`, `Sanrentan3Parts`, `AllinParts`, `DynamicParts`. The all-in one
  needs that three bands and the filling up from the best rows select exactly the class's
  number of tickets, none twice (`SelectParts`); the dynamic one that a lost ledger buys
  nothing and the rest is the knapsack of `Allocation` (`DebtBuysNothing`). `PlanIsSound` is
  inductive: the plan that waits is the one written for the ledger as it still is. Last,
  `SoundIsAdmitted` goes through the checks of `ValidatePayload`.
* `CompetitionProof!FloorIsMadeUp`: `FloorMakesUp`. `CurrentFloorParts` shows that the
  floor of a front race, times the races left, covers what the turnover lacks, or is
  the cap; `FloorIsNoted` ties the plan that waits to the floor it was made for, because
  the property compares a spend with a floor that was computed before.
* `CompetitionProof!HitSecures`: `HitSecuresGoal`, which speaks of one state only and is
  not inductive. `HitIsPrepared` adds that a plan which waits covers the goal if it hits
  and keeps a goal already secured if it does not (`PlanCovers`), that a confirmed vote still
  covers it (`VoteCovers`), and that turnover comes in whole units: without the last part a
  bet of one unit need not lower what is owed by one unit. The arithmetic is
  `OneHitCoversGoal` for the hit, and `FloorLeaves` and `PlanLeaves` for a race lost after it.
* `CompetitionProof!LedgerHolds`: `LedgerHoldsVotes`. `VotesAreTold` says who knows what:
  every accepted vote is in a journal with its plan as CONFIRMED or AMBIGUOUS, whatever a
  daemon saw confirmed was accepted, and the history has one row at most of a race, for
  a settled vote that was seen confirmed, with no more than what was paid. Then the
  entries of both snapshots are exactly the votes that were told (`ToldAreHeld`), and
  `CreditBounds` compares the sums over races with a row, races without one and votes.
* `PlanDayProof!PipelineInvariant`: `PipelineInv` is inductive for any set of
  specifications and panels. `SolvedInv`: the table's rows are decisions whose cost fits
  the bank they were sized for (`StageFits`), also where a row is taken over from a
  poorer state, because spending what a poorer bank affords is affordable
  (`RowIsAffordable`). `PlansInv`: the plans built so far are valid by themselves
  (`Contracts`), come in the panel's order and before every race still to come, and cost
  exactly what the bank has lost. `BundleInv`: the file holds the plans. `PaperInv`: the
  votes are plans of the bundle, their costs and the balance add up to the opening one,
  and the file agrees with the memory, which is what lets a restart change nothing.
  From it: `PipelineTypes`, `PlansFitBank`, `PlannerSucceeds`, `RefusalsAreExplained`,
  `LedgerConserves`, `DayIsAffordable`, `VotesAreFinal`.
* `PlanDayProof!SolvedDelivers`: `SolvedIsDelivered`. The invariant is `IsSolved`, each stage
  solved from the one before it; `TableBrings` is the induction over the races left, for
  every bank at once. The solver rounds a bank down twice, to the grid and again after a
  hit or a loss, and it may have taken a row over from a poorer state, so the bank that
  follows the row is never smaller than the one the solver reckoned with; what saves the
  claim is that no stage is worth less for a richer state (`StageParts`: the smoothing of
  `solve` is what makes this true) and that no state is worth more than the goal
  (`WorthIsBounded`), at which a bank rests.
* `RefusalsAreExplained` is the agreement of two programs in two languages:
  `BuiltIsValid` shows that what `plan.py` writes passes each check of
  `ValidatePayload` and `ValidatePlan`, and `PlansInv` the checks across plans; what
  remains are the creation times, the date, the limits and patterns, and the marks of
  horses above 18, which `plan.py` does not check.
* `BacktestProof!ReplayInvariant`: `ReplayInv` is the types, the properties
  `ProfitIsKept`, `OneHitReachesTarget` and `LaterRacesGetMore` themselves, and two parts
  that make them inductive. `ProfitInv`: until the freeze no bank of the day was above the
  first one, so the hit that freezes is the first profit. `GrantedInv`: the races
  so far were allowed no more than the next one will be; it is kept because a race costs
  at most its allowance, so the rest of the budget, divided by one race fewer, is not
  smaller (`LaterGetsMore`; `AllowanceFitsBudget` bounds one share).
* `BacktestProof!KnapsackBuysBest`: the dynamic program against every subset. By
  induction over the tickets considered, the rows of the program bound the value of every
  set that can be paid for (`ValuesBound`), and the way back through the table of choices
  buys a set that spends and gains exactly what the rows say (`WayIsConsistent`). Hence
  the set bought is a best one. `SizedTicketClosesGap` is the arithmetic behind
  `HitReachesTarget`: while a race's tickets cost no more than its allowance, a hit at
  the discounted odds reaches the target; `TopUpParts` and `AllocateParts` show that the
  last race's leftover does not break it.
* `TableFitsBank`: from `RowIsAffordable`, at every bank a replay reaches.

Inductions. The provers cannot use the library's induction theorems, which take an
operator. `ArithmeticProof` replaces them by least counterexamples: a set of natural
numbers that is not empty has a least member (`LeastOf`), and a subset of a finite set
that violates something has a smallest one (`SmallestOf`). From these two it derives
that the folds of the community modules exist and unroll (`SumUnrolls`, `FoldRuns`,
`FoldBackRuns`), what sums obey (`SumInsert`, `SumSplit`, `SumGrows`, `SumReindexed`,
...), and what a set sorted by a strict order looks like (`OrderSorts`). Where a module is
proved about, it uses explicit functions, `SumFunction`, `FoldLeft` and `Ordered`: the
prover has no definition of `SortSeq`, `SelectSeq`, `@@` and `:>`.

Assumptions on the constants: plans are numbers (ties are broken by id) and
finitely many; target before deadline and positive stakes (`ValidatePlan`); a
bundle is not empty and has one plan per race (`ValidateBundle`); the limits on
arms and POSTs cover the races, and reads are tried at least once (`ValidatePolicy`);
units and odds are positive. A specification is `WellFormed`, with a goal above its
initial bank (`PolicySpec`, `PriceBand`); a panel is not empty and finite, its races have
distinct names and are what `load_race` lets through (`IsRaceFile`, `panel.py:104-116`): at
least three quoted runners, three different horses in a combination, each combination
once and at a positive price. A policy with more than one bet per race allows every pool;
one with a single bet may allow fewer (`config.go:245-252`).

For the contest, what is frozen in its files: in `policy_table_v17.json` the stakes are
whole units up to the cap of 20000, the rows name at most ten tickets, every number of
races left has a row for an empty bank, and the floor of the last races (100) is a whole
unit below the cap (`TableAssumption`); in `tail_policy.json` one ticket, odds of two at
least, whole minimum and turnover, and 100 points, the unit, kept for each later race
(`TailAssumption`); the class specifications of `allin_plan.py:30-34` (`AllinAssumption`).
`LimitsAssumption` says that the policy of a day admits what its script asks for before
any raise: `v17_policy.json:92-94` has ten bets and 20000 points. `CaptureAssumption` is the
form of a captured market, `IsMarket`: horses 1 to 18, sorted in the unordered pools, as
`parse_comb` lets through; neither how many a combination has nor that they differ is
assumed.
`CalendarAssumption`: race ids differ, and a calendar with an all-in race has none of the
table or of the tail. The calendars are excerpts of the contest, which had them weeks
apart; the recovery, of the all-in day only, is never beside a floor or a goal.

TLC evaluates all of them.

Only model-checked: `ComesBack` of the control socket and the other liveness properties,
which with fairness and ENABLED are out of the prover's reach. All invariants and action
properties of the runs, and the refinement, are proved. What the proofs show of a
definition is what the definition says: that the models are faithful to the code is not
proved but argued, by the lines `PROJECT.json` maps each definition to.

## 6. Observations

Beside the findings in `PROJECT.json` (each one a violation run with a document's
sentence next to the code's behaviour):

* `docs/02-voting-runtime.md:28` explains CONFIRMED_EXISTING as, mostly, our own
  vote sent just before a stop. `NoHiddenVote` says it never is: after a POST the
  record has `posts = 1`, and only a record without one is read by the path that
  leads to CONFIRMED_EXISTING. Our own vote ends in CONFIRMED.
* An unknown result does not always stop the day. `docs/06-safety.md:46` and
  `docs/02-voting-runtime.md:27` say that AMBIGUOUS stops the day's later submissions.
  A vote that was accepted but is not visible at the first read becomes AMBIGUOUS
  too (`deferReconciliation`, service.go:710-737), and so does a POSTING found after a
  restart (service.go:350-353); neither halts, and the next race is sent. This is why
  `Troubled` in `TroubleStopsDay` lists only the AMBIGUOUS that halts.
* `pykeiba plan` without `--created-now` gives every plan a time of its own
  (target minus five minutes) and the bundle the time of now; the daemon wants them
  equal (types.go:388), so such a bundle is refused except by coincidence. With the
  option it is refused when a second passes between the first plan and the bundle.
  `scripts/demo.sh:47` uses the option. Both are the first case of
  `RefusedIsExplained`.
* `per_race_cap / tickets` (dp.py:184) may be no whole number of units: 20000 / 3
  becomes a row with `stake_each` 6666 and `total_spend` 20000. `build_plan` raises on
  6666, and `pykeiba plan` ends without a bundle for the whole day. A recomputation
  of the default table (goal 1,900,000, 72 races, grid 5000) has 2126 such rows of
  27360, for example with one race left and a bank of 1,255,000. The lost fraction also
  makes the solver's value larger than what the rows deliver, against the "lower
  bound" of dp.py:214-216: TLC violates `SolvedIsDelivered` without `WholePoints` on
  the specification `thirds`.
* The bound of `conservation_bound` is wrong by the factor of the return: what holds
  is `initial / goal`. With the default bands, goal 1,050,000 and 72 races, the
  recomputed value is 0.875 against a bound of 0.762, so the command refuses; with the
  default goal the value stays below.
* A conflict does not always stop the processing, although
  `docs/02-voting-runtime.md:29` says so. It is one durable write (service.go:498, 612),
  the halt another (499, 616): a death or a failed `SetKilled` between them leaves the
  day alive, and the armed races after it go out. `TroubleStopsDay` excludes exactly
  these two cases.
* While the STOP file is there, nothing is sent, says `docs/06-safety.md:21`
  (「ファイルがある間は、何も送信されません」). The code looks for it, and at the deadline,
  before an append, a sync and a snapshot (service.go:505-530); a file that appears
  during them, or a deadline that passes, does not hold the request back.
  `SentOnFreshVerdict` is what the second guard gives.
* `pykeiba plan` ends with a ValueError, without a bundle for the whole day, at a race
  that was captured without a trifecta market while the table says bet
  (`cli.py:230`, `model.py:76-77`), and at a picked combination with a horse above 18
  (`plan.py:53-55`). A horse above 18 among the eighteen cheapest gets a mark
  (`plan.py:74-77`), and the daemon refuses the whole bundle for it (`types.go:187-191`).
  `load_race` checks neither.
* `parse_comb` (`build_vote_plan.py:181-203`) lets a combination through that names a
  horse twice or has another number of horses than its pool, and a bracket above 8. The
  scripts of the first two weeks bet such rows and the daemon refuses the plan. The
  all-in script passes them over (`allin_plan.py:75`); the dynamic day asks for three
  different horses, not for three numbers (`optimizer.py:72`), so that 1-2-3-3 passes.
* The ledger's commentary bounds the payout of the race without a row by the credit
  that is left (`build_ledger.py:67-71`). That holds only as long as all votes that were
  taken have been seen confirmed: one that was not has cost points the ledger does not
  charge, and lowers the credit. The same commentary leaves 1,000 points of the credit
  unidentified (`build_ledger.py:74-75`, `ledger/summary.json:114`).
* A killed daemon still accepts imports (it refuses to arm). This is why
  `OriginalIsOut` allows a VALIDATED record.
* The back test deducts the stake of a race whose result is missing, although
  `backtest.py:3-4` says that it is skipped and counted separately, and
  `docs/04-data-contract.md:57` that it does not enter the balance. `ReplayBet` follows the
  code: `Settle` pays nothing and the bank has been charged.
* The per-race cap may cut a front race's spend below the floor it was asked for
  (`build_vote_plan.py:382-384`, against the docstring in 14-18, which says that the floor
  is made up). `FloorMakesUp` therefore speaks of a last race that was bet at its floor.
* Two limits of the daemon are unknown to the scripts. The floor is made up with more
  tickets at the row's stake (`build_vote_plan.py:379-380`), and `v17_policy.json` admits ten:
  the rows with ten tickets of 300 points (135 races left, 1,625,000 points, among others)
  give eleven when the floor is above 3000, and the daemon refuses the plan. The dynamic day
  spends what it wins, but its `max_stake_per_race` was frozen at the opening bank
  (`config.go:256-260`, on purpose). Both are `OverLimits` in `BuiltIsAdmitted`; the first one
  was met while proving it, with a limit of fewer tickets than the runs had before.
* On the tail day a bank below the unit refuses the race instead of betting the rest.
* The paper driver's file is renamed but not synced: a loss of power may take
  recorded votes. Rehearsals do not promise more, and it is not modelled.
* A partial write that stops exactly before the newline leaves a line that the
  next start accepts and that the next event is glued to. It is not modelled as a
  case of its own; its effect after the next event is that of a torn line.
* Losses of power take the contents of files that were not synced, never
  directory entries: `writeSnapshotLocked` syncs the directory after the first
  event, but ignores that sync's error.

## 7. Not modelled, and the plan

Not modelled, on purpose: the probability model, the training of the optimizer and the
data tools (floating-point statistics), `retime`, `render-policy` and `synth` (they
prepare the files of a demonstration), the daily totals of the ledger (sums of its
rows), the schedulers and callers of the contest scripts (not in the repository),
rendering of launchd files, logging, the read-only
status pages, symbolic-link checks on paths, the token cache (its failure is a failed
read).

Planned, in this order:

1. `VoteClient`: the classification of answers in `client.go` (definite refusal,
   unknown, empty) as an operator over what a server and a network can return, and
   the outcomes of `VotingService` as its image; the paper driver as one more
   implementation of that contest.
2. `ControlInterface`: readiness, the commands' HTTP results and votectl's reaction
   to them, retried commands; `ValidatePolicy`, which turns the assumptions on
   `VotingService`'s constants into consequences.
3. Proofs: the two modules above; the theorems on the scripts with the daemon's day
   limits as `VotingService` counts them, by composing `Competition` with it.

The new modules extend the existing runs where they can, so that each run stays one
question.
