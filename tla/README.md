# Hari in TLA+

TLA+ models of [Hari](../src/README.md), a research service that keeps
hexavalent beliefs about claims, revises them as evidence is reported, voted on,
retracted, corrected and related, and records what it was told in a trace that
can be replayed. The models are written from the Rust code under `src/crates/`;
`PROJECT.json` maps every definition to the lines it stands for.

## The system

The service is a single process. `hari-core serve` reads JSON lines from its
standard input and answers each before it reads the next; there are no threads.
What makes it hard is order rather than parallelism: events come in any order
and number, revise each other, and meet state that earlier events, propagation
and consensus have left; merged evidence travels between consumers; files
outlive the process, which may stop between any two writes. Beside the service,
the same program is run as short commands that append to shared ledgers without
a lock, so there processes do interleave.

| Component | State | Operations | Interacts with |
|---|---|---|---|
| hexavalent lattice, `hari-lattice/src/lib.rs` | none | rank, complement, join, evidence combination | everything below |
| belief network, `hari-lattice/src/lib.rs` | graph of propositions with values, multigraph of relations, withdrawn edges | assign, declare and withdraw a relation, propagate for at most n rounds, with provenance | driven by the loop; edges are never removed |
| hex merge, `hari-lattice/src/merge.rs` | none; a merged state is a value that consumers carry and feed back | deduplicate, resolve versions, stale out, synthesise contradictions, distribute, escalate; the same without tombstoned keys | used by the loop to recompute a belief, and by external consumers |
| swarm, `hari-swarm/src/lib.rs` | agents, their beliefs, trust and inboxes | consensus (equal or weighted), messages | the loop records votes in it and asks for a consensus |
| cognitive loop, `hari-core/src/lib.rs` | network, evidence ledger, goals, perceptions, swarm, supersessions, attention | one handler per research event, each followed by propagation | owns the network and the swarm; calls the merge |
| session and trace, `hari-core/src/{session,main,protocol}.rs` | the open session, its cycle guard, a buffered trace file | open, event, metrics, close; replay of a recorded file | feeds the loop |
| operator model, `operator_model.rs` | day files of surfaced and acknowledged signals | surface, ack, status | command line; a read-only request of the service |
| forecasts, `forecast.rs` | day files of forecasts and their resolved copies | emit (perhaps superseding), resolve, check, calibration | command line |
| source reliability, `source_reliability.rs` | day files of rows, one per source and session | emit, report | command line; replays a trace through the loop |
| subjective logic, `subjective_logic.rs` | one opinion per claim, in a pipeline of its own | assert, vote, retract, correct; recommend; report a value | an arm of the paired evaluation; sees the same events as the loop |
| unassisted baseline, `unassisted.rs` | the value last said of each claim | accept, forget | the null arm of the paired evaluation |
| paired evaluation, `paired_eval.rs` and the corpus command in `main.rs` | a report per arm, labels, clusters, a bootstrap, a verdict | replay a trace under every arm; grade labelled pairs; resample; reconcile provenance; decide | replays through the loop and the two pipelines |
| reliability report, lineage export, cognitive state space, extractor, clients | reports and conversions | | offline |

### What is hard, and what makes each component correct

* **Network.** Contributions of many relations reach a node at once, cycles
  contain complements, several edges carry the same triple, and the round budget
  may run out. In the truth chain F < D < U < P < T that the join follows, `Unknown`
  outranks a denial, so an `Unknown` source lifts `False` or `Doubtful` to `Unknown`:
  "Unknown erases Doubtful" (`docs/research/2026-07-20-propagation-audit.md`, 84-86),
  a gap its authors left open. What is affirmed in a later round then meets no denial.
  Correct: a round moves nothing down the chain nor out of contradiction, affirms
  nothing that was denied, and lifts a denial to `Unknown` only where a source is
  `Unknown`; nothing is believed that no assignment leads to, a pass within its budget
  has settled, its audit trail is connected, and a withdrawal
  silences what it says it silences.
* **Merge.** The same observation arrives again, late, out of order, in another
  version, or inside another consumer's merged state together with contradictions
  synthesised from evidence since retracted. Correct: the result depends on the
  set of base evidence only; retraction equals never having sent; further voices
  do not mute an escalation.
* **Loop.** Ten kinds of event act on one belief through four mechanisms
  (perception, consensus, recomputation, propagation). Correct: only a revision
  moves a belief down the chain; a recomputation after any sequence of retractions and
  corrections sees the survivors only; a strong belief has more than one source;
  the ledger keeps its history; goals are not undone; withdrawals leave nothing
  standing on itself.
* **Session.** Writes fail or are torn, the process dies between recording and
  applying, late events are recorded and rejected, files are opened again.
  Correct: nothing takes effect that is not on disk, and a trace replays to its
  session.
* **Swarm messages.** Agents hear the same things in different orders, through
  broadcasts that reach whoever is a member at the time, and combine them pairwise
  with an operation that is not associative. Correct: order matters no more than
  its documentation says; what is counted is what moved; the consensus by head
  and the one by weight are one rule.
* **Ledgers of the command line.** A record and its newline are two writes, a
  command's records are many, commands overlap and fail between any two writes, a
  resolved copy goes back to its original's day file. Correct: a resolution
  sticks; a resolve leaves nothing overdue; an acknowledgement silences one
  surfacing; a deadline does not wrap; a fault spoils little; a mistake earns no
  trust.
* **Paired evaluation.** Four policies answer one trace, each from state of its
  own, and are judged by what came later: by stamps rather than places in the
  trace, by beliefs read off actions, by labels that may be wrong. The judgement is
  then pooled, resampled and turned into a verdict on a policy. Correct: silence
  for age does not flicker; no policy is charged with what nothing refuted;
  support never costs acceptance; no comparison drops a pair in silence; a verdict
  is of recorded traces, is significant on both of its tests alike, and is not an
  artifact of the corpus.

`PROJECT.json` lists the hazards one by one, each at its line, with the
properties that cover it or the reason why none does yet.

## Modules

| Module | Models | Correspondence |
|---|---|---|
| `HexLattice` | `HexValue`, `HexLattice` | operators `Rank`, `Not`, `Join`, `CombineEvidence`, `CombineEvidenceSet` |
| `Propagation` | `BeliefNetwork::propagate` and its loop | `Round` is one round over all nodes, `Pass` the loop to a fixpoint or the budget. A belief is a function from propositions to a value or `Absent` (no node yet) |
| `BeliefNetwork` | the network on its own | `belief`, `live` and `withdrawn` (how many edges of a triple), `round` and `derivations` (a pass in progress); one action per public operation and one per round. `asserted` is history: what a caller assigned |
| `HexMerge` | `merge.rs` | the pipeline as operators, from `BaseEvidence` and `Deduplicated` to `Merge`, `MergeWithTombstones`, `Mass` and `EscalationTriggered`; weights are integers in hundredths |
| `EvidenceMerge` | consumers of the merge | `held` is what each carries, `current` the round; they receive emissions, exchange merged states and merge again. `received` is history |
| `SwarmConsensus` | `compute_consensus`, `compute_weighted_consensus` | operators over a set of votes, in integers: 4 times the average confidence |
| `EvidenceLedger` | what the ledger promises | abstract: entries are appended and may be tombstoned, together with a replacement in a correction |
| `BeliefRevision` | `CognitiveLoop::process_research_event` | one action per event and outcome; composes `Propagation`, `HexMerge` and `SwarmConsensus`, implements `EvidenceLedger` (`Ledger == INSTANCE EvidenceLedger WITH ledger <- ledger ...`, the property `LedgerSpec`). `outcome` is what the event returned: its kind, the actions and the revision deltas. Each action ends with the propagation pass (`Settle`), as the handler does |
| `Recommendations` | the actions of both pipelines | `Action`, `RecommendForClaim`, what counts as acting |
| `ServeSession` | `serve_stdio`, `StreamingSession`, `TraceRecorder`, `replay_session` | `session`, `buffer`, `file`, `tail` (a torn last line), `pending` (recorded and not yet applied). `history` is what each file's session applied. The loop is the sequence of events it applied |
| `Swarm` | `Swarm`, `Agent` | `members`, `belief`, `inbox`; joining, sending, and processing of one or all inboxes under a trust model; composes `SwarmConsensus`. `heard` is history: what a belief was made of. `report` is what processing returned |
| `JsonlLedger` | the day files of `forecast.rs`, `operator_model.rs`, `source_reliability.rs` | a directory is a function from days to sequences of what single writes have left: a record, a newline, a part of a record. `Readable` are the records `load` parses |
| `ForecastLedger`, `OperatorModel`, `SourceReliability` | what is written to and read from each ledger | operators over a directory: `Overdue`, `Resolutions`; `ShouldNotify`, `IsStale`; `Pooled`, `BeatsPooledBaseline` |
| `CommandLine` | the appending subcommands in `main.rs` and `append` | `state` (the directories), `process` (what each running command has still to write, and whether it is between a record and its newline), `clock`. `overlapped` and `faulted` are history. A command reads its ledger in one step when it starts and then writes one chunk a step |
| `SubjectiveLogic` | `subjective_logic.rs` | `opinion`: evidence for and against each claim, as integers; `held`: which claims have one; `advice`: the answer to the last event. One action per kind of event. `heard` is history |
| `PairedGrading` | metrics in `lib.rs`, `score_paired` and `cluster_from_arms` | operators over a report: `FalseAccepts`, `ContradictionRecoveryCycles`, `PairDefects`, `ScorePaired`, `ClusterFromArms` |
| `PairedReplay` | `score_paired_all_arms`, recency decay, `unassisted.rs` | composes `BeliefRevision` (the recency-decay arm, whose answers are then scored by age), `SubjectiveLogic` and the face-value arm (`accepted`): each step is one event, seen by all. `loopCycle` is the loop's counter. `trace` is history: the report is read off it |
| `PairedBootstrap` | `bootstrap_paired_difference`, `apply_kill_keep` | operators: from clusters to resamples, interval, p-value, clauses and verdict |
| `PairedCorpus` | `replay_paired_bootstrap` in `main.rs` | `stage`, `loaded`, `derived` (provenance so far), `clause1`, `cheap`, `decision`; one action per stage and refusal |
| `MC...` | instances | values of the constants |
| `...Proofs` | theorems | see below |

An operator commented `Slip:` is not part of any model. It is a plausible mistake
in the definition it stands before (a forgotten guard, an off-by-one, a missing
reset); `PROJECT.json` ("mutants") names the property that detects it. Each
property is thereby shown to depend on the code.

## Runs

| Run | Instance | Shows |
|---|---|---|
| `BeliefNetwork` | 3 propositions, 4 edges: supports, implies and two contradicts on a cycle with a chord; budget 10 | a round moves nothing down the chain or out of contradiction, affirms nothing denied, and loses a denial to `Unknown` only by an `Unknown` source (`NeverLoweredNorFlipped`), nothing is believed unfounded (`Founded`), passes settle (`EndsAtFixpoint`), provenance is a chain (`DerivationChain`) |
| `EvidenceMerge` | 2 replicas, 6 emissions of 3 sources on 2 aspects, window of 1 round, 3 rounds | `CarriedMatchesFlat`, `TombstoneIsNeverPresent`, `AbstentionCannotMute`, `OpposedVoiceCannotMute` |
| `EvidenceRevision` | 1 claim, 3 sources who report and vote, weighted swarm, 3 entries | `RecomputeMatchesOracle`, `RevisedBeliefIsEarned`, and `LedgerSpec`: the loop's ledger implements `EvidenceLedger` |
| `BeliefRevision` | 2 claims in a loop, one supporting the other and contradicted by it, one a goal and one succeeding the other, 2 entries | `Quiescent`, `OnlyRevisionLowers`, `GoalNeverUndone`, `WithdrawalLeavesOnlyFounded` |
| `Swarm` | 3 agents of different weight and trust, 1 claim, 6 messages of which 2 are sent, 3 joins | `OrderMattersOnlyForUnknown`, `ConsensusBetweenVotes` |
| `CommandLine` | 2 processes at a time, 3 commands, 1 fault, 2 days of 2 and 1 clock units; 2 forecasts, 2 signals, 2 sessions; integers of 4 bits | `ResolutionSticks`, `OneResolution`, `SupersedingIsNoEscape`, `AckSilencesOneSurfacing`, `StaleMeansExpired`, `FaultCostsAtMostTwo`, `FalseAcceptanceEarnsNothing` |
| `ServeSession` | 1 file, events of 2 cycles, 6 lines, 2 opens, 2 faults | `AppliedIsRecorded`, `CleanTraceReplays`, `TraceCatchesUp` |
| `PairedReplay` | every trace of 4 events about a claim that is a goal and supports another, 2 stamps of which the lower grows too old, a list of labels of 3 pairs | `SilenceIsForGood`, `ChargeHasCause`, `UnrecoveredIsContradictory`, `EveryPairIsAccountedFor`, `AcceptAgreesWithReport`, `SupportNeverUnaccepts` |
| `PairedCorpus` | up to 2 of 10 fixtures, 6 resamples drawn in every way, level 60 % | `VerdictNeedsRecording`, `SignificanceNeedsTheInterval`, `PassIsNoArtifact` |

The bounds are the least that let the cases meet. Three propositions make a
cycle of contradictions and a node with sources at two distances; nine rounds are
enough for any network of three (`PassesSettle`), so the budget of ten never ends a
pass. Three entries of three sources give a majority
against a minority, a source that contradicts itself, and a survivor left alone
by a retraction. Three rounds make a window move past evidence a replica still
carries in another's merged state. Two sessions on a file give an append after a
torn line, two faults a failed write whose line is kept and another after it.
Other unbounded parts of the code are bounded by `MaxEvidence`, `MaxLines`,
`MaxOpens`, `MaxFaults`, `LastRound`, `MaxEvents` and `MaxFixtures`, each in a guard
or in the choice of the initial state; symmetry is used among replicas, and among the sources that have the same trust.

In `Swarm` an agent's own belief and two messages make the shortest sequence whose
order matters; weights of 7, 3 and 0 tenths put a faction exactly at the threshold
and one voter out of the count. In `CommandLine` three commands are an emission,
its resolution and another one, or two forecasts of which one supersedes the other
and the resolution of both, or a surfacing, its acknowledgement on the next day and
a second surfacing; the two processes let two of them overlap, and the fault falls
between any two of their writes. A time to live of 7 is the largest of 4 signed
bits. `SupersedingIsNoEscape` and `AckSilencesOneSurfacing` hold of ledgers on which
no two commands have overlapped and no write has failed, `OneResolution` of those
without overlap: the files have no lock, and the code promises no more. The other
properties of the run hold through overlaps and faults, except that what a fault costs
is counted for ledgers without overlap.

In `PairedReplay` three assertions make the lower stamp too old (`StaleAge` 2 in
place of the age at which the code's decay falls below `theta_wait`), and the fourth event meets the silence, refutes an
acceptance, or clears a contradiction; a selector retracts the entries of the lower
stamp only. The list of labels has a pair that is sound once the trace is
long enough, one with a half missing and one with a half twice. Events about no
claim carry the lower stamp (`OtherCycles`), and a goal update leaves the status
open (`TraceStatuses`). In `PairedCorpus` two
fixtures suffice to differ in provenance, in corpus, in name, in size at one mean, and
in being usable; six resamples at a level of 60 % put the percentiles at the second
and the fifth, so that the interval leaves a resample out on each side. The
generator of the code is replaced by every sequence of draws, so what holds here
does not depend on its seed.

The fairness assumed is small. `ServeSession` has `WF_vars(ApplyEvent)`: between
recording an event and applying it the server waits for nobody (`main.rs`,
1328-1353), and unless the process dies it gets there; no fairness is assumed of the
client, of faults or of crashes. `TraceCatchesUp` says that the trace and the session agree
again whenever they differ. The remaining models are of calls that return and of
commands that run through finitely many steps, so there is nothing to wait for: that a
pass of propagation ends for the right reason is `EndsAtFixpoint`.

Deadlock is checked everywhere but in `ServeSession`, `CommandLine`,
`PairedReplay` and `PairedCorpus` (and the two runs below on their modules). The
first has a finite file, finitely many opens and faults, the second finitely many
commands and a clock that ends, the third a trace that ends, and the fourth is a
command that ends: all stop when these are used up.

### Where the code and its documentation differ

Each of these runs checks one statement of a document or comment, and TLC finds
a behaviour of the code that contradicts it. The quotes are in `PROJECT.json`.

| Run | Statement | What happens |
|---|---|---|
| `RetractionCascade` | retracting a parent dissolves what was derived from it | derived beliefs stay; only a relation's withdrawal resets them |
| `TraceFault` | replay gives the session's own report | a line that could not be flushed stays in the buffer and goes out with the next, and replay applies an event the session refused |
| `ClauseOne` | clause 1 is passed by an arm that beats the baseline | the interval may exclude zero below it: an arm that only loses and ties passes |

Read while modelling, and not checked by a run:

* `is_relation_withdrawn` (`hari-lattice/src/lib.rs`, 436) answers for a triple.
  With two parallel edges of which one is withdrawn it says that the relation is,
  while propagation still fires the other.
* Obligation 4 of the merge (`merge.rs`, 38) has merging more never hold fewer
  observations. A divergent version of a slot makes it `Contradictory` (318), and
  the contradictions derived from its old variant vanish.
* The contract has a selector that matches nothing be a no-op
  (`retraction-events.contract.md`, 92-93). The handler (`hari-core/src/lib.rs`, 1893)
  recomputes the belief all the same and reports the change, if propagation or
  consensus had moved it.
* The recovery metric (`hari-core/src/lib.rs`, 2679-2743) lays an escalation to the
  claim of the event at hand, though the escalation may be a goal's about another
  claim; hence the premise `OwnEscalationsOnly` of `UnrecoveredIsContradictory`. It
  also takes any retraction for a recovery, whatever the retraction leaves.

## Proofs

`tlapm` proves these for every value of the constants that the `ASSUME`s of the
modules admit. `PROJECT.json` lists the theorems a reader should know of.

### Induction

`InductionFacts` holds what the other proofs share. The library's induction
theorems take an operator as a parameter, which the provers cannot instantiate; here
the property is given as the set of what has it. That strict inclusion among
the subsets of a finite set is well-founded gives a least set among those that lack
a property (`LeastSubset`), hence induction on subsets, and on the natural numbers
by their intervals. By it, a recursive function over the subsets of a finite set exists
(`FoldExists`) and stays where each step stays (`FoldType`). The folds and sums of the
community modules are such functions: a sum takes its terms in any order
(`SumFacts`), does not depend on what the elements are called (`SumOfImage`), splits
over disjoint sets (`SumOfUnion`), and lies within the bounds of its terms
(`SumBounds`).

### Lattice and propagation

* `PropagationProofs`: facts on the lattice, by cases over its six values. Joining,
  combining and complementing stay in the lattice, combination never ranks below
  what it combines, the complement of a committed value is committed. A round keeps
  types, lowers no rank, and changes no node outside a closed set; by
  induction on its rounds, neither does a whole pass (`Pass`).
* How many rounds settle a network, whatever its edges (`RoundsSettle`): at most three
  for every proposition. A value that a round newly gives, if not `Contradictory`, is
  one that a source was newly given the round before, or its complement
  (`ChangeHasParent`). So every change goes back, round by round, to the first, along
  values of one kind (`True`; or `Unknown`; or `Probable` and `Doubtful`) and
  `Contradictory` (`ChangesAreTraced`). Values only rise, so a proposition rises to each
  of these at most once (`RoundsRaise`), and the rounds that change something map
  one-to-one to pairs of a proposition and one of at most three values. The bound is not
  sharp: on all networks of up to three propositions two rounds for each were enough.
* `BeliefNetworkProofs`, from the assumption that the edges are among the triples
  and the bounds are natural numbers:
  * `TypeCorrect`: `TypeOK` is inductive as it stands. It has to contain that a
    declared edge's endpoints have nodes, or an action property on `Present`
    could not be carried over a round.
  * `RoundsNeverLowerNorFlip`: from types alone. What a round assigns combines one
    set with the node's own value in it; so it outranks or equals that value, it is
    `Contradictory` where a denial meets an affirmation (`RoundKeepsDenials`), and it is
    `Unknown` after a denial only if `Unknown` was contributed, which is the complement
    of nothing else (`UnknownComesFromUnknown`). A pairwise fold, which the code once
    had, fails the second part: `False`, `Unknown`, `True` fold to `True`.
  * `BeliefsAreFounded`: `Founded` is inductive as it stands, since it quantifies
    over all closed sets: declaring an edge makes fewer sets closed, assigning
    makes fewer contain what is asserted, and a round changes a node outside a
    closed set only by an edge from outside it, whose source is `Unknown` and
    fires nothing.
  * `DerivationsFormAChain`: `DerivationChain` is not inductive, as it says
    nothing of changes yet to come. The strengthening `ChainInv` adds that while a
    pass is under way every derivation is of an earlier round, and every source
    that would now change a node was itself changed, to its present value, in the
    round just before, unless this is the first.
  * `PassesSettle`, for a finite set of propositions and a budget of at least three
    rounds for each: `EndsAtFixpoint`. `PassIsUnderWay` says that the beliefs are what
    the rounds so far have made of those at the start of the pass. A hypothesis on the
    budget is needed: a line of eleven supporting relations is longer than the ten
    rounds that `hari-core` allows.

### Merge

`MergeAndSwarmProofs`, for any replicas, agents, staleness budget and finite set of
emissions. All four invariants of the run follow from one inductive one, `CarryInv`:
as far as the window reaches, the base evidence a replica carries *is* what all it
ever received deduplicates to.

* A slot's versions resolve to exactly one observation, which `IsResolution`
  characterises (least claim, least weight, the variant if they agree); hence a set has
  one deduplication (`DeduplicationIs`), which may be done in stages
  (`DedupInStages`), and which leaving out whole slots (`DedupOfPart`), so the window
  and tombstones too, may precede or follow. Uniqueness needs that claims are compared
  by a total order (`ClaimAssumption`; the code compares strings).
* `MergedIs`: what a merge synthesises is in the merge's name, so the base evidence
  of a merge is the deduplicated window of its input's. It rests on no agent emitting
  under the reserved name (`merge.rs`, 57-66).
* `CarryingLosesNothing` and `TombstonedIsNeverPresent` follow from `CarryInv` and these.
* `AbstentionIsHarmless`: an observation in a slot of its own stands beside the
  others (`VoiceIsHeard`), `Unknown` clashes with nothing, so the sets of which the two
  masses are taken are the same sets; no sum has to be computed.
* `OppositionIsHarmless`: the newcomer adds its weight w to the informative mass and
  the contradictions it makes, at least one and each of at least w/2, to both masses;
  10 c > 3 d then gives 10 (c + x) > 3 (d + w + x), as 7 x >= 3 w (`WeighedIn`). It rests on
  weights of which the multipliers are exact (`EvenWeight % 10 = 0`), which holds of the
  code's fractions and not of rounded integers.

Of the swarm, for any agents, messages, trust and weights:

* `OrderMattersLittle`: `SwarmInv` says of every agent that what it holds is the
  order-independent combination of all that it is made of, or that this contains
  `Unknown` and two sides in conflict (`MadeOf`). That one more value keeps it so is a
  case analysis over the lattice (`CombiningOneMore`); an inbox is processed message
  by message, by induction along it (`InboxKeepsMind`).
* `ConsensusIsBetween`: follows from types. A weighted consensus is the value nearest
  to a quotient of two sums over the definite votes; if every vote is of a rank or
  above, so is the quotient (`MeanIsBetween`), and the nearest value is less than a
  rank away (`NearestIsNear`). The consensus by head is the same with weights of one.

### Belief revision

`BeliefRevisionProofs`, for any propositions, relations, sources, goals and agents.

* `LoopImplementsLedger`: every action maps to an append, a tombstoning, both in one
  correction, or a stutter of `EvidenceLedger`. `NoHistoryIsLost` is proved of the
  abstract ledger, whose types (`LedgerTypeCorrect`) are inductive, and
  `NoEvidenceIsLost` carries it over.
* `LoopTypeCorrect`: `TypeOK` is inductive once it says that evidence has a node,
  that edges do not dangle, and that only agents hold positions. Consensus,
  recomputation and passes give values, each by a lemma.
* `RevisionAloneLowers`: evidence and votes are combined upwards in rank (which includes
  lifting a denial to `Unknown`), and passes never lower a rank;
  a withdrawal keeps the beliefs that have evidence (`StepLowersOnlyByRevision`). That
  leaves a retraction or a correction of the proposition itself.
* `AchievedGoalsStay`: action by action; `UpdateGoals` only ever goes to True.
* `WithdrawalUndoesDerivations`: after a withdrawal, beliefs without surviving evidence
  start from `Unknown`, and a pass is founded on what it starts from.
* `RevisionsAreEarned`: a recomputed value is read off masses; `True` or `False` take two
  sources that agree, and `Contradictory` two that oppose each other or one that
  reported it. No live relation feeds the proposition, so the pass leaves the value.
* `RetractionIsFaithful`: the recomputation and its oracle observe different sets,
  since an entry's ordinal is its place in the ledger, and places shift when the retracted
  ones are left out. The fold that picks the survivors gives a bijection between the
  standing places and the survivors' (`SurvivorsArePlaced`); observations that
  correspond differ in their ordinals only, so they clash alike, weigh
  alike (`SumOfImage`) and project alike (`TwinsProjectAlike`). The source weights are
  natural numbers (`EvidenceAssumption`), in hundredths as in `HexMerge`.

* `EventsLeaveNothingToDerive`, for a finite set of propositions and a budget of at least
  three rounds for each: `Quiescent`. Every handler ends in a pass over beliefs and
  edges that fit together (`EveryEventSettles`); such a pass ends where another round
  changes nothing (`PassSettles`), and a pass from there changes nothing
  (`SettledPassIsIdle`). So no event relies on a later one to finish its derivations.

### Session

`ServeSessionProofs`, for any events, paths and bounds.

* `SessionTypeCorrect`: from `TypeInv`, which also says that there is at most one
  session and one pending event, and that no session's cycles go back.
* `NothingUnrecordedTakesEffect`: `AppliedIsRecorded` is not inductive, since an event
  is recorded a step before it is applied. `Recorded` adds that the applied events
  followed by a pending one are embedded in the file too.
* `CleanTracesReplay`: by `CleanInv`, of a file with one opening and no fault. While its
  session lives, tail and buffer are empty, the file can be replayed, and replaying it
  gives what the session applied, with the pending event after it while there is one.
  Once the session has ended the file may stay ahead by the one event that a crash
  caught between recording and applying. A replay takes one line at a time
  (`ReplayOfOneMore`), and its cycle guard refuses exactly what the session refused.

### Paired replay and the corpus

* `PairedReplayProofs`, for every trace and label list. The labels' expectations are
  assumed to be halves (`ReplayAssumption`), as the type of a label has them. Of the
  opinions alone:
  * `OpinionsAreTyped`: the evidence for and against is a natural number. It is
    inductive as it stands.
  * `AcceptanceMatchesReport`: follows from types alone. With r for, s against and
    the prior 2w, acceptance is r above 7/10 of the whole; then s and the prior
    share less than 3/10, which rules out conflict and doubt, and the projected
    probability r + w is above every threshold below 7/10.
  * `SupportKeepsAcceptance`: a value of the accepted side, direct or voted, brings
    at least seven parts for it to three against (`PositiveEvidence`,
    `NegativeEvidence`, by cases), and adding such a share to one above 7/10, with the
    prior fixed, leaves it above (`SupportKeepsShare`, linear arithmetic).
  And of the arms side by side:
  * `ReplayRunsTheLoop` and `ReplayRunsTheOpinions`: a step of the replay is a step of the
    loop and one of the opinions. So each arm behaves as it does alone, and what is
    proved of `BeliefRevision` and `SubjectiveLogic` holds in every replay
    (`ReplayedAcceptanceMatchesReport`).
  * `SilenceLasts`: by `SilenceInv`, that whatever was withheld from a claim's event is at
    least `StaleAge` old on the loop's counter, which only grows.
  * `PairsAreAccountedFor`: a pair's grade depends on the labels and on how many events
    there are, but not on the answers.
  * `UnrecoveredIsHeld`: where the metric finds no recovery, every later event about the
    claim was answered by an escalation (`NoRecoveryEscalates`); and by `EscalationInv` an
    escalated claim is contradictory after the event, as it was when its pass began
    and no pass takes `Contradictory` away.
  * `ChargesHaveCauses`: by `ChargeInv`, which says that what an arm accepted still stands in
    its beliefs, or was forgotten but not turned over, unless a relation leads to
    the claim or an event has refuted it. The proof showed that the causes had been
    named too narrowly: an acceptance as contradictory needs none, and where the
    swarm is asked, a vote that repeats the accepted value may still turn it over.
* `CommandProofs`, for every corpus, number of resamples and level:
  * `TheDualRuleIsThePValue` (`SignificanceNeedsTheInterval`). The smaller tail's
    count c satisfies 200 (c + 1) < alpha (B + 1); the percentile's position is the
    floor of alpha B / 200 (`PercentilePositions`). If the interval did not exclude
    zero, the statistics up to its lower end (and from its upper end on), being
    sorted, would all count into the tail (`RunIsCounted`), which makes it too large
    (`LargeTail`). So the second half of the dual rule, that the interval exclude
    zero, never decides.
  * `VerdictsNeedRecording`: `ProvenanceInv` says what the stamps of the fixtures
    loaded so far make of the provenance; the verdict reads it when all are.
  * `NoPassIsAnArtifact`: a bootstrap that claims variance has clusters of different
    means (`VerdictInv`). That equal means are noticed is a statement on sums: a
    cluster's scaled mean is whole (`ScaleAssumption` makes the model's scale wide
    enough, where the code has fractions), and the statistic of any draw from clusters of
    one mean is that mean (`SumBounds` from both sides).

### The ledgers of the command line

The second part of `CommandProofs`, for any processes, days, forecasts, signals,
sessions and bounds. A command takes one of few kinds of step (`StepIs`): it starts,
and knows all it will write, or it puts a line, puts the newline, dies, or puts a part
of a line.

* `LedgersHaveType`: the day files hold records of their ledger, newlines and torn parts
  (`CLTypeOK`).
* `ResolutionsStick`, through overlaps and faults: by `ForecastInv`. What is on file of
  one forecast stands in one file, all of it after the first with an outcome
  (`OneFileEach`); whoever is to write a forecast is the only one to know it
  (`QueueFits`, `OneEmitter`), and whoever is to write an outcome writes it behind the
  forecast.
* `ForecastsResolveOnce`, without overlap on the ledger: by `ScoreInv`, that what a
  command is still to resolve differs, and is not resolved on file, unless its line is out
  and only the newline is missing.
* `ResolveLeavesNothingDue`, without overlap and fault: by `NeatInv`, that every line of an
  undisturbed ledger can be read, and `DueInv`, that what was overdue when a resolve
  set out and still is, is among what it has to write.
* `AcksSilenceOneSurfacing`, without overlap and fault: events are ordered by day file
  and line, and a fold over them says what is silenced. `OperatorInv` says that the last
  file is that of the day a command writes on, so that what is written is last in the
  order, and the last event decides (`LastEventDecides`). It needs that days are
  monotone in time (`QuotientsGrow`).
* `StaleIsExpired`: from types, with the limits of the integers taken into account.
* `FaultsCostAtMostTwo`: by `FaultInv`, which counts the lines that are lost or sure to be
  lost (`Doomed`): those that do not parse, and where a file ends without a newline
  that anybody is about to write, the last line and the next. Each fault adds at most
  two (`Paid`), everything else adds none.
* `FalseAcceptancesEarnNothing`: from types. The source's rows are among the pool's
  (`PartDiffersLess`), so one more false acceptance in both moves the source's side
  of the comparison less than the pool's (`MarginShrinks`).

### Exactness

The integers of `SubjectiveLogic` are exact where the code has 64-bit floats.
A cumulative fusion of opinions with positive doubt adds evidence at a fixed prior,
which is what `CumulativeFuse` does; the base rate of one half is kept by every fusion.
The two were compared outside the models, the code's arithmetic in 64-bit floats
against the model's integers, on all 22,620 sequences of up to four assertions and
votes: recommendation and reported value agree on each. Doubt falls in proportion
to the number of fusions and stays far from zero, so the code's branches for
opinions without doubt are never taken.

### What is model-checked only

What states fairness, so `TraceCatchesUp`: the provers have no rule for it. Every other property of a passing run is proved, `EndsAtFixpoint` and
`Quiescent` for budgets of three rounds for every proposition. The three runs that
expect a violation check statements that are false.

## Not modelled

* The attention vector, action scoring and the state space: floating point; they
  order, scale or suppress the reported actions and never touch a belief. The
  models take the default pipeline, in which every action is reported;
  `PairedReplay` adds the scoring by age, in which a score is a threshold on age.
* The Lie arm of the paired evaluation projects on that state space. The metrics
  that only count (actions, stability, completed goals), the scoring of authored
  claim fates, conditioned abstention and the intra-class correlation are sums
  and quotients over a report that decide nothing here.
* The reliability report: arithmetic over files.
* Averages, weights and shares are exact integers in the models. A share that is
  exactly at a threshold is decided by rounding in the code and as "not above"
  here.
* Lineage export, extractor, clients and scripts: projections, and input and
  output. `ServeSession` has such a client as its environment.
* In the command line: the predicates of forecasts and their score (the outcome
  read off the artifact is a choice, and all forecasts observe one artifact), the
  calibration report, the calendar (a time is a number, a day a quotient), and the
  fold of one replay into rows, given as tallies. `--now` is the clock. A command
  reads its ledger at once, and torn characters, which make a whole file
  unreadable, are not told from other torn records.
* In the swarm: assignments to an agent's beliefs from outside, which
  `BeliefRevision` has as votes; an agent brings its beliefs when it joins.
* Hazards that were read and are not modelled, as they lie below the models'
  abstraction: a share of exactly 0.3 in floating point; a time to live of
  2^63 seconds or more, negative after a cast; operator lines out of the order of
  `--now`; a torn multi-byte character, which makes a whole day file unreadable;
  a silent declared agent, who votes `Unknown` and dilutes a consensus; a trace
  file opened for a second session, which replay refuses at its second header;
  a trace line longer than the writer's 8 KiB buffer, which is written past it; a
  standard output that fails while the corpus command prints its decision.
* Response codes and wording; the wire form of values.

## Plan

Done, in this order: lattice and propagation; network and its proofs; merge and
its replicas; consensus; belief revision and the abstract ledger; session and
trace; the three ledgers of the command line; swarm messaging; subjective logic;
the paired replay of three arms; the corpus command and its bootstrap; the proofs
of all of these.

Next:

1. Properties over what is there: the standing belief against the last reported
   delta; the freeze of superseded claims; a session recorded twice in the source
   reliability ledger.
2. An abstract forecast store (a forecast is open, then resolved, for good) that
   `CommandLine` implements while nothing overlaps or fails.
3. `ServeSession` over `BeliefRevision`'s events, in place of opaque ones.

Theorems to prove: that `CommandLine` implements the abstract forecast store; that two
rounds for every proposition settle a network; the properties of item 1.
