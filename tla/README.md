# The HADR agent in TLA+

A verification project for the code in `src/hadr_agent/`: the starter of an agent
that plays a fire-dispatch game against an external simulation engine. (Paths in
this file are relative to the repository root; in `PROJECT.json` they have a
further `src/` in front.)

1. [The system](#1-the-system): inventory, interactions, what is hard
2. [Modules](#2-modules): how state and actions correspond to the code
3. [Runs](#3-runs): what each shows, bounds, fairness
4. [Proofs](#4-proofs)
5. [Findings](#5-findings)
6. [What is not modelled](#6-what-is-not-modelled), and the [plan](#7-plan)

## 1. The system

An episode is a sequence of ticks. In each, the runner takes the engine's
observation, hands its contacts to an intake step, reconciles reports into
incidents, lets a dispatch model call tools, and asks the engine for the next
tick. The repository is a starter: `agent.agent_loop`, `dispatch._state_message`,
`intake._finalize`, both functions of `reconcile.py` and two of the three steps
of `runner._process_tick` are *holes* (they raise `NotImplementedError`, or are
a comment). A hole is modelled by what may fill it: the agent loop, intake and
`_finalize` by the most general code the calls around them allow, reconciliation
by any sequence of calls that keep to its job (section 6). What is shown about the
shipped code holds for any such solution; `Runner` also leaves the holes empty,
which is the program as shipped.

### Inventory

| Component | State | Operations | Correct when |
|---|---|---|---|
| incident store, `stores/incidents.py` | `_by_id`, `_seq`; the debug log | `open`, `get`, `find`, `update`, `link`, `close` | no incident is hidden from the status queries; ids name one belief; evidence is attached once; a rejected call writes nothing; `find` loses nothing and sorts nearest first; the log never aborts a mutation |
| dispatch run, `dispatch.py` | `DispatchResult`: accepted dispatches, usage, rounds | `run_dispatch`, `_run_tool` | only filed incidents are served; the record of dispatches agrees with the engine; a call is sent once; closing is explained |
| episode runner, `runner.py` | `Episode`: tick, seen contacts, token totals, coords cache, stores | `run_episode`, `_process_tick`, `coords_of`, `dispatch` | one `next_tick` per tick, nothing in flight across it; decisions on the current tick; each contact routed once; usage adds up, role by role; answers about a building agree; the episode ends, or waits for one answer that never comes |
| engine client, `engine_client.py` | an MCP session and its exit stack | `__aenter__`, `__aexit__`, one method per engine tool | each call goes out on the open session of its entry, once; the session is released |
| report store, `stores/reports.py` | contact id -> report; the debug log | `add`, `get`, `find_reports` | append only; the first write of an id wins; filters true at their boundaries, None and NaN included; the log is current or has warned |
| intake, `intake.py` | none | `extract_report`, `_parse`, `_finalize` (hole) | an object among prose is salvaged whole or not at all; nothing is invented; the report is an object; every call that returns reports its usage |
| reconciliation, `reconcile.py` | none | two holes | - |
| agent loop, `agent.py` | the message list | `agent_loop` (hole), toy tools | every call of a turn is answered; the loop is capped |
| token totals and LLM client, `util.py` | `TokenUse` | `add`, `client` | totals are the bill, field by field; a missing key is an error at once |
| prompts, `prompts/` | text | - | - |

### Interactions

- `run_episode` is one asyncio task. It awaits the engine (`start_episode`,
  `next_tick`) and `run_dispatch`; it stops at each await until that call
  returns or raises, for ever if it does neither, and catches nothing. There is
  no read timeout on the engine's session (`engine_client.py:35`, `:47`).
- `run_dispatch` gives the agent loop a tool executor, `_run_tool`. That one
  writes the incident store directly and reaches the engine through
  `Episode.dispatch`, which adds `expected_tick = ep.tick`. Whatever a tool
  raises becomes an error text for the model.
- The tool calls of one turn may overlap: `_run_tool` is a coroutine with an
  await in its `dispatch`, `travel_time` and `building_to_coords` branches. The
  other branches are single steps of the event loop.
- The engine has one controlling client, and the newest session wins
  (`mcp-play/README.md:33`): a second client, such as a person who connects to
  look, takes the runner's control away at any moment.

### What is hard here

- checks made before an await and used after it: the filed-incident check before
  a dispatch command leaves;
- lost and late messages: the engine accepts an order and the answer is lost, or
  a command the client gave up arrives later, possibly in a later tick;
- three copies of the clock: `ep.tick`, the tick of the observation, the engine's;
- long sequences of store calls: close, reopen, close without a reason, link
  twice, a rejected update half-way;
- redelivered contacts, within one observation and across ticks;
- usage handed from round to run to episode, with fields a provider may leave out;
- `coords_of`: check the cache, await the engine, write, while others do the same;
- a failure at any await of `__aenter__` and `__aexit__`;
- the debug log: written after the mutation, it may fail, and must not matter;
- text cut off by the completion budget, with braces in it;
- distances that are NaN, ticks and coordinates that are None, filters at equality
  (`find` raises when it comes upon a belief without coordinates);
- a provider call that was billed and then raises, and takes its usage with it;
- termination: a model that never yields, an engine someone else controls, or one
  that does not answer.

`PROJECT.json` lists them under "hazards", each at its line, with the properties
that would catch it, or why none does yet.

## 2. Modules

```
DebugLog  <-- INSTANCE --  ReportStore
    ^                                        TickProtocol
    |                                             ^ implemented by
LoggedIncidents -- EXTENDS, implements --> IncidentStore <-- Dispatch <-- Runner
                                                     (INSTANCE)  (EXTENDS)

Queries <-- EXTENDS -- ReportStore, FindIncidents      Coords   EngineSession   Intake   Tokens
```

Each has an `MC...` module with the values of its constants; `...Proofs` modules
hold the theorems. What the theorems are about uses recursive functions where the
code has a loop: a `RECURSIVE` operator, or `SelectSeq`, could not be reasoned about.

**`IncidentStore`** is `stores/incidents.py` with one action per method. A call
has keyword names and values for them, so `open(**fields)` and
`update(**fields)` take what a Python caller may pass: unknown names, an illegal
status, the store's own bookkeeping fields. `raised` is how the last call ended.
`open` refuses a status before it draws an id, but an unknown keyword only fails
in the dataclass constructor, after; so a failed `open` can use an id up.
`notes` stands for every free-form belief field, which the mutators treat alike.
The constant `CallerNames` says which keywords callers use.

**`DebugLog`** is the constructor's clearing of the file and `_log()`, which the
two stores have alike: rows are serialised, then the file is opened (which
truncates it) and written. Each attempt may fail before or after the truncation.
A failure of the kinds `_log()` catches ends in a warning, any other escapes.

**`LoggedIncidents`** is the incident store with a path: each mutator's step is
the step of `IncidentStore` and then the log's. `IncidentStore`, with the outcome
the caller sees in place of `raised`, is its abstract specification: a log
nobody can notice. A belief nested too deep for `dataclasses.asdict` is where it
can be noticed.

**`Queries`** is what the two queries share: distances, comparisons that NaN fails,
and `Kept`, the loop that appends what no filter skips.

**`ReportStore`** is `stores/reports.py`: the constructor, `add`, the query and the
log. `offered` records every argument of `add`, in order, so that the store can
be compared with the history of what came in.

**`FindIncidents`** is `find()` over beliefs that are opened, revised and closed at
will. A belief is at a point on a line, at NaN, or at None: then `Raises` says which
queries end in a `TypeError` of `math.dist`, and the properties are about the others.
The sort is CPython's for
lists of less than 64 elements (first run, then binary insertion), because with a
NaN among the keys the result depends on which comparisons are made. `Halve` is one
pass of the binary search, `Insert` one insertion. (Its behaviour is `FindSpec`, of
`FindInit` and `Revise`, so that one module can reason about it and `ReportStore`.)

**`Dispatch`** is `dispatch.py`, with the store and the part of `Episode` that
is its backend (`runner.Episode.dispatch`). `_run_tool` has one action per
branch; the dispatch branch is cut at its await: `DispatchTruck` (check and
send), then the engine's `EngineAccepts` or `EngineRefuses`, then `HearAnswer`
or `CallFails`. A request whose call failed before the engine took it stays in
`late`, from where the engine may still accept it. The agent loop is the most
general one: any set of calls per turn, any arguments, any order, up to
`MaxRounds` provider calls each of which may raise, billed or not. `Reconcile` is
the hole before it. Taken alone, the module is one tick, as `features/dispatch.feature`
drives it.

**`Runner`** is `runner.py` over `Dispatch`, with the same variables, and the
engine's clock. `pc` is where `run_episode` is waiting. `BeginTick` is
`_process_tick` up to its first await, with the whole loop over the contacts;
`EndDispatch` is what follows the await; `SendNextTick`, `EngineTicks`,
`HearNextTick` are the call of `next_tick` cut into request, effect and answer,
and `NextTickFails` may come before or after the effect. `Abort` is an exception
that leaves `run_episode`; leaving it by the end may raise too (`CloseFails`).
The engine accepts a command only from the client in control and only with the
right `expected_tick`; rivals may connect, play on and restart. `built`, chosen
at the start, says which holes are filled, and `use_llm` is the flag `--no-llm`.
The intake hole, when filled, makes at most one provider call for each human contact;
`IntakeReturns` adds its usage to `intake_tokens`, `IntakeRaises` may have been billed
for nothing. Only a count of its calls is kept here; what it reads is in `Intake`.

**`TickProtocol`** is what an episode promises to someone who looks from outside: on
each tick it acts, then asks once to leave it; an order takes effect in the tick
it was decided on or never; it is done only when the engine says that the episode is
over, with the outcome heard in that same response. `Runner` implements it
(`ImplementsTickProtocol`), with `Stage` mapping `pc`, and the ticks of accepted
orders mapping `orders`.

**`Coords`** is `Episode.coords_of` under its two users, the `building_to_coords`
tool and `location_coords`. `CoordsOf` is the code up to the await, `EngineAnswers`
and `EngineFails` the rest; any number of callers overlap.

**`EngineSession`** is `EngineClient` under `async with`, cut at each await, entered
several times: `__aenter__`, calls, `__aexit__`. `open` is what is open in the world,
`stack` what the exit stack would close; `EnterFails` leaves the first behind.

**`Intake`** is `extract_report` with each of its exits, and `_parse`. Text is a
sequence of tokens (braces, brackets, keys, scalars, prose); models write any
JSON value of bounded nesting, among remarks that may contain stray braces, and
the completion budget cuts the text off at any token.

**`Tokens`** has the usage of provider calls field by field, any of them missing,
through `TokenUse.add`, the round, run and episode totals, `token_report` and the
TOTAL of `print_summary`, with a bill of its own for each role. `Runner` follows the
same hand-over with a count of calls instead, where exceptions can interrupt it.

The histories (`orders`, `unheard`, `billed`, `intake_billed`, `intake_raised`,
`dispatch_billed`, `whole`, `human`, `sensor`, `asked`, `offered`, `abandoned`, `failed`)
record what the environment saw; no action's guard reads one,
except that `next_tick`'s request in flight is the last entry of `asked`, that the
engine chooses on a request in `late`, and where a history's length is a bound.

The definitions that come with a bug (`UpdateTorn`, `HearAnything`,
`DispatchFailsRetried`, ...) stand just above the definition each is a faulty
variant of. They are used in no specification; putting one in place of its
neighbour must break the property that `PROJECT.json` pairs it with.

## 3. Runs

| Run | Bounds | States | Shows |
|---|---|---|---|
| `incident_store` | 2 ids, 1 report, 1 tick, 3 statuses of which one illegal; callers write a status, an unknown name, both or neither; the file may fail at any write | 6,776 | beliefs stay well formed, visible, identified, evidence unique, rejected calls without effect; the log is current or has warned; the store with a log implements the one without |
| `logged_incidents_deep` | 1 id, a belief nested too deep | - | the second finding of section 5 |
| `find_incidents` | 4 beliefs, 2 types, 3 places, NaN or none; queries at every place, NaN, none, and at every radius | 168,421 | every belief is in one answer, or the query raises; matches are near; nearest first, and stable |
| `report_store` | 3 offers of 2 contacts; 2 places, none, NaN; 2 ticks, none; claims the log can or cannot write | 898,876 | first write wins, in order; time windows tile; near means near; the log |
| `dispatch` | 2 slots per turn, 2 turns, 1 incident, 1 truck | 17,514 | one dispatch run with overlapping calls, lost answers, late requests |
| `runner` | 2 ticks, 1 call per tick, 2 contacts in 2 deliveries, holes filled or empty, with and without `--no-llm` | 538,134 | whole episodes: clocks, orders, contacts, usage of both roles; the tick protocol; that they end or wait for one answer |
| `runner_shipped` | the same, holes empty, default flags | - | the first finding of section 5 |
| `coords` | 2 callers, 2 buildings, 2 points, 4 requests per building | 31,372 | answers agree; overlap costs at most one answered request per caller |
| `engine_session` | 4 entries | 4,693 | requests on the open session, sessions over open transports, the only leak, release on exit |
| `intake` | JSON nested one deep, in 16 pairs of remarks, cut at any token; 2 contacts | 5,348 | what is salvaged, what is not, what is paid |
| `intake_report` | the same | - | the third finding |
| `tokens` | 3 provider calls, counts 0 to 2 or missing | 296,181 | the totals are the bill, for each role; cached tokens are paid once |

**Why the bounds are enough to be interesting.** Two ids let an `open` hit an id
already in use; one report is enough to be linked twice; the tick, and the fields no
mutator reads, are left to the proofs, which cover all of them; the one illegal status stands for every one. In `dispatch`, two
slots give every interleaving of a check, a send and a store write, and two
turns let a request given up in the first meet the second. Incident ids the
model may name include 0 and ids not yet drawn, so unfiled ids occur. In
`runner`, the horizon of two gives a tick whose late order meets the next tick
and an observation that repeats the contacts of the last (`<<v1, h1, h1>>`
repeats one within itself too); a third tick repeats the second. Four beliefs make
the binary insertion of `find` search a list of three after a first run of one,
two or three, with two of them equally far, or NaN, anywhere. Three offers of two
contacts offer one of them twice, in any position; the places are two apart, so that
the radii include 0, equality and more. Four requests per building are one more than
two callers can need when one fails and is repeated. Four entries of a session follow
a clean exit, a failed one and an abandoned entry by another. One level of nesting is
where an inner object, complete, sits in one that was cut off; it is also where a list
of objects spans outermost braces that are no JSON.

Bounds in the guards: `MaxSeq` and `MaxIncidents` calls of `open`, `MaxRounds`
provider calls (the code's own `max_rounds`), `Horizon` ticks (an episode of the
engine ends), `MaxOffers` of `add`, `MaxAsks` per building, `MaxEntries`,
`MaxCalls`. They can only withhold calls; the proofs hold for every value of those
in their modules. The slots of `MCDispatch`, the contacts of `MCReportStore` and the
callers and buildings of `MCCoords` are interchangeable, hence the symmetry sets;
those runs check no liveness.

**Deadlock.** `MCLoggedIncidents`, `MCFindIncidents`, `MCCoords` and
`MCTokens` are checked for it. A dispatch run and an episode do stop
(`loop = "returned"` or `"raised"`, `pc = "done"` or `"aborted"`), and the report
store, the session and intake stop at their bounds, so the other configurations turn
the check off; `Terminates` is what says where an episode may stop before its end.

**Fairness.** In `Runner`, `FairSpec` asks weak fairness of `Task /\ ~Awaiting`: the
event loop runs the runner's task when it waits for nobody. No more is certain. A call
of the engine or of a provider need not end: `ClientSession` and `call_tool` are used
without a read timeout (`engine_client.py:35`, `:47`), so that an engine which accepts a
request and does not answer holds the runner for ever. `Awaiting` names those places,
and the holes, which may make such calls. So `Terminates` is not that the episode ends:
it is that the runner comes to rest (its place in the code and its calls change no
more), and then has ended, or waits. It rests on the round cap, on the horizon, and on
each failed call ending the episode: nothing is tried again. Nothing is asked of the
engine, of the rival clients or of the model. In `EngineSession`, weak fairness is asked
of `CloseNewest` alone: `AsyncExitStack.aclose` awaits each close in turn, and the
contexts it closes are taken to return or raise. Nobody is asked to leave the block.

A request for `next_tick` that the runner gave up may still reach the engine; the
runner has then ended with an exception and asks for nothing more, so what the
engine does after is not modelled. Orders in `late` do reach it, in any tick.

## 4. Proofs

`tlapm` checks the eight proof modules. Every safety property of the passing runs, every
action property and both refinements are theorems; only liveness is not.

**Assumptions.** Nothing is assumed except the named assumptions on the constants, which
TLC evaluates in every run. They are of four kinds:

- None, NaN, error names and the like are no values of the sets they are told apart
  from, as in Python (`NoneAssumption`, `NamesAssumption`, `StoreAssumption`,
  `TypesAssumption`, `NoneIsNoCause`, `EscapeAssumption`; `FileAssumption`: what an
  earlier session left in a log is not mistaken for this one's rows);
- ticks, counts, points and bounds are numbers (`TicksAssumption`, `MaxSeqAssumption`,
  `RoundsAssumption`, `HorizonAssumption`, `CountsAssumption`, `NumbersAssumption`, the
  `Bound...` ones); `Horizon` is positive because an engine that is over before it
  starts delivers no tick; `MaxIncidents` of `FindIncidents` is below 64, where
  CPython's sort is the one insertion sort modelled;
- the legal statuses, the default reason and the empty text are among the values a caller
  may write (`StatusAssumption`, `TextsAssumption`, `ReasonAssumption`), and callers use
  keywords that exist in the model (`CallerNamesAssumption`);
- the sets a run chooses from have the shape they are used in (`BuildsAssumption`,
  `DeliveriesAssumption`, `ClaimsAssumption`).

Three theorems have a hypothesis of their own: `EvidenceLinkedOnceAlways` and
`IdentityIsKept` assume `CallersLink`, `LoggedStoreIsTheStore` that no belief is nested
too deep to be encoded. Without each it is false: see below, and section 5.

**`IncidentStoreProofs`**, for any sets of reports, statuses, ticks, keywords
and any number of ids:

- `TypeCorrect` is inductive as it stands: all ids lie in `1..seq`, so a new id
  overwrites nothing, and the legality check before `update`'s first write keeps
  the status field in the vocabulary.
- `NeverStrandedAlways` follows from it alone: it needs only that stored
  statuses are legal.
- `RejectedCallsWriteNothing` needs the type invariant too, because `update` is
  "raise, or write and clear `raised`" only if `UpdateError` is not None.
- `EvidenceLinkedOnceAlways` and `IdentityIsKept` assume `CallersLink`: callers
  attach evidence with `link()` and leave `created_tick` to `open`. Without it
  they are false (`update(report_ids=[...])` is legal Python); the only call of
  `update` that ships, `dispatch.py:157`, satisfies it. They rest on one lemma, that
  every step keeps each incident's evidence as a prefix and without repetition.
- `LogOfBeliefsIsCurrentOrWarned`, about `LoggedIncidents`: by `TypeCorrect` and the log's
  own invariant, that a file which is not the store has been warned about. It holds
  however the file system fails.
- `LoggedStoreIsTheStore`: step by step, a mutator with a log is the mutator without one
  and a `raised` that it cannot change. The hypothesis, `Deep \cap (Texts \cup {None}) = {}`,
  is what the second finding shows to be needed: what callers write can be encoded.

**`DispatchProofs`**, for any number of slots, trucks, rounds and incidents:

- `StepWritesStore` sums the store up: every step of the composition only adds
  incidents, keeps the store typed and keeps closed incidents explained.
- `TypeCorrect` strengthens the type invariant with `CountsRounds`: in
  the middle of a turn at least one round has been counted, without which the
  round number of a command has no type.
- The five safety theorems come from one inductive invariant, `IInv`:
  `Quiet` (no call is in flight outside a turn, nothing has been requested
  before the run), `RequestsAreFiled` (every request sent, late or accepted
  names a filed incident; stable because incidents are never removed),
  `RecordIsTrue`, `NothingForgotten` (accepted orders are recorded, on their way
  or unheard), `CallsAreOnce` and `ClosedHaveReason`. `CallsAreOnce` is where
  the work is: a call in flight carries its own round and slot, no request of an
  earlier round does, and a call not yet taken by the engine has no other
  request among the late or accepted ones. Of the five
  properties only `ClosedHaveReason` is inductive as it stands: that accepted
  orders name filed incidents, say, needs the same of requests that the engine
  has not seen yet.

**`RunnerProofs`**, for any horizon, deliveries, slots, trucks, rounds and incidents,
with any of the holes filled. `EpisodeInv` is what is inductive across the ticks:

- `EpisodeTyped`, the types of both levels; an observation is of a tick there is.
- `LoopQuiet`: a dispatch run that has not begun or has ended is idle, and then nothing is
  in flight. `NothingInFlightAcrossTicks` follows.
- `Clocks` relates `ep_tick`, the observation, the response on its way and the engine's
  clock at each place `run_episode` waits at. The engine's own tick may be ahead once a
  rival has played on; but the rival holds the control then, and every clause about the
  engine's tick is conditional on that. `ActsOnTheCurrentTick` follows.
- `OnTime`: no request, in flight, late or accepted, expects a tick other than the one it
  was decided on, or one that is still to come. With the engine's check of `expected_tick`
  this gives `OrdersLandInTheirTick`.
- `EachContactRoutedOnce`, `TokensBalance` and `BeliefsAreDated` are then inductive; the
  first by its own argument about `Route`: of the turns of an observation in which an
  unseen contact comes up, the first hands it on and no later one does. `TokensBalance`
  says exactly what may be lost: of intake at most the calls that raised; of dispatch
  nothing but the run that raised, and with it at most one call more than it had counted.

The properties of a dispatch run hold of a whole episode too (`EpisodesServeFiledIncidents`
and the three after it), although `BeginDispatch` starts a new run over what the last one
left, which `DispatchProofs` does not have: `FreshTick` says that no request carries the
tick of a run that is still to begin, so that a new run's calls collide with none.
`EpisodeImplementsTickProtocol` is the refinement: with the mapping of section 2, each step
of `Runner` is a step of `TickProtocol` or a stutter; it rests on `Clocks` and `OnTime`.

**`EngineSessionProofs`**, for any number of entries. The three properties are not
inductive: they do not say what the exit stack holds. `StackIsOpen` does, at each await of
the current entry, and `OthersAreClosed` says that the entries before it left open only what
a raising `__aenter__` abandoned, and that those after it have opened nothing.

**`QueriesProofs`**, for any contacts, claims, points, ticks and offers. `EvidenceInv` is
that each contact offered has a first offer, and that the rows are these, in order:
`FirstWriteAlwaysWins`. `LogIsAlwaysCurrentOrWarned` uses that a row which cannot be encoded
never leaves the store, so that an attempt that succeeds had no such row before either.
Then the queries:

- A loop is a recursive function. `LoopsRun` shows that one exists for any step,
  `LoopStays` that it stays where the step does; from these `KeptUnrolls`, `PlaceUnrolls` and
  `SortUnrolls` give the equations of the filter loop, the binary search and the sort. What
  holds after every pass is shown by looking at the first pass that would break it.
- `KeptChosen` says what the filter loop leaves: the elements chosen, each once, in order.
  With it `TimeWindowsAlwaysTile` and `NearAlwaysMeansNear` are about comparisons only; the
  latter needs that `LessEq` is false of NaN where `~Less` would be true.
- `PlaceInside`: the binary search ends inside the list whatever the comparisons say, so
  the sort is a permutation (`SortArranges`) with NaN among the keys: `FindNeverLoses`,
  `MatchesAreAlwaysNear`.
- `PlaceParts`: among number keys it ends where the greater ones begin, so each insertion
  keeps the order of distance and, at equal distance, of ids (`InsertSorts`, on top of a first
  run that rises, or falls strictly and is reversed): `NearestAlwaysFirstAmongPlaced`.

**`IntakeProofs`**, for JSON nested to any depth, cut off anywhere. A text is `Level` when
its braces are balanced, an object `Encloses` what is between its own. By the first depth at
which it could fail, each JSON value is level and each object encloses; so a proper prefix of
an object is still open at its end. That is why what remains of a cut object is never
JSON from its first to its last brace, at any depth (`ObjectsComeWholeOrNotAtAll`).
`NothingIsInvented`, that a report is one stretch of the text with no object begun before
it or ended after it, needs no nesting; `UsageIsAlwaysReturned` is an action property.

**`TokensProofs`**, for any counts providers report and any number of calls:
`TotalsAreTheBill`, `CachedTokensArePaidOnce` and `TheDisplayGrows`. The invariant
adds to the balance of each role that each total, the one shown included, has its cached
tokens among those read while every usage reported did, and that what was shown is
covered by the totals. The lemmas say
what `TokenUse.add` does field by field: `ReportedAdds`, that adding a response is
adding the total it reports, missing fields counting nothing, is what makes both
branches of `add` one operation.

**`CoordsProofs`**, for any number of callers, buildings and requests:
`AnswersAlwaysAgree` and `NobodyAsksNeedlessly`. The invariant counts: until a
building's point is cached, the requests that have not failed are exactly the callers
still waiting (hence no more than the callers); after, at least one more than those,
which also shows that only an answer fills the cache.

**Only model-checked**: `Terminates` and `ExitReleases`, the liveness properties (liveness
and ENABLED are out of the prover's reach), and that the three findings are violations.

**What helped.** The library's induction theorems take an operator as a parameter, which no
installed prover can instantiate. Well-founded minima do as well: `WFMin` gives each set of
naturals a least element, and a counterexample at the least place contradicts the step to it.
A recursive function is a CHOOSE, so its equation needs a proof that some function satisfies
it; that is where the loops above begin.

## 5. Findings

**The default command does not tick to terminal.** `README.md:58` ("Out of the box
the inner loop is empty, so the shell ticks cleanly to terminal") and
`runner.py:6-7` describe what happens with `--no-llm`. The default command has
`use_llm=True`; its first tick calls `run_dispatch`, whose state message is a hole
that raises `NotImplementedError` (`dispatch.py:106`), and nothing catches it. Run
`runner_shipped` gives the trace; `runner` shows that the episode ends there, with nothing
being tried again.

**The debug log can abort a mutation.** `incidents.py:12` promises that "a debug aid
must never be able to abort a mutation", and `_log()` that "any remaining failure is
warned about rather than raised". It catches `OSError`, `TypeError` and `ValueError`;
a belief value nested some hundred levels deep, which `json.loads` accepts, makes
`dataclasses.asdict` raise `RecursionError`, a `RuntimeError`. It leaves `open`,
`update`, `link` or `close` after the belief was written. Run `logged_incidents_deep`
gives the trace; `reports.py:127` has the same clause (`ReportStore` models it).

**A report need not be an object.** `_parse(content) -> dict` (`intake.py:86`) returns
`json.loads(content)` whatever that is, so a model that answers with a number, a text or
a list makes `extract_report(...) -> tuple[dict, TokenUse]` (`intake.py:52`) return it as
the report. The request asks for a JSON object; nothing checks the answer. Run
`intake_report` gives the trace. `NothingInvented` is about where a report comes from,
`ReportIsObject` about what it is.

Seen while modelling, and kept in the models as the code has them:

- `find(near=...)` sorts by the distance alone, and `<` never orders a NaN: with
  beliefs at distances 3, NaN, 1 the answer comes back in that order, though the
  docstring says "sorted NEAREST FIRST" (`incidents.py:143-144`).
  `NearestFirstAmongPlaced` is therefore stated for stores without such a place.
- `open` and `update` take `coords=None`, and `find(near=...)` then raises `TypeError` as
  soon as such a belief passes its status and type filters (`incidents.py:156`, `:163`).
- A model told that its dispatch failed may order the truck again, and the request given
  up first may be accepted after: `OneOrderPerCall` is about one tool call, no more.
- `EngineClient._call` returns `{}` for a result without structured content, so
  `coords_of` raises `KeyError('point')`, which `_run_tool` reports to the model as a
  missing argument (`dispatch.py:189`): one of the three answers in `AnswersAgree`.
- An `__aenter__` whose `initialize()` raises leaves transport and session open;
  `OnlyAbandonedEntriesLeak` says that nothing else leaks.

## 6. What is not modelled

- the text of prompts, messages and logs, and the command line of both `main()`s;
- `util.client`'s lookup in the environment: two dictionary reads and a default, with
  no state of its own; that a missing key raises is `NoKey` in `Runner`;
- the toy tools of `agent.py` (calculator, cipher, file listing): a demonstration with
  no state, and `agent_loop`'s body, a hole whose most general filling is in `Dispatch`;
- the engine's world (fires, buildings, trucks under way): external; only its
  clock, control, map and acceptance of commands matter to the agent's state;
- `reconcile.py`: both functions are holes; what stands for them is any sequence of
  calls of the store's mutators at the current tick that open with notes, note, link,
  and close with a reason. They could do more (`incidents.py:166-213`: write any field,
  at any tick, close with an empty reason), and then `ClosedHaveReason` and
  `BeliefsAreDated` would be theirs to keep; `IncidentStore` allows all of it;
- `intake._finalize`: a hole that returns any report or raises;
- the tests under `features/` and `tests/`: read for what the program is used for.

## 7. Plan

Done: every component with state of its own is modelled and checked, and every safety
property, action property and refinement that a run checks is proved. What is left to do,
most important first:

1. The ranking behind `Terminates`, as action properties: the steps of the task between two
   waits decrease a measure of rounds, calls in flight and place in the code, for any
   horizon; only the fairness argument would then be left to TLC.
2. A specification of `find()` (any permutation that is sorted where keys are numbers) of
   which `FindIncidents` is a refinement, for use by what fills `reconcile.py`.
3. `reconcile.py` and the other holes, when they are filled.
