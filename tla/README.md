# Verification of Bitcoin 2.0max

TLA+ models of the repository's stateful parts, TLC configurations that check
them on small instances, and TLAPS proofs of their main properties for all
values of their constants. Paths are relative to the repository.

    tlc -config Accounts.cfg MCAccounts          # a run: the cfg and its MC module
    tlapm AccountsProofs.tla                     # the proofs of a module

`PROJECT.json` lists the runs, the lines every definition models, the mutants
(a plausible bug per property, defined next to the operator it would replace,
that the run must catch), the findings, the hazards and the theorems.

## 1. The system

Three programs and a website that share a repository and little else.

**The account server** (`dashboard-server/server.mjs`): one node process over
one sqlite file. A request handler runs alone between two `await`s; it awaits the
request's body, scrypt derivations and the market's promise. What was read
before an `await` is used after it, and a kill can fall between any two
statements, none of which share a transaction.

| part | state | operations | what makes it correct |
|---|---|---|---|
| credentials and sessions | tables `users`, `sessions`; `activeHashes` | register, login, logout, password, `userFrom`, `newSession`, `deriveBounded` | a session or a change of password comes from a proof of a password of that account; a change revokes what was before it; one account per email; derivation slots are bounded and given back |
| rate limits | `limits` | `throttle` | a bound per interval; no lock-out beyond it |
| workspace items | table `items` | GET, POST, PUT, DELETE | the limit per account; payloads fit types; deleted is deleted |
| community chat | tables `messages`, `reports` | GET, POST, DELETE, report, list of reports | a number always means the message it meant on the page; only author and moderator delete |
| market quotes | `priceCache`, `pricePromise` | `market` | one flight at a time, failures cached, old quotes not passed on, everyone answered |
| static files, routing | none | one decision per request | not modelled |

**The daemon** (`src/main.cpp`, `src/node`, `src/net`, `src/api`,
`src/electrum`): the main thread (start, join, signal handler, destructor), the
main loop, the accept loop, a thread per handshake and the HTTP thread. They share
`running_`, `listenFd_`, the Electrum client's descriptor and `peers_`.

| part | state | operations | what makes it correct |
|---|---|---|---|
| node lifecycle | `running_`, `listenFd_`, `electrum_`, `peers_` | `start`, `stop`, `join`, `~Node`, `mainLoop`, `acceptLoop`, `handleSignal` | a signal ends the process, listener, Electrum connection and HTTP socket do not stay open, no thread uses what is gone |
| P2P handshake | a `Peer` at each end and the stream between | `doHandshake`, `sendMsg`, `recvMsg` | both ends agree; they never wait for each other; only a version and a verack complete it |
| HTTP server | its flag, socket, thread | `start`, `stop`, `run` | stops before the node dies; serves one client after the other |
| Electrum client | one socket, `nextId_` | `connect`, `disconnect`, requests | an answer belongs to its request |
| status, blocks API | none | GET | reads |
| configuration | a struct | `loadConfig` | parsed once |

**The regtest tool** (`src/tools/regtest_miner.cpp`, `src/consensus`): a
command that replays, mines and appends a private chain file, possibly many at
once on one file, killed or cut from power at any time.

| part | state | operations | what makes it correct |
|---|---|---|---|
| issuance | none | `blockSubsidy`, `validCoinbaseReward` | the issue fits under the schedule's bound and the maximum; the check never refuses the honest chain |
| chain | tip, height, issued | `append`, `blockTemplate`, `load` | blocks in order; honest blocks are accepted up to the limit |
| tool and file | the file, its lock, the stream's buffer | `FileLock`, replay, mine, flush, `sync` | the file is one chain; a height that a mining run printed survives |
| transactions, compact target, wallet, cryptography | none | pure functions | sequential |

**The website** (`docs/`): scripts of static pages. Each script is a closure over
its own variables and elements; it waits for `fetch`, for timers and for its user, and
nothing orders what it waits for.

| part | state | operations | what makes it correct |
|---|---|---|---|
| personal dashboard (`dashboard.js`) | `user`, `data`, `view`, `room`, `chatBusy`, the timers, the shared cookie | `enter`, `loadData`, `setView`, `loadChat`, `sendMessage`, `logout`, `loadMarket` | the records shown are the signed-in account's; the chat shows its room and goes on after failures |
| live numbers (`script.js`) | the elements of the page | `loadNetworkStatus`, `loadBitcoinData`, ... on 15, 30 and 60 second timers | what two sources write in pairs (word and detail, word's colour and badge, height and mempool) stays in pairs; an outage does not stay on screen |
| Bitcoin lookup (`script.js`) | `searchController`, the result panel | `searchBitcoinTransaction` | the last search rules; the button comes back |
| price cards (`bitcoin-price.js`) | `busy`, `checkedAt`, the card | `refreshPrice`, the visibility handler | a price that is shown as live is young, but for the moment after the page is shown again |
| Ethereum panel (`ethereum-dashboard.js`) | `id`, `busy`, the form | `rpc`, `refresh`, `submit` | an answer goes to its own question; neither flow blocks for good |
| NFT studio (`nft-studio.js`) | `records`, `storageReadable`, `localStorage` | load, save, feature, remove, import | the storage is a gallery the next tab can open |
| Mini K (`avatar.js`) | action, route, pointer, timers | `frame`, pointer, key, pause and resize handlers | he is held by the pointer that took him last, for as long as it is down |
| network search, charts, theme, navigation | none that lasts | synchronous handlers | not modelled |

Between them: the dashboard page calls the account server, the live numbers ask the
daemon's API and mempool.space. The build, the containers and the copy of the dashboard
sources under `Bitcoin2Max-dashboard-update` carry no state of their own.

The behaviours that are hard: overlapping handlers that use what they read before
an await; kills between statements; two processes on a file; a signal handler that
runs a method of an object other threads use; blocking reads without time-outs; answers
that come late, never or for another question; tabs on one storage; and halving,
bounds and loop limits in unsigned arithmetic. The list, with lines, is
under "hazards" in `PROJECT.json`.

## 2. Modules

| module | models | refines or uses |
|---|---|---|
| `Accounts`, `AccountsProofs` | credentials and sessions | |
| `ServerProcess` | the server's request slots and clock | |
| `RateLimit` | `throttle` | extends `ServerProcess` |
| `Workspace` | items | extends `ServerProcess` |
| `Community` | chat and reports | extends `ServerProcess` |
| `MarketCache` | quotes | extends `ServerProcess` |
| `AccountServer`, `AccountServerProofs` | the four in one process | extends them |
| `Subsidy` | the schedule | |
| `RegtestChain`, `RegtestChainProofs` | the chain in memory | extends `Subsidy` |
| `ChainStore` | what the chain file promises | abstract |
| `RegtestMiner`, `RegtestMinerProofs` | the tool and the file | extends `RegtestChain`, implements `ChainStore` |
| `Regtest` | chain and tool in one specification, proved in `RegtestMinerProofs` | extends `RegtestMiner` |
| `PeerHandshake`, `PeerHandshakeProofs` | two ends of a connection | |
| `NodeLifecycle`, `NodeLifecycleProofs` | the daemon's threads and its HTTP server | |
| `PageScript` | what the page scripts have in common | |
| `DashboardPage` | the personal dashboard | extends `PageScript` |
| `HomeFeed`, `Lookup`, `EthereumPanel`, `PriceCard` | the scripts of the home page | extend `PageScript`, but for `PriceCard` |
| `HomePageProofs` | the four scripts of the home page | |
| `NftStudio`, `MiniK` | the studio's gallery, the figure | |
| `Website`, `WebsiteProofs` | the scripts in one specification; proofs of dashboard, studio, Mini K and the whole | extends them |
| `MC...` | instances for TLC | |

Four specifications put parts side by side that share no state: `AccountServer`
and `Regtest` (a variable `part`), `Website` (`script`) and
`PeerHandshake` (`Foreign`, who plays an end). The variable is chosen in the initial state and
never changes; only the part it names moves. A step of one part is neither enabled nor
disabled by another's state, so the product of their interleavings would reach no state of
any part that is not reached this way.

### Accounts

A request is a process: `pc[r]` says which await it is in and `ctx[r]` holds the
locals it took across it (the row read by `login`, the user of `userFrom`). One
action is what a handler does from one await to the next, so
`LoginBody` (read the row, take a slot), `LoginDerived` (give the slot back,
compare) and `newSession` are separate steps. A password change stops at "revoke"
and "session" though nothing awaits there: a kill (`Restart`) can fall between
those statements, and no other handler runs there (`Yielded` in the guards).
A handler that has passed `userFrom` goes on with that user even if its session ends while its body
is awaited; the code does not ask again and no document says it should, so no property forbids it.
scrypt is injective and salts never repeat. `Expire` makes a session old at any time.
`stored`, `torn` and the fields `proof` and `under` of a session are history: what
the properties compare with.

### Rate limits

`throttle` with the sweep of expired buckets at its head. Time is a counter.
`accepted` is history: by key, the times at which a request was let through. A count above the maximum is not told apart from the
next one (a bound of the model, exact for the code's comparison).

### Workspace, Community

The same division at the body's await. A payload is the type whose
validation it passed. In `Community` a page remembers what it was sent and names messages by
number; each message carries, as history, which post made it, so that a number
given twice would show.

### MarketCache, AccountServer

`market`, the two fetches and the landing of the flight. The cache, the end of the
promise and the continuation of its waiters run as microtasks before any
other event, hence one action. Ticks stop while a timer is due.

`AccountServer` puts items, chat, quotes and throttle in one process: they share
nothing that changes but the clock. `Accounts` is beside it: who is signed in is asked
before a handler's first await, and what it answers is an input here.

### RegtestChain, Subsidy

A block's hash is what it commits to, so a tip is the sequence of nonces behind it;
`checkProofOfWork` is membership of the nonce in `Solutions`. `append` is
offered every block a caller could make. `Shifted` is the function of right
shifts, a constant constrained by its halving law so that the module has no
recursion. `TemplateHeight` is where `blockTemplate` builds, `BelowLimit` where `append`
still takes; `HonestBlockAccepted` says that the two and the reward check agree: the
honest block is taken wherever there is a template, and nowhere else.

### RegtestMiner, ChainStore

Each run is the tool from its lock to its report; the file is a sequence of pieces
(whole records and the fragments a cut can leave), of which the first `durable` have
been fsynced. The stream may write a piece at any time (`Spill`). `Kill` loses
a run's buffer, `PowerLoss` everything after a point not before `durable`. The code
syncs the file but never its directory, so until the file has outlived one loss of power
(`linked`) the next may take it whole, synced or not (`EntryLost`). Two
histories tell what was printed: `printed`, the height the last run to end well showed, and
`acked`, the greatest a mining run showed, after its fsync (`Sync`). A run without
`--mine` prints what it replayed and syncs nothing (`Report`): the records may be those of
a run killed before its fsync, and a loss of power may take them although their
height was printed. No document of the repository promises more, so this is no finding.

`ChainStore` hides the pieces, the buffers and the lock: heights are stored; a run
that ends well prints the stored height, and acknowledges it if it mined
(`Acknowledge`) or not (`Show`); a loss of power takes what is not acknowledged (`Lose`)
or the whole of a file that is not `rooted` (`LoseFile`). The file's height is the
refinement mapping.

### PeerHandshake

Both roles of `doHandshake`, each a sequence of sends and receives as the code
orders them, over two streams and a connection that may break before any step. An end
in `Foreign` is any software: it sends any message or goes away. `Casts` lists
the choices of `Foreign` a run explores: nobody, or either end. What
`recvMsg` refuses (magic, command, length, checksum) is a message of kind `"refused"`.

### NodeLifecycle

`main` is where the main thread is; `stopping` is the statement of `stop` it is in,
for the handler or for `~Node`; meanwhile `main` stands still, as the kernel runs a
process's handler on its main thread when that thread does not block the signal. A second signal
that nests in the handler of another kind is left out. A store or load of
a shared word is a step of its own wherever another thread could tell. `select` with a
descriptor that was reset since the check is undefined: the model lets the
process abort or go on. The sockets of handshake threads, which are detached, are
not among the descriptors of `NothingLeftOpen` (listener, Electrum, HTTP): such a thread may
outlive `~Node` with its own. An Electrum server that is up answers: one that accepts the
connection and then says nothing would keep `connect` in `recv` (`electrum_client.cpp`, 123), and
a signal could not end the process then. `HeededSignalEnds` does not cover it.

### DashboardPage

One open page. `session` is the cookie, which other tabs change; `call[f]` is the one
request a flow (`enter`, the chat's poll, quotes, writes ...) has in flight, with the
account, view and room of the moment it was sent. `Loaded`, `ChatLoaded` and the others are
what the code does when the answer is there, with what it compares by then; `Denied` is the
401 that signs out. `markup` is what `viewContent` holds, `box` and `signature` what the chat
holds and takes itself to hold. The server's `posted` counts messages of a room. At most
`MaxCalls` requests are in flight beside the chat's.

### HomeFeed

Each element that two sources write is a variable whose value names its author. A request
has no time-out and may stay open through the next poll; an answer is known by its feed. In
the daemon `/transactions` is always refused and `/blocks` is always empty, as
`NodeLifecycle`'s node never learns a block, so "No blocks available" replaces the rows of
mempool.space now and then: `FeedComesBack` says "again and again", and no more holds.

### Lookup, PriceCard, EthereumPanel

`Lookup`: a search is a process from the input's check to its `finally`. A new search aborts
the one before, which still runs to its end beside it. `PriceCard`: time is counted, in units of the
12 seconds a check may take; a hidden page's timers may be late, a visible one's are not. A page may be
loaded hidden, and then makes no check before it is shown. A page that is shown again, or
is new, has what it had on the card, as good as it was, until its check ends, 12 seconds at
most; hours may have passed. `FreshOrOffline` names that exception and has no other.
`EthereumPanel`: requests are numbered by the shared counter and the provider may answer any of them
with the answer to another; what `Promise.all` has given up is still in `open`. The fields are filled in
turn (`Fill`): a malformed block throws before the first, a malformed gas price after the height,
so the panel may show the height of one refresh beside the gas of another, under DATA OFFLINE.
`OwnAnswers` says that it is no worse than that, and never so under LIVE.

### NftStudio, MiniK

`NftStudio`: tabs read the storage once and write it whole. A draft is whether it is featured.
`MiniK`: a unit of time is half a second of his clock; where he stands is left out. `latest` is
history: the pointer that came down last, while it is down.

## 3. Runs, bounds and results

| run | instance | shows |
|---|---|---|
| `accounts` | 2 requests, 2 ids, 2 emails, 2 passwords, 3 salts, 3 tokens | one account per email; no session or change without that account's proof; revocation |
| `accounts_answered` | 2 requests, 1 slot | slots exact and bounded; liveness: answered, and never busy for good |
| `accounts_stale_login` | 2 requests | finding |
| `accounts_lost_change` | 2 requests | finding |
| `account_server` | 2 requests, a moderator and a member, 7 ticks; items: 3 ids, limit 2; chat: 2 rooms, pages of 1, 3 posts; quotes: 2 symbols, a life of 3, a time-out of 2; throttle: keys of 1 in 2 and 2 in 3 ticks, swept past 1 entry | limit, types, no revival; numbers keep their meaning; asked seldom, young quotes, nobody waits past the time-out; bound per interval, no lock-out |
| `regtest` | eras of 2 heights, 3 halvings of 5 (the first rounds down), a maximum of just 2·2·5, 7 heights; 2 runs of the tool, 2 blocks a run | issue under the schedule, acceptance up to the limit; one chain file, and what of it a loss of power may take: the tool implements `ChainStore` |
| `handshake` | 2 heights, nobody or one end foreign, 3 foreign messages of any kind, any cut | agreement, no refusal, completion means greeted; liveness: every handshake ends |
| `node_shutdown` | 2 signals, 1 remote, 1 outage, 2 attempts | API and descriptors at the end; liveness: a heeded signal ends the process |
| `node_lost_signal`, `node_reconnect` | 1 signal; an outage that ends | findings |
| `website` | dashboard: 1 account, 2 rooms, 1 post, 1 call beside the chat's; 3 searches; 2 refreshes and 1 lookup; 2 tabs, 3 drafts; 2 pointers | what each page shows stays true; liveness: the chat's news is seen, the numbers come back, a search ends, the panel is free |
| `dashboard_leak` | 2 accounts, 2 calls | finding |

Why these are enough. Every hazard of the account server is between two handlers
and a kill; two requests are those two, and the bound of one slot is the one they can contend
for (`HashBound` proves it for every number of requests). A second
account tells rows from each other, a second password the new from the old,
and salts beyond those allow one registration and two changes. The chain runs
past its last subsidy with every remainder of an era. Two runs of
the tool and two blocks a run reach lock contention, a replay of the other's
records and a cut inside the second record. A handshake has four messages; three
foreign ones include every wrong order of two. Two signals are one in the
middle of `start` and one afterwards. On the pages, an answer is late by one
question: a second room, search, refresh or tab makes it so, a third search overtakes
an overtaken one, and a third draft makes room for an import that another tab takes away. Two
accounts, whose answers may cross, are in `dashboard_leak`. Symmetry is used in
runs without liveness only.

Bounds that are only the model's: `MaxSalt`, `MaxCount`, `MaxForeign`, `MaxSignals`,
`MaxOutages`, `MaxPosts`, `MaxTime`, `MaxCalls`, `MaxSearches`, `MaxRefreshes`,
`MaxLookups`. Each stands in a guard and none stops a handler half way. `CHECK_DEADLOCK
FALSE` stands in the website's runs: a script whose bounds are reached has nothing left to do.

## 4. Fairness

Safety runs have none. Liveness runs assume what schedules the code:
* `Accounts!FairSpec`: the event loop serves its queues in order and
  `requestTimeout` ends a body that does not come. Strong fairness, because another
  handler's synchronous run disables a step for its length. Nothing of clients,
  kills or time.
* `PeerHandshake!FairSpec`: both threads run, TCP delivers or reports an error.
* `NodeLifecycle!FairSpec`: the kernel runs every thread that can run; sleeps and
  `select` end. Clients are free, so `HeededSignalEnds` says in its premise that no
  client of the HTTP server stays silent for ever: without it the property is false.
* `Website!Spec`: timers of the script that moves fire and what has come is handled. Of others:
  for the chat, that its requests come back or break and are not all broken
  (`NewsIsSeen` promises nothing on a network that never works); for the numbers, that
  a request of mempool.space is answered or its connection fails, as the script sets no
  time-out of its own. Lookup and panel trust no provider: their own timers suffice.

That nobody waits for quotes longer than the time-out is stated over the model's clock
(`NobodyWaitsLonger`), as is the age of a price (`FreshOrOffline`), with no fairness.

## 5. Findings

* `accounts_stale_login`: a login in flight over a password change opens a session
  with the old password (`DASHBOARD-SETUP.md`, line 56, promises revocation).
* `accounts_lost_change`: two overlapping changes both prove the first password.
* `node_lost_signal`: a signal between the installation of the handlers and `start` is announced and lost.
* `node_reconnect`: the connection to Electrum is never made again.
* `dashboard_leak`: one account's records are on the page of another (`dashboard.html`, line
  50: "Your saved portfolio stays private."). Three lapses lead there: `loadData` renders its answer
  whoever is signed in by then; its request carries the cookie of the moment it is sent, which
  another tab may have changed; and `showAuth` hides the app without emptying it, so that
  `enter` shows the old records until the new ones have come.

Two more windows are in the model and listed as hazards, without a property: `FD_SET` with the
descriptor that `stop` has just reset (`Select`), and the main loop waking after
`join` has returned (`join` polls `running_`, which `stop` itself clears).

## 6. Proofs

Every invariant and action property of a passing run, and the refinement of
`ChainStore`, is proved for all values of the constants. All proofs are from the named
assumptions on the constants (finite request sets, positive bounds, `NoId` not an
id, `None` no account, pointer or request, and in `Subsidy` that twice an era's full
subsidy fits under the maximum, which the code's constants meet with equality). The
argument is the same everywhere: a strengthening of the property, `...IInv`, that holds
initially and is kept by each action, one lemma per action that disturbs it.

* **`AccountsProofs`** (`Typing`, `HashBound`, `UniqueEmail`, `ProvenSessions`,
  `ChangeEndsSessions`, `ProvenReplacement`). The properties are not inductive:
  a session inserted from a context is only as good as that context. `IInv` adds
  `ContextOK`, what is still true of what a request read before its await (its
  user exists, the row it read was stored once, a matched proof was stored), and
  `RowsStored`. `HashAccounting` needs the step of every action on the set
  `Hashing`, with a lemma on cardinalities for one in, one out and none.
* **`AccountServerProofs`**, part by part and then together:
  * items (`ItemsTyping`, `LimitHolds`, `PayloadsFit`, `NothingRevived`): the invariant says of
    a PUT's context that its id was drawn and that its row, if there, still has the type
    that was read;
  * chat (`SeenIsReported`, `SeenIsDeleted`): a number counts the posts, so what a page or a
    report remembers under a number is the message that has it, or one that is gone;
  * quotes (`YoungQuotes`, `ShortWait`, `Sparing`): it bounds the age of what a flight holds by
    the flight's, the flight's by the time-out (the clock does not pass a timer that is due), and
    the cache's by both; and ties `asked` to the flight or to the cache it left;
  * throttle (`BurstsBounded`, `RefusedAfterBurst`): a live bucket's count is the number of the
    last entries of `accepted` that lie within its interval, all of them after the bucket before it
    had expired. A span of fewer than two maxima touches at most two
    buckets, so any request and the one two maxima later lie an interval apart. The sweep drops
    expired buckets only, which changes nothing the invariant speaks of;
  * `ServerIsItsParts`: a step of the server is a step of the part that moves or, for the clock
    and the restart they share, of each part that has them, and a stutter of the rest. So
    `ServerKeepsItsPromises`: all ten properties of the run.
* **`RegtestChainProofs`** (`IssueUnderSchedule`, `SupplyCapped`,
  `HonestChainGoesOn`). A sum over heights cannot be proved by induction
  here; instead the closed form `ScheduleFits`, 2·H·(I − S) + r·S for era
  subsidy S and remainder r, is inductive, since halving with rounding at most
  halves, and it implies the cap and that the reward check never stops the honest
  chain, for every interval, subsidy and number of halvings.
* **`RegtestMinerProofs`** (`ChainFile`, `KeepsThePromise`, `AcknowledgedIsSafe`,
  `RegtestIsItsParts`, `RegtestKeepsItsPromises`). `FileIsOneChain` says nothing of
  what a run has yet to write. `MinerIInv` adds that only the holder of the lock is anywhere but
  idle, and that a mining run's buffer continues the file, piece by piece, up to its height
  (`RunOK`). `KeepsThePromise` is the refinement of `ChainStore`: growth of the file is `Store` or a
  stutter (half a line), `Sync` is `Acknowledge`, `Report` is `Show`, `PowerLoss` is `Lose`,
  because what a mining run printed lies within the synced prefix (`FileOK`), and `EntryLost` is `LoseFile`.
  Both that print show the stored height because a run that holds the lock knows it (`RunOK`).
  `AcknowledgedIsSafe` is the promise without `ChainStore`: `acked` stays within the stored height and
  goes down only with a whole file. The last two put the chain beside it.
* **`PeerHandshakeProofs`** (`Typing`, `NoRefusal`, `BothKnow`, `Greeted`, `NeverBothWait`). `IInv`
  ties each end's step to what it has sent (`SentBy`) and taken (`Position`), so
  that the next message taken is the one expected. `NeverBothWait` is what is left of
  `HandshakeEnds` without time: an end that blocks waits for one that is in its handshake and
  has something to do.
* **`NodeLifecycleProofs`** (`Typing`, `ApiOutlived`, `AllClosed`, `LoopsEndOnStop`,
  `HeededIsFinal`), for any number of clients, remotes, attempts and signals. The HTTP thread is
  over before `~Node` begins, as `main` joins it first (`HttpOver`); what `~Node`'s
  `stop` has come past is closed and nobody is left to open it again (`StopCloses`); and while
  `running_` is set the loops have what they look at, and once a stop has found it set nothing sets
  it again (`LoopsServe`).
* **`HomePageProofs`** (`ToTheQuestion`, `BusyIsWaiting`, `OnlyTheLast`, `PairsStayTogether`,
  `NoStalePrice`). For the panel, `PanelIInv` says that an id
  names one request for good, that each method is asked by one flow, that
  `Promise.all` holds answers to the refresh under way, and that no field shows a later one; `FlowWaits`, that a flow which is not
  idle has a request of its own open for each answer it lacks, and so a timer that ends it. The lookup's property is inductive
  with its types. The live numbers' and the price card's are with the types and, for the
  price, the bound of the time since the last check by the timers that are due.
* **`WebsiteProofs`** (`HeldOrTravelling`, `AlwaysOpens`, `ChatShowsItsRoom`, `OneLoadAtATime`,
  `WebsiteIsItsScripts`, `WebsiteKeepsItsPromises`). For the studio, that what any tab holds in memory
  would open as well, with lemmas on what feature, removal and import make of a gallery. For the
  dashboard, `PageIInv` ties the view to the user and the timer, and `chatBusy` to the one
  request of the chat: `ChatOfRoom` needs the first, as an answer that signs in changes whom the
  chat is for, and the second is the safety half of `NewsIsSeen`. The website is each of its
  scripts, and keeps what each promises.

Model-checked only: the liveness properties (`RequestsAnswered`, `NeverBusyForGood`, `HandshakeEnds`,
`HeededSignalEnds`, `NewsIsSeen`, `FeedComesBack`, `SearchEnds`, `PanelIsFree`), as fairness and ENABLED
are out of the prover's reach. Theorems give their safety halves where there is one to give:
`HashBound`, `NeverBothWait`, `HeededIsFinal`, `OneLoadAtATime`, `OnlyTheLast` (the button is busy
while the last search is under way, and no longer) and `BusyIsWaiting`.

## 7. Not modelled

* Static files, routing and headers, configuration, formatting and parsing of JSON, logging;
  wallet and transactions: sequential and without lasting state.
* OpenSSL: hashes and signatures are injective where used. The compact target:
  arithmetic on 256-bit words.
* Windows variants of locks and sockets; `setBestHeight`, `setBestBlockHash` and
  `setMempoolSize`, which only tests call, and so the contents of the status and blocks API;
  `matureRewards`, which only reads.
* The Electrum client's requests: the daemon makes one, and `updateChainState` refuses its
  answer for its length whatever it is, so the order of answers has no effect to speak of.
* Of the website: the network search, the theme, the navigation, the charts and the game, whose handlers are
  synchronous; `renderTransaction` and `showTransactionMessage` of `script.js` (708 to 840), which
  nothing calls; the dashboard's search field, reports, export and password form; the second
  price card, which is the same code.
* Build, containers, CI, and the copy of the dashboard sources.

## 8. What remains

No safety property of a run is without a theorem. Open to proof: what the recursive
sums of the code compute for every input, which needs induction over data (the library's
well-founded minimum of a set may stand in for it), and abstract specifications of
the chat and the items, in the manner of `ChainStore`. If the daemon comes to
learn its chain, the Electrum client's requests and the blocks API will need models of their own,
composed with `NodeLifecycle`'s main loop.
