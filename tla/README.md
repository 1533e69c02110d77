# A verification of go-iroh-experiments

TLA+ models of the protocols in this repository, model-checked with TLC, and
proofs about them checked with TLAPS. The repository holds thirteen independent
Go modules; the models cover the six that keep state between several processes:
`tlogiroh`, `dtrain`, `dagsync`, `x402iroh`, `enclaveiroh` and
`contentdiscovery`.

## The system

| Part | State | Operations | Interacts through | What is hard | What makes it correct |
|---|---|---|---|---|---|
| `tlogiroh` operator | entries, stored hashes, document timeline, latest checkpoint | Append, Publish, Announce | document replication, gossip topic | a twin with the same key; a Publish that fails half way | one history per operator; a checkpoint is announced only when its tiles are in the document |
| `tlogiroh` witness | head (in memory), parked notes, flooded proofs | Cosign, Run | topic, replica | notes in any order, again, before their tiles; restarts | never signs two histories; files only genuine proofs |
| `tlogiroh` client | head, parked notes, flooded proofs, head file | Update, Sync, Watch, SetHead, Entry | topic, replica, file | pooling countersignatures, retries, restarts between accept and save | walks one certified history forwards; what is announced is accepted in the end |
| `dtrain` membership | view, topic, events, the handler's table of groups | join, announce, neighbours, Close | gossip | lost, late and reordered announcements; two groups of one name; a full channel of events | those that stay find each other; Close returns |
| `dtrain` collectives | collective and broadcast counters, channels by number, server goroutines | AllReduce, AllGather, ReduceScatter, Barrier, Broadcast | streams between each two members, gossip | server goroutines racing the call, churn between two reads, failures at some members only, restarts | a result has each member's vector once; nobody passes a call somebody has not reached |
| `dagsync` | tables of links and hashes, blobs | serve, Sync, ImportBytes | one stream per call | both ends walk their own tables in step, and no item names its CID | what is recorded and stored is what was asked for |
| `x402iroh` | balances, spent nonces, wallets' clocks | Pay, Verify, Settle, Credit, Balance | HTTP over iroh | the gap between Verify and Settle, lost answers, restarts, 64-bit arithmetic | credit is kept; a nonce is settled once; a repeated request is answered once |
| `enclaveiroh` | sealed seed, wrapping and attestation keys, pins | SecretKey, NewSigner, handshake, KnownPeers.Policy | the Keychain, a stream, a file | message order by mode, crashes between two Keychain calls, failed saves, restarts | an endpoint keeps one identity; both sides end; a saved pin never changes |
| `contentdiscovery` | announcements by host, content and kind | announce, query, GC, AnnounceAll, QueryAll | streams to several trackers | one failing tracker, late goroutines, restarts, unsigned time | success means every tracker; what is fresh is kept |
| `xetstore`, `s3baostore` | outlines of remote files | import, read | HTTP | the remote file changes | what is served hashes to what was imported |
| `pkarrnaming` | published records | publish, resolve | relay | stale records | the latest record is resolved |
| `h3iroh`, `grpciroh`, `directpath`, `wasmrelay` | none of their own | adapters, probes, demonstrations | | | |

`PROJECT.json` lists every component with what is modelled of it and why the
rest is not, every hazard with its line, and for each definition the source
lines it stands for.

## Modules

| Module | Models |
|---|---|
| `Tlog` | operators, the topic, document replicas, witnesses and clients of `tlogiroh` |
| `OneLog` | what `tlogiroh` promises its clients: one certified history, walked forwards |
| `TlogProofs` | theorems about `Tlog` |
| `Dtrain` | AllReduce, AllGather and Barrier of `dtrain`, and their server goroutines |
| `Rendezvous` | what a collective promises: nobody is past a call that somebody has not reached |
| `DtrainBroadcast`, `BroadcastProofs` | `Group.Broadcast`, and theorems about it |
| `DtrainProofs` | theorems about `Dtrain` |
| `Membership`, `MembershipProofs` | joining, announcing and leaving a `dtrain` group, its events and its handler; and theorems about it |
| `Dagsync`, `DagsyncProofs` | `dagsync`: the request, both walks, the tables, the handler and the call; and theorems about it |
| `Ledger`, `LedgerProofs` | `x402iroh`: wallet, paywall steps, ledger; and theorems about it |
| `Custody` | `enclaveiroh` keys: what a process does with the Keychain before it is up |
| `Handshake` | `enclaveiroh` attestation: hellos, claims, results, and the store of known peers |
| `Enclave`, `EnclaveProofs` | `enclave-iroh`: `Custody` and `Handshake` composed; and theorems about the composition |
| `Discovery`, `DiscoveryProofs` | `contentdiscovery`: trackers, and clients with a goroutine per tracker; and theorems about it |
| `MCTlog`, `MCDtrain`, `MCBroadcast`, `MCMembership`, `MCDagsync`, `MCLedger`, `MCEnclave`, `MCDiscovery` | small instances for TLC |

In each module some definitions come with *variations* placed just before them.
They belong to no specification: each is the definition with a plausible bug,
and replacing the definition by it makes TLC report the property that
`PROJECT.json` names under `mutants`.

### Tlog

A tree head (size and root hash) is the sequence of the entries it commits to:
the hash is injective, and `Extends` is what a consistency proof shows. A note
is its checkpoint and the witnesses whose signature lines it carries. Nobody but
holders of the key signs as the operator. A message without the operator's
signature does not open, and changes nothing but this: it is processed under its text, and
the default branch of `process` deletes what is parked under that text
(witness.go:141, client.go:228; the client merges the two first, and the whole does
not open). `WitnessReceiveUnopened` and `ClientReceiveUnopened` are that step, and
`evicted` remembers which texts went. The doc comments of `Run` and `Watch` say that a parked
note "is retried periodically until it is cosigned [accepted] or superseded";
such a message ends it earlier, and gossip delivers the note once.

| Variable | Code |
|---|---|
| `log`, `timeline` | `Operator`: appended entries; trees whose tiles and checkpoint are in its document |
| `notes`, `proofs`, `got` | what was broadcast on the topic; what gossip will not deliver (again) to a reader |
| `replica` | `Source.Doc`: the trees whose tiles a reader can read |
| `whead`, `wpending`, `flooded` | `Witness.head`; `pending` and `flooded` of `Witness.run` |
| `chead`, `cpending`, `yielded` | `Client.headMsg`; `pending` and `lastYielded` of `Client.watch` |
| `saving`, `saved` | `runWatch`: the body of its loop over `Watch`, and the head file |
| `evicted` | history: texts that were deleted from `pending` for a message that did not open |

`Witness.Cosign` and the `switch` of `process` make one action with four
outcomes: `Cosign`, `WitnessPark` (`errSourceStale`), `WitnessAccuse`
(`EquivocationError`), `WitnessDrop` (any other error). They are taken on a
delivered note (`WitnessReceive`) or on a parked one when the ticker fires
(`WitnessRetry`). The client's are the same with the policy's threshold before
them and pooling (`WithParked`, `NewHead`). `ClientProcess` is disabled while
`saving`, as `Watch` is an iterator and waits for the loop's body.
`IsStale` holds whenever the replica does not have exactly this tree: tiles are
missing, or they are those of another tree and do not authenticate.

Several operators may hold the key (the repository's tests and its `demo`
command call the second one the twin). The operators' entries come from `Feed`.

### Dtrain

An endpoint ID is a natural number, so that ranks are positions in the order of
IDs as in `refreshLocked`. A vector is the member that contributed it;
`reduced` counts how often each went into the result. `setting`, chosen once,
says which collectives every member issues and what may befall the group.

A call takes the steps in which the code holds or releases a lock or waits:
`Call` (reads `Members`), `ReadRank` (reads `Rank`), `PublishLocal` (takes a
number, opens the channels), then for each member of the snapshot, in rank
order, `Dial` and `ReadReply` or `TakeInbound`, and `Return`,
`ReturnIncomplete`, `Refused` or `Fail`. `Barrier` has cleared its channels
(`LeaveReduce`) when it counts the members. `Handler.serve` is a goroutine per
stream: `Admit` reads the frame and looks its sender up, `Deliver` puts it in the
open channel, or drops it, `Reply` answers once `waitLocal` finds the local
vector; `Refuse` closes a stranger's stream. A failed call hangs up; a frame
already written may still be served, late. `Restart` is a new process that joins
under the same endpoint ID, with all counters at zero.
`AllGather` reads the membership and its rank under separate locks: if a lower ID
joins in between, `PublishLocal` ends in `panicked`, as the code indexes its
result out of range.

Every member issues the calls of `Program`, as the doc comment of `AllReduce`
asks ("every member must issue the same sequence of collectives in the same
order").

### DtrainBroadcast

`SendData` and `AwaitData` are the two branches of `Broadcast`; `Deliver` is
`deliverBroadcast`, `Take` and `GiveUp` the two ends of `waitBroadcast`. `Met` is
the membership before the first call. Two members that have not met may both
take themselves for rank 0, so the run has every member know rank 0 at first. `Learn`
is `setMember`, and `Lose` the `removeMember` of a `NeighborDown` for a member that is
still there; `parted` remembers who lost sight of a member before it.

### Membership

A handle `<<p, n>>` is the n-th `Group` that endpoint p joins under one name.
`Join` is `JoinGroupWithHandler` up to its first announcement (or its failure),
`Register` the rest of it. `Announce` and `LoopEnds` are `announceLoop`,
`NeighborUp`, `NeighborDown` and `Receive` are `handle` with `setMember` and
`removeMember`, `RunEnds` and `Lagged` the two ways `run` ends, `Close` its
call. `members` is the view with its addresses, `registered` the `Handler`'s map,
`unread` the buffered channel of events: `Emits` drops what does not fit.
`wire[p][g]` holds the addresses in p's announcements that gossip has yet to
deliver to g; a lost announcement is one that never enters it (`reach`).

### Dagsync

A CID is a codec and a block; a block's data stands for its BLAKE3 hash.
`hashes`, `links`, `revLinks` and `store` are the three maps of `Tables` and the
blob store. `HandleStream`, `Traverse`, `WriteItem`, `Close` and `Stop` are the
handler: it decodes the request, walks its own tables to the end, and only then
writes one item per CID. `Sync` sends the request; `Skip`, `Pass`,
`ReadOneResponse`, `ReadEnd`, `Expand` and `Return` are the client's
`FullTraversal` with the reading in between, `Cut` is a lost connection or an
ended context. Traversals, filters and inline options are records as in the code,
and go through `Encode...` and `Decode...`, which keep what the wire keeps. A
truncated response ends `ReadEnd` as a whole one does, as in the code.

### Ledger

A payment's nonce is its request. `Pay` is `Wallet.Pay` on the payer's
clock (`Selected`, `Authorization`), `Deliver` the arrival of the paid request,
perhaps again; `Verify`, `Settle` and `Answers` what the paywall and the ledger
do with it. `Problem` is `check` with its order of refusals; `Credit` and
`AskBalance` are the other entrances to `account`, the first sight of an account
(the faucet). `Restart` gives a ledger with neither balances nor nonces; `epoch`
counts them. `minted` and `settled` are history. `Modulus` stands for 2^64.

### Custody, Handshake, Enclave

`Custody` takes `SecretKey` and `NewSigner` apart into their Keychain calls
(find, generate, load, delete, add, sign), with `Stop` possible between any two.
`storeSecret` is `DeleteSeed` then `AddSeed`, as it deletes and adds. A process is
started beside another only once one has stored its keys (`MayStart`), which the
documentation of `KeyStore` asks ("provision it once before fanning out").

`Handshake` numbers the six frames of `runHandshake`; `Sends` says whose turn
a step is, `ExpectsClaim` and `Pass` who reads a claim and who skips it by both modes,
`Judge` is the verification with the server's policy, where `Pin` and `Refuse`
are `KnownPeers`: the pin goes to memory first, and the claim is refused if
saving it failed. A frame is read for what the phase expects.

`Enclave` is their conjunction: dialers whose keys come from `Custody`, one
server that pins and may restart, and a user who deletes an attestation key
(`Forget`).

### Discovery

`Announce` and `Query` of the client are a goroutine per tracker: `Ask`, then the
tracker's `HandleAnnounce` or `HandleQuery`, then `ReadResponse`, or `Fails`.
`Start` and `ReadResult` are `eachTracker`: the first error returns, cancels the
others, and leaves them running. `PutAnnounce` and `GC` are the `Store`'s.
`plan` is what the calls do, chosen once. `put`, `steady` and `seen` are history:
what trackers put, and what they held throughout a query, or at some time.

## Properties and runs

Each module has one type invariant. Related statements are gathered under one
name, a conjunction of named parts with a comment each: `KeysAreKept` is
`OneIdentity`, `NotLockedOut` and `OneAttestationKey`; `CreditIsKept` is
`Conserved` and `NoOverdraft`; `ModesFit` is `OnlyLossFails` and `VerdictsFit`;
`TablesFit` is `RecordsMatch` and `StoresWhatItAskedFor`; `ResultsAreExact` is
`ExactReduction` and `GatherIsExact`; `SuccessIsOfAll` speaks of announcements
(`AnnouncedToAll`) and of queries (`AnswersAreWhole`); `ViewsSettle` is
`StayingFindEachOther` and `DepartedAreDropped`.

Runs that pass:

| Run | Instance | Shows |
|---|---|---|
| `pooling` | 2 witnesses, one restarting, K = 2, the twin forks at entry 1, gossip redelivers, one client that restarts and pools their notes | `NoSplitView`, and that `Tlog` implements `OneLog` (`ReadsOneLog`) |
| `forks` | a growing log and a twin that parts at its second entry, 1 witness, lagging replicas, no redelivery, messages with the text of the longest honest tree that do not open | `SignaturesAreBehindHead`, and in the end `AnnouncedIsSaved` and `ForksAreProved` |
| `direct` | an honest log of two entries, a twin's of one, and a third operator that signs another log with the key; a witness, and a client with K = 0 that replicates the honest document and restarts at any time | `SavedIsBehindHead`, `ProofsAreGenuine`, `HeadsOnlyExtend` with `Sync` |
| `collectives` | 3 settled members, AllReduce then Barrier, every exchange may fail; or AllGather while members lose one another and one restarts | `ResultsAreExact`, and that `Dtrain` implements `Rendezvous` (`IsRendezvous`) |
| `broadcast` | 3 members that know rank 0 and learn of one another, one of which may lose sight of the others; 2 broadcasts, failures and redelivery | `SameData`, `DataIsTaken` |
| `membership` | 2 endpoints: one joins again; or gossip drops a subscriber; or an address changes and a neighbour that is there is lost | `EventsShowTheView`, `LatestIsServed`, `ViewsSettle`, `CloseReturns` |
| `dagsync` | one client that asks two servers at once, with every filter, a visited set, a sequence and a request that does not encode; late imports, a stopped handler, a lost connection | `TablesFit`, `InStep`, `CallsReturn` |
| `ledger` | 2 requests of one payer, each sent twice; a clock ahead, a credit that fills the width of a balance, lost answers, a restarted ledger | `CreditIsKept`, `SettledOnce`, `ExposureIsBounded`, `AnsweredOnce` |
| `enclave` | 2 processes of one tag, one ephemeral of an older build, all pairs of modes, crashes anywhere, a restarted server, failed saves, a deleted key | `ModesFit`, `HonestPeersAreKnown`, `KeysAreKept`, `HandshakesEnd`, `SavedKeyIsKept` |
| `discovery` | 2 trackers, one restarts and may collect, the other loses connections; announcements of wholes and parts, repeated, and queries | `SuccessIsOfAll`, `NewerStays`, `NoneStaysBehind`, `FreshIsKept` |

Runs that end in a violation, each a disagreement between the code and what the
repository says of it (`findings` in `PROJECT.json`):

* `forks_unproved`: a client that trusted the twin's first tree finds the honest
  tree of size 2 inconsistent and drops it, and parks the twin's tree of size 2
  for want of tiles: two announced trees of one size and no proof, where the
  README of `tlogiroh` says that clients turn split views into proofs.
* `early`: two members that both call `Barrier`, once, do not both return. Either
  the frame comes before the lower rank has opened its channels and is dropped
  (`deliverInbound`), or the lower rank is done and clears its vector before the
  server goroutine looks for it (`waitLocal`). Only the caller's deadline ends
  the wait.

### What the properties had to leave out

Each of these is a behaviour of the code that the models have and a property
excepts, or that a run's instance avoids, so that the rest can be checked:

* `dtrain`, group.go:406: `AllReduce` takes inbound vectors by number alone. A
  member that joined after the snapshot has its vector summed in place of one
  that is in it, and a member that restarts under its endpoint ID and calls
  again may be counted twice. `AllGather` looks at the sender and is not
  affected. `collectives` has AllReduce and Barrier in settled groups without
  restarts.
* `dtrain`, group.go:249: a member that gossip wrongly reports as gone is removed.
  One that lost sight of rank 0 in this way takes itself for rank 0: `Broadcast` gives its
  caller its own data, and sends that to the others under the same number, though
  "Broadcast sends rank 0 data to every group member" (group.go). `SameData` says
  that the data of nobody else is returned.
* `dtrain`, group.go:263: nothing expires. A late announcement of a member that
  left brings it back into the view for good; `seen` is written and never read.
  `DepartedAreDropped` speaks of members with no announcement on the way.
* `dtrain`, group.go:668: closing the later of two groups of one name leaves the
  earlier unserved; `LatestIsServed` speaks of the latest. A group that gossip
  dropped (Lagged) goes on announcing to a closed topic until `Close`. An
  endpoint's own entry keeps the address it had when it joined
  (`ViewsSettle` speaks of the others).
* `dagsync`, sync.go:196: an item that is a bare hash is recorded without links,
  so where DAG-CBOR items come without data the client's walk ends at once and
  the call returns as if complete. With the filter for raw blocks, over tables
  that know a part of the DAG, items may even be recorded for the wrong CID.
  In the run `dagsync` all DAG-CBOR items carry their data.
* `dagsync`, sync.go:189: a stream that ends between two items is a complete
  response. `InStep` asks for completeness where the handler wrote all.
* `contentdiscovery`, store.go:40: an older announcement that arrives late takes
  the place of a newer one. `NewerStays` shows that it takes a call that failed
  and left goroutines behind. A content with more announcements than fit into a
  response cannot be queried: the client's limit is an error.
* `contentdiscovery`, store.go:73: nothing but a test calls `GC` in this repository. So
  content-tracker's `-expiry` flag (main.go:27) has no effect, and of the README's
  "in-memory announcement store with expiry" only the store's side is there: in
  that program what has expired is served for ever. The model lets `Collecting`
  trackers call `GC` and obliges none, and no property says that what expired goes.
* `enclaveiroh`, knownpeers.go:73: a claim whose pin could not be saved is
  refused, but the pin stays in memory: the next claim with the same key passes
  though the file has nothing. `SavedKeyIsKept` speaks of what the file holds.
* `enclaveiroh`, custody_darwin.go:84 and 136: two processes at their first use
  each make a key. `KeyStore` documents it and the model obeys; `NewSigner` has
  the same window and does not say so.
* `enclaveiroh`: what the peer sends as its result is read and not looked at, so
  a dialer learns that it was rejected only from what the server does next; the
  attestation document says so, and the model discards it too.
* `tlogiroh`, witness.go:141 and client.go:228: a parked note is forgotten when a
  message with its text comes that does not open. `AnnouncedIsSaved` and
  `ForksAreProved` except the case that this happened to a tree as long, or a longer one
  (`Lost`), and `NoNoteIsLost` the text itself. What safety says of the log is not affected.
* `enclaveiroh`: the peers of the handshake are this code; nobody sends frames of
  another kind, so `VerdictsFit` says what honest sides make of one another, not
  what a claim of someone else would be taken for. That a process has an
  attestation key only if it signs takes nodes of mode `verify` to be run with
  `-attest=false`: otherwise `runSigner` (main.go:429) makes a key for the session record.
* `tlogiroh`: a witness keeps its head in memory. One that restarts may sign
  another history, and `NoSplitView` counts restarting witnesses twice
  (`QuorumsMeet`).

### Bounds, and why they are enough

`Tlog` distinguishes trees by their entries, and what readers do with two trees
depends on whether one is shorter, equal, forked at the same size, or forked at
different sizes. Logs of one and of two entries that part at the first or at
the second give every case; three entries repeat them. Two witnesses are the
fewest with which K = 2 pools signatures and a restart loses one. What `TlogProofs`
proves holds beyond these bounds. `PublishEmpty`, the operators that publish an
empty tree, is empty in the runs; the proofs have no such limit. `MCTlog` names
the feeds (`OneEach`, `TwoEach`, `TwinAhead`, `TwinParts`).
In `pooling` every tree has one entry and is accepted or refused without its
tiles, so that its replicas stay empty (`FollowIdle`), which keeps apart no states
that behave differently; replicas lag in `forks` and `direct`.

`Dtrain` with three members has a member that only dials, one that only waits,
and one that does both, and is the smallest group in which a vector counted
twice hides one that is missing. Two calls in a row let a late frame of the
first meet the second. While they gather, member 0 may lose the highest member and
member 1 the lowest, so that capacities, ranks and snapshots all go out of step,
and member 2 restarts knowing nobody. A member restarts once.

In `direct` the honest log grows by one entry after the other and the client
restarts whenever it likes, so that the head file is behind the head, and the document ahead
of both; the witness keeps its head, and its restarts are in `pooling`. Messages that
do not open have the text of the longest tree (`LongestUnopened`), so that shorter ones are
parked and tried beside them. `pooling` is without them, to keep it small: what it
checks is safety, and is proved with them.

In `broadcast` two rounds let a member fall behind and another's second message
meet its first call. Member 1 loses sight of rank 0 or of member 2 and learns of them
again: it is the only one with members on either side. Members 0 and 1 may fail.

`Membership`: two endpoints are enough for what one group knows of another, as
views are kept per member; two groups of one endpoint are the fewest for the
handler's map. `Capacity` is 1, so that the channel fills at once; addresses
change once or twice, so that one announcement overtakes another; gossip loses
a neighbour and drops a subscriber once. One endpoint's program reads its events, the other's
never does.

`Dagsync`: the DAG has a shared leaf, a CID reached at two depths and one that a
server lacks; `far` lies under `inner` so that an early end is seen. Two calls of
one client fill the same tables.

`Ledger`: balances have four bits (`Modulus` 16), a credit of 12 after a faucet of 4
wraps; `MaxTime` 3 covers a window of the longest validity and an instant after
it; each request is delivered twice and the ledger restarts once, the fewest
with which a nonce can be settled again.

`Enclave`: three starts would repeat two (`MaxStarts`): one that crashes and one
that finds what it left, or two side by side; the server restarts once.

`Discovery`: time goes to 2 with an expiry of 1, so that an announcement is new,
at the boundary and expired, and the clock is below the expiry; one answer fits
into a response (`Limit` 1), so that two are too many. All clocks show one time.

Calls, starts and time end, and programs may wait for ever, so only the runs of
`Tlog` check for deadlock.

### Fairness

`Tlog`: gossip delivers every note to every reader (`got` grows),
`resyncLoop` syncs the replica at every tick, the retry ticker fires, and the
loop over `Watch` goes on. No fairness is asked of the operators: what they
never announce is no obligation, nor of messages that do not open. In the runs with fairness readers do not
restart and gossip does not redeliver, as byte-identical notes are
deduplicated (README of `tlogiroh`).

`Dtrain` and `DtrainBroadcast`: goroutines run, streams deliver, and the topic
delivers each message once (what it delivers again is not promised).
No member is obliged to fail: the code waits as long as the caller's context
does.

`Membership`: goroutines run; some of the announcements that `announceLoop`
repeats at every tick reach all subscribers, and are delivered; gossip tells of
neighbours that left. It need not tell of neighbours that are there, nor deliver in
order, nor keep any one announcement. Programs need not close or read.

`Dagsync`: the handler and the call each take the step they can, until it
returns; imports, stops and lost connections are never obliged to happen.
`Enclave`: a side that can take a step does so before its deadline.
`Discovery`: goroutines of calls and handlers of trackers run; nothing calls `GC`.
`Ledger` has safety properties only.

## Proofs

Eight modules hold theorems: one for each component that has a run. A theorem is
about all values of the constants that satisfy the module's assumptions, whose
instances TLC evaluates in every run. The inductive invariants were checked
with TLC, on the instance of a run, before they were proved.

| Theorem | States | Inductive invariant |
|---|---|---|
| `TlogProofs!TypeCorrect` | `TypeOK` | itself |
| `TlogProofs!SignaturesKept` | `SignaturesAreBehindHead` | `SignatureInv` |
| `TlogProofs!SplitViewResistance` | `NoSplitView` | `SignatureInv` |
| `TlogProofs!SavedBehind`, `ForwardOnly` | `SavedIsBehindHead`, `HeadsOnlyExtend` | `HeadInv` |
| `TlogProofs!OnlyForksAreAccused` | `ProofsAreGenuine` | `OriginInv` |
| `TlogProofs!OneLogIsRead` | `ReadsOneLog`: `Tlog` implements `OneLog` | `LogInv` |
| `TlogProofs!NoNoteIsLost` | `NothingIsLost`: a safety core of `AnnouncedIsSaved` | `KeptInv` |
| `DtrainProofs!Types` | `TypeOK` | `TInv` |
| `DtrainProofs!ExactResults` | `ResultsAreExact`, under `Exacting` | `GInv`, `SInv` |
| `DtrainProofs!ExactWhereOwed` | each part of `ResultsAreExact` where the group owes it, whatever else is in `Settings` | `GInv`, `SInv` |
| `DtrainProofs!SmoothGroupsSucceed` | `NoneFails`: settled groups in which no exchange fails return no error | `FInv` |
| `DtrainProofs!RendezvousHolds` | `IsRendezvous`: `Dtrain` implements `Rendezvous` | `SInv` |
| `BroadcastProofs!TypeCorrect`, `Agreement` | `TypeOK`, `SameData` | `AgreementInv` |
| `BroadcastProofs!NoDataIsLost` | `DataIsThere`: the safety core of `DataIsTaken` | `KeptInv` |
| `MembershipProofs!Types`, `EventsFollowTheView`, `LatestServed` | `TypeOK`, `EventsShowTheView`, `LatestIsServed` | `MInv` |
| `MembershipProofs!CloseNeverWaitsInVain` | `EndIsDue`, `EndsOnly`: the safety core of `CloseReturns` | `Goroutines` |
| `DagsyncProofs!Types`, `StoresAskedFor` | `TypeOK`, `StoresWhatItAskedFor` | `TInv` |
| `DagsyncProofs!CheckedDataIsRight` | what a node records from items that carry data is right, whatever the server does | `DataInv` |
| `DagsyncProofs!TablesStayRight`, `WalksInStep` | `TablesFit`, `InStep`, under `Careful` | `WalksInv` |
| `DagsyncProofs!CallsKeepGoing` | `WorkIsLeft`, `Nears`: the safety core of `CallsReturn` | `Phases`, `Plain` |
| `LedgerProofs!Types`, `OneSettlement`, `BoundedExposure`, `OneAnswer` | `TypeOK`, `SettledOnce`, `ExposureIsBounded`, `AnsweredOnce` | `IInv` |
| `LedgerProofs!CreditKept` | `CreditIsKept` | `Balanced` |
| `EnclaveProofs!KeysKept` | `KeysAreKept` | `KInv` |
| `EnclaveProofs!Types`, `VerdictsAreRight` | `TypeOK`, `ModesFit` | `KInv`, `HInv` |
| `EnclaveProofs!SavedKeysStay`, `HonestKnown` | `SavedKeyIsKept`, `HonestPeersAreKnown` | `FileIsPinned`, `Honest` |
| `EnclaveProofs!NeverStalls` | `NoStall`, `GoesFurther`: the safety core of `HandshakesEnd` | `WInv` |
| `DiscoveryProofs!Types`, `FreshKept`, `SuccessOfAll` | `TypeOK`, `FreshIsKept`, `SuccessIsOfAll` | `CInv`, `Past`, `AInv` |
| `DiscoveryProofs!NewerStay` | `NewerStays`, under `OneByOne` | `NInv` |
| `DiscoveryProofs!CallsGoOn` | `SomethingComes`, `Approaches`: the safety core of `NoneStaysBehind` | `CInv` |

### Tlog

* A witness signs a tree just when its head becomes that tree, and a head only
  moves to a tree that contains it. This alone is not inductive: a countersigned
  note may come from a note a witness parked earlier, carrying other witnesses'
  signatures. `SignatureInv` adds that parked notes were broadcast
  (`ParkedWereBroadcast`) and that every signed note is of the readers' log
  (`SignedForLog`).
* `SplitViewResistance`: two sets of K witnesses meet in a witness that never
  forgot its head (`QuorumOverlap`, by cardinalities), and that head contains
  both trees, so they are comparable.
* What a reader accepts contains the head it had (`AcceptsExtends`); a restart
  restores the head file, which is behind the head, so that the file never moves
  back.
* `OriginInv` follows a checkpoint from the operator that published it through
  notes, parked notes, heads and replicas, so that both halves of a proof were
  published, whoever else signs with the key.
* `LogInv` adds to `SignatureInv` that the signatures a client pools were
  broadcast. The refinement is by steps: a client that accepts moves the one
  history forwards or stays behind it, all other steps stutter. It needs
  `QuorumsMeet` and K of at least 1.

* `NoNoteIsLost`: gossip delivers a note once, and what a reader cannot accept yet
  is parked, merged, retried and dropped in several places. Of each note that was
  delivered to a reader that does not restart, the text is parked, or it is the head, or
  the head has gone where this tree cannot follow; or the text was parked when a message
with that text came that did not open, the only way to lose a note. A client has the note's signatures
  in the first two cases, as `WithParked` and `Merge` gather them; it takes that a text
  is parked once (`ParkedOnce`), or a retry would drop what another parked note has. A
  witness has signed its head. Where gossip redelivers, `got` stays empty and the
  theorem says nothing: there a lost note could come again.

They rest on `ConstantsAssumption` of `Tlog` (finitely many witnesses, witnesses
are not clients, `None` is no tree and no note) and on the model's
abstraction of hashes and signatures.

### Dtrain

For any members, programs, failures and churn. `GInv` says of a gathering that a
place holds its own member's vector, or the caller's where its rank pointed. The
rank is read after the snapshot and may point to another's place, so that this is
exact only if the caller cannot receive its own vector by dialing itself
(`Selfless`): it then has either its own place or a place that stays empty, and
AllGather returns an error. That ranks in one snapshot differ is `RanksDiffer`,
by cardinalities.

Of settled membership, `SInv` says two things. `Travel`: of one call one stream
goes to each member (`Sole`); a frame that is not delivered is of a vector that its
receiver has not got; what a call has got is of higher members that have dialed
for that call (`Channel`), each once (`Once`). `Turns`: a call has the vectors of
just those lower members whose turns are over, and of as many of the higher ones
as turns of theirs are over, though not of the same ones. So when no turn is
left, it has them all (`AllTurnsTaken`), and each of them has reached the call. To
prove steps, the actions are first summed up by what they do with settled
membership (`SteadyMoves`).

`Exacting`, the hypothesis of `ExactResults`, names the groups that owe exact
results: settled ones, and those that only gather and do not dial themselves. The
behaviours outside it are listed above (group.go:406). `MCDtrain` assumes it, so
that TLC evaluates it on the settings of its runs. `ExactWhereOwed` needs no such
hypothesis, as it asks of the setting chosen what it needs. `RendezvousHolds` has none
either: of groups that are not settled the refinement says nothing.

`SmoothGroupsSucceed` is about settled groups in which nobody gives up an exchange:
every call gives its result or does not end. `FInv` has that no server turned an
exchange away (`Unclosed`), that no call has failed (`Unfailed`), and that what a call
counts as received is in its place (`Filled`). That a call may wait for ever is what the run
`early` shows, so more cannot be said.

### DtrainBroadcast

`Agreement` is for groups whose members know rank 0 at first (`AllKnowFirst`).
`AgreementInv` adds that a member which forgot none before it knows rank 0 still
(`EarlierStayKnown`), so that every message on the topic is rank 0's or of one that
did, and that the sender's own call returned the same. For that a call must not return twice
under one number: `KeptInv` and `Numbered`, below.

`NoDataIsLost` is for all groups. A message that gossip delivered stays with the member
until a call returned that number (`IsKept`), and no call with the number of a
waiting one returned before (`Numbered`): so a message of its number, if one was
sent, is still to come or is there to be taken. A sender gets none of its own.

### Membership

`MInv`: addresses in views and announcements are ones their members had
(`AddressesFit`); the last event shows the view unless one was missed (`Shown`); an
endpoint joins its groups one after the other (`InTurn`), without which a group
registered late would take the handler from a later one.

`Goroutines`, inductive beside it: a running group whose topic is open has its
`announceLoop`, which is what closes the topic on which `run` waits. So of a group
that `Close` was called on one goroutine can end as long as one is left, and no
step undoes that. What is left of `CloseReturns` is fairness.

### Dagsync

`TInv` has that the three maps of the tables are in step (`Linked`), and that what
is in a stream is the encoding of a request (`Requested`). `StoresAskedFor` needs no
hypothesis: whatever a server sends, a block is stored only under the CID whose data it is, which
is what "asked for" means there.
Nor does `CheckedDataIsRight`: an item with data is checked against the CID it is
recorded under, so a node whose items all carry data has no hash on record but a
CID's own or one that its own program imported. It is outside `Careful`, for servers that lack or import what they like.

That the two walks stay in step is about sequences of unknown length. A *run* is
the sequence of positions of a full traversal, a function of the request alone
(`IsRun`); the server is at one position of it and the client at another
(`Deep`), or both have what is left of a sequence of CIDs (`Flat`), or the server has
failed and the rest of the stream is empty (`Lost`). What has an item between the
two positions is what the stream carries (`Exchange`). The lemmas on encodings
say what a request keeps on the wire.

`Careful` is what programs must observe: a DAG-CBOR CID is imported with no other
block that decodes; a full traversal is of a root of which the server holds all
DAG-CBOR (raw blocks may be missing), and its filter leaves out none of it; DAG-CBOR
items carry their data; and bare hashes are taken only from servers whose program
imports every block under its own CID. Without it the statements are false of the code (sync.go:196, above): a bare
hash does not say whose it is. TLC evaluates `Careful` to true on the constants of
`dagsync.cfg`. It is no assumption of `MCDagsync` because it speaks of the
filter itself, and so would fail instead of `InStep` where the filter is varied.

`CallsKeepGoing` needs nothing of the servers either. `Phases` ties where the server is
in a call to where the client is, so that a client without an item to read has a
server with something to do; `Plain` has that a walk over a sequence has no filter. A
stack only grows by the links of a CID that was not seen before.

### Ledger

A balance stays within its width by the remainder that each addition takes.
`SettledOnce` alone is not inductive: that a nonce is not in `spent` must mean that
the ledger of now never settled it. `Remembered` says that the nonces this epoch
settled are exactly the spent ones. A settlement is made before its window ends,
and the window ended at most `MaxValidity` after any earlier one (`WithinWindow`);
as a payment does not change once it is sent (in `Typed`), both ledgers saw the
same window. `OneAnswer` needs besides that what was served was settled for that delivery
(`ServedIsPaid`, a lemma): two served deliveries of one request then have two settlements,
which `SettledOnce` and `ExposureIsBounded` tell apart and bring together.

The sum of all balances is defined as the number of units of credit (`Units`: a unit is an
account and a number up to its balance), so that what a credit or a settlement does to
it follows from cardinalities, without induction over the accounts. `Balanced` says
that what was minted is what the accounts hold and what was lost to wrapped
additions, in multiples of `Modulus`; `CreditIsKept` follows. The proofs rest on
`ConstantsAssumption`, `OffersAssumption` and `NoneAssumption` of `Ledger`.

### Enclave

`KInv` says what each process relies on between two Keychain calls (`Relies`): one
that is about to make a key has found none, and none appears meanwhile; the seed it
is about to store is in no item; and processes that keep their keys run
side by side only once all keys exist (`SideBySide`, the documented condition). So
there is one wrapping key and one attestation key under a tag, whatever crashes.
`HInv` says which frames are in a stream and in which order (`InOrder`), what each
side makes of them (`Judgment`), and that a served claim is the dialer's (`Told`).
`WInv` counts the frames in a stream: at least as many as the one side has sent and the
other has not read. So while a handshake is not over, one of its sides can go on without a
frame that is not there, whatever both modes are (`NeverStalls`), and each step
takes it further. What is left of `HandshakesEnd` is fairness.
The file is a part of the pins (`FileIsPinned`), which only grow. `Honest` ties
both halves together: whoever presents a key for an endpoint presents the one that
anybody pinned for it, unless the user deleted it. They rest on
`CustodyAssumption` and `NoneAssumption` of `Custody`, `NobodyAssumption` of
`Handshake` and `SessionAssumption` of `Enclave`.

### Discovery

`CInv` counts: the results that a running call has yet to read are those in its
channel and those of its goroutines (`Counted`). So a call that succeeds has no
goroutine left, each has answered, and `AInv` says what an answer means: the
announcement is in the tracker's store, or what the tracker held throughout was
gathered. `Past` says that no time is of the future. `NewerStay` needs that a
host's announcements are called one after another (`OneByOne`, which `MCDiscovery` assumes of
its plans): calls that overlap may overtake one another (store.go:40).
`CallsGoOn`: a running call has a result to read or a goroutine that can take its next
step, and each such step lowers the number of steps before the call's end. What is left of
`NoneStaysBehind` is fairness.
They rest on `DiscoveryAssumption`.

### What is only model-checked

* Liveness: `AnnouncedIsSaved`, `ForksAreProved`, `DataIsTaken`, `ViewsSettle`,
  `CloseReturns`, `CallsReturn`, `HandshakesEnd` and `NoneStaysBehind`. The prover handles neither fairness nor ENABLED. Of
  `CloseReturns`, `CallsReturn`, `HandshakesEnd` and `NoneStaysBehind` the part that is
  safety is proved: something can always go on, and each step brings the end
  nearer. Of `AnnouncedIsSaved` and `DataIsTaken` it is that nothing is lost on the
  way: `NoNoteIsLost` and `NoDataIsLost`.
* `InStep` and `TablesFit` outside `Careful`, but for what `StoresAskedFor` and
  `CheckedDataIsRight` say.

## Not modelled

* Encodings (but for `dagsync`'s, whose options change what is asked), logging,
  flags and user interfaces.
* Hash functions and signatures, taken to be injective and genuine.
* Gossip, document replication, the transport, the paywall and the Security
  framework: external code, modelled by what this repository's code sees of it
  (`got`, `Heard`, `SelfConnect`, `wire`, `Refusal`). Whether an endpoint can dial
  itself is not said in this repository; `collectives` assumes in its second
  setting that it cannot. If it could, a member whose rank grew between the two
  reads of `AllGather` would fill another's place.
* A connection is lost by one of its processes ending; a deadline that passes is
  the same to the side it fails.
* Tile keys and widths of the log, and a `Publish` that fails half way: `replica`
  is the set of trees that can be served. A head file that is truncated by a
  crash: the command reports it and does not start.
* `ReduceScatter`, a slice of `AllReduce`'s result, and vectors of different lengths.
* `xetstore` and `s3baostore`: read-only views of one remote object; what can go
  wrong is the remote service's. `pkarrnaming`: one request, no state between
  calls. `h3iroh`, `grpciroh`, `directpath`, `wasmrelay`: adapters, probes and
  demonstrations without state of their own.

## Plan

The models are complete as far as the components above go, and every safety
property that a run checks is proved. What is left is to prove `WalksInStep` and
`TablesStayRight` of more servers: those that never get some of the DAG-CBOR under a
requested root, with a run that ends at the first CID that is not held. A server that
imports it between walking and writing makes the walks part, so a weaker `Careful`
must still exclude that.
