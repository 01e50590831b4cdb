# Trackward in TLA+

Trackward is a recorder for AI agents: a *gateway* stands between an agent and its
tools, and a *ledger* keeps what the agent did as hash-chained rows in Postgres, anchors
those rows in a write-once bucket, and exports signed dossiers. This directory holds TLA+
models of the parts of it whose correctness depends on the order in which concurrent
things happen, TLC configurations that check them on small instances, and TLAPS proofs.
Line references are to the repository, with the prefixes of `services/ledger/src` and
`services/gateway/src` left out where the file is clear.

Contents: [parts of the system](#the-parts-of-the-system), [modules](#the-modules),
[runs](#the-runs), [fairness](#fairness), [proofs](#the-proofs),
[findings](#where-code-and-documents-disagree), [left out](#what-is-left-out),
[order](#order-of-the-work).

## The parts of the system

    agent -- POST /approval/request, /tool/{tool}, /retrieve --> gateway (2 replicas)
    decider -- POST /approval/{id}/decide -------------------->  gateway
    gateway -- forwards the call ------------------------------> tool backend
    gateway -- LedgerClient: POST /runs, /events, ... ---------> ledger (2 replicas)
    ledger  -- one transaction per create handler -------------> Postgres
    ledger  -- anchor loop: manifest --------------------------> WORM bucket
    auditor -- dossiers, export bundles, anchor documents -----> ledger, verifier (offline)
    agent -- model API request -> model proxy -----------------> model API, ledger

| Part | State | Operations | What is hard | What makes it correct |
|---|---|---|---|---|
| **Hash chains** (`chain.rs`, the create handlers in `routes/`) | rows of seven tables, each chained per run by `prev_hash`/`row_hash`; `events.seq`; advisory locks | create an event, tool invocation, side effect, guardrail, human approval, artifact, bias slice | transactions of several replicas interleave between statements; `created_at` is the time of BEGIN while rows appear at COMMIT; two lock namespaces share one 64-bit key space; rollbacks | a link is to the tail; numbers have no gaps; a chain is one tree, and a line unless rows commit out of order; every transaction ends |
| **Merkle anchoring** (`anchoring.rs`, `anchors/`, `routes/anchors.rs`) | `anchors` table, objects in the bucket | a tick of the loop, `POST /anchors` | a tick is four separate operations without a lock, beside open write transactions and ticks of other replicas; failure after the upload; a receipt that is inserted when its tick is long gone | an anchors row is the receipt of an uploaded manifest; windows abut, and rows are anchored once, while no window is begun before the end of another is settled; rows are anchored eventually |
| **Ledger client, provenance** (`ledger_client.rs`, `tool_proxy/provenance.rs`) | none of its own | record X, mint a run, stamp it with its binding | no timeout and no retry: a call that failed for the gateway may still be applied, and later | a caller's run is left alone; nothing counts as recorded that is not |
| **Approval gate** (`approval/mod.rs`) | per replica, a map from approval id to a oneshot sender | `request`, `decide` | decider races requester; requester hangs up; replica restarts; decider reaches another replica | first decide wins; a reply only for a recorded decision; nobody waits on a dropped sender |
| **Tool proxy** (`tool_proxy/`) | locals of the handler | `POST /tool/{tool}` | the backend runs although its answer is lost; the mirroring rows are best effort | no unannounced execution, no unrecorded reply, rows follow events |
| **Retrieval proxy** (`retrieval_proxy/`) | locals of the handler | `POST /retrieve` | one of several uploads fails | a result event names artifacts that exist |
| **Registry** (`registry.rs`, `routes/prompt_versions.rs`, `policy_versions.rs`, `run_bindings.rs`) | version tables; the binding resolved at startup; the bindings of runs | resolve or register a version, look up the latest eval, stamp a run | two gateways start at once: SELECT, then INSERT; a gateway restarts while its calls are still being served | a known content is never refused; a binding is whole or absent, and what the run's gateway was started with |
| **Artifact blobs** (`routes/artifacts.rs`, `s3.rs`) | objects and rows | upload, download | the object is put before its row | no row without its object |
| **Run dossier** (`routes/runs.rs`) | none | read all the ledger has of a run | nine reads beside the writers, not one snapshot | it shows all that is older than the question |
| **Cases and export** (`routes/cases.rs`, `case_evidence.rs`, `export_bundles.rs`) | cases, evidence links, bundles | open, link, export, read a dossier | several reads per request while evidence is linked; links made before their rows | a bundle lies between the links at its request and at its signing; equal inputs give equal bundles |
| **Signing** (`signing.rs`) | the process's key | load or generate, sign | every replica loads its own, at each restart, from a secret the operator rotates | in production only configured keys sign |
| **Verifier** (`tools/verifier`) | none | check a bundle, check an anchor | duplicated last leaf of an odd Merkle level | it accepts what the ledger made and nothing else |
| **Row encoding** (`chain-core/src/encode.rs`, `canonical_json.rs`) | none | the bytes a row is hashed over | nested values, escapes, absent and empty columns | different rows have different bytes |
| **Model API proxy** (`tools/trackward-model-proxy`) | the run id of the process | forward, mint, record request and response | threads share the id without a lock; posts time out and land late | one run, unless mints overlap; loud failures are hard stops, quiet ones never block |
| **Transport and set-up** (auth, TLS, telemetry, configuration) | none | filters, wiring | - | - |

## The modules

An indented module builds on the one above it.

    ChainOrder           rows of a chain, tail lookup, MAX(seq)
      ChainLog           abstract: a chain grows by atomic appends
      HashChain          the transactions that do it             HashChainProofs, MCHashChain
    RowEncoding          the bytes of a row                      ChainCoreProofs
      CanonicalEncoding  the text of its values                             MCHashChain
    MerkleTree           the tree of a manifest, and its verification    ChainCoreProofs
      Anchoring          anchor ticks against write transactions AnchoringProofs, MCAnchoring
    WitnessedOutcome     abstract: announced, happens once, recorded, reported
    LedgerClient         calls to the ledger, resolve_or_mint_run
      Approval           request and decide, implements WitnessedOutcome   ApprovalProofs, MCApproval
      ToolProxy          proxy, implements WitnessedOutcome
      Retrieval          retrieve and upload, implements WitnessedOutcome
      RunDossier         the dossier of a run beside its writers
        Gateway          all four over one ledger link       GatewayProofs, MCGateway
    Registry             startup, registration of versions, stamping of runs   RegistryProofs, MCRegistry
    CaseExport           evidence, bundles, dossiers, signing keys   CaseExportProofs, MCCaseExport
    ModelProxy           trackward-model-proxy                   ModelProxyProofs, MCModelProxy

**ChainOrder.** The pure part of `compute_chain` (chain.rs:109-165). A row keeps its id,
`created_at`, `seq` and link. SHA-256 over the canonical bytes is taken as injective and
those bytes contain the id, so the hash of a row is named by the row's id. `TailId` is the
`ORDER BY created_at DESC, id DESC LIMIT 1` query, `MaxSeq` the `COALESCE(MAX(seq), 0)` of
events.rs:42-49 over chained rows and over the rows that predate the migration to chains.

**HashChain.** A request is one call of one of the create handlers and one transaction at
READ COMMITTED. The actions are its statements in the order of the code: `Begin` (fixes
`now()` and with it `created_at`), for events `LockRun` and `AssignSeq` or `RunMissing`
(the 404), then `LockChain` and `ReadTail` (the two statements of `compute_chain`),
`Insert` or `InsertRejected` (foreign key, primary key, `UNIQUE (run_id, seq)`), `Commit`.
`Abort` is the handler that is dropped, the connection or the server that goes away; it may
happen in every state of an open transaction. Locks are sets of (key, request) pairs,
reentrant and released with the transaction. `RunKey` and `ChainKey` are the functions that
fold a UUID to a lock key; nothing is assumed of them, so keys of different runs may
collide, and `DeadlockVictim` is Postgres' deadlock detector. `Tick` moves the clock of the
database server.

**ChainLog.** What that write path promises: one atomic step adds a row, numbered after
all others and linked to the one that sorts last. `HashChain!AppendsAtomically` is the
refinement, under the identity on `log`.

**Anchoring.** Of a write transaction only BEGIN and COMMIT are kept. A tick is
`LoopTick` or `Trigger`, `ReadWindowStart` (or `WindowPassed`), `Collect` (or
`WindowEmpty`), `Ship`, `Record`, as in `anchor_tick` (anchoring.rs:201-289), and
`FailTick` between any two of them, after an upload whose answer is lost too. The INSERT of
the receipt is one statement on the pool: when its tick fails while it is sent (the
connection is lost, the process dies, the client of `POST /anchors` goes away) Postgres may
refuse it, have applied it, or apply it later; it is then in `inFlight` until `ReceiptLands`,
which may be after the next tick has read its window's start. `Skews` is
the difference between the clock of a ledger host (`Utc::now()`, the end of the window)
and that of the database (`created_at`). The leaves of a manifest are the set of its rows;
`LeafList` puts them in the order of the query, by `created_at` and id, and `SignedManifest`
is what a tick signs of that list. `late` is a history variable that
remembers which rows committed after a tick had looked for them, and `overlapped` the
scopes of which a window was begun before the end of another was settled: beside another
tick past its own start, or with a receipt in flight (`Rivals`).

**RowEncoding and CanonicalEncoding.** `RowBytes` is `canonical_row_bytes` with
`encode_field` (`EncodeField`), byte by byte, for values whose text is given: the length
prefixes, which are cut to their width as `as u16` cuts them, the tags, the fields sorted by
name. CanonicalEncoding gives the texts, canonical JSON and the microseconds of a timestamp.
Four named assumptions compare the number of inputs with the number of encodings over small
sets: strings with quotes, escapes and control bytes; JSON values nested three deep, with
objects and arrays whose strings contain separators; rows of two tables with up to two
columns of every type. TLC evaluates them in the chain runs. That rows of any size have
different bytes is proved of `RowBytes` (`RowBytesBindTheRow`). Together they are what lets
HashChain name the hash of a row by the row.

**MerkleTree.** `compute_root` round by round (`Parents` is the body of its loop, `Levels`
what the rounds leave) and `verify_anchor`. A hash is the term it is taken of, so that equal
hashes are of equal things and leaf and node hashes differ by their prefix. The root alone
binds no list, since an odd last node is combined with itself: `<<a, b, c>>` and
`<<a, b, c, c>>` have one root. `leaf_count` in the signed manifest is what tells them apart,
and `AnchorBindsItsLeaves` says that it is enough.

**LedgerClient.** A call to the ledger is sent (`Send`), and then applied
(`LedgerCommits`) or not (`LedgerRefuses`); the handler goes on with `Ok` only if its
entry is committed, and with `Err` at any time, whatever becomes of the call: the two are
independent, as they are across a network. `ResolveRun`, `RunMinted` and `StampingDone`
are `resolve_or_mint_run` (provenance.rs:20-57). `ledger[h]` lists what the ledger
committed for handler `h`; that each entry is committed in one step is what ChainLog says.

**Approval.** `request` is `Stash`, `RequestRecorded`, `Receive` or `SenderDropped`,
`DecisionRecorded`, `Reply`, with `RequestFails` for its `?` exits and
`RequesterHangsUp` for a client that disconnects: axum drops the future and no code removes the map entry. `decide`
holds the map's mutex over one synchronous section, hence one action per outcome: `Decide`,
`DecideMalformed` (the 400, by which time the sender is out of the map and dropped),
`DecideUnknown` (the 404). `Restart` empties the map of one replica and ends its handlers.

**ToolProxy.** `proxy` (tool_proxy/mod.rs:26-124): `UnknownTool` or `Accept`,
`RecordCall`, `Forward`, `RecordOutcome` or `BackendErr` (the `?` of send and bytes),
`RecordInvocation`, `InvocationDone`, `EffectDone`, `ProxyFails`,
`CallerHangsUp`. The backend
runs a forwarded request with either status (`BackendRuns`) or never sees it
(`RequestLost`). Side effects are recorded only for a 2xx response, one at a time, each
with the id of the `tool_invocation` row if there is one.

**Retrieval.** `retrieve` (retrieval_proxy/mod.rs:17-117): `NoBackend` or `AcceptQuery`,
`RecordQuery`, `Ask`, then `Fetched`, `FetchedError` or `FetchFails` (send, bytes, or a 2xx
body that is no JSON), `Uploaded` once per document in their order, `ReplyQuery`, with
`RetrievalFails` for the `?` exits. Behind an upload the ledger puts the bytes into the
bucket (`PutBlob`) before it opens the transaction of the row (`UploadReady`); a refusal in
between leaves the blob.

**WitnessedOutcome.** The promise the three make: an outcome is announced in the ledger
before it can happen, happens once, is recorded as it happened, and is reported only when
recorded. In Approval the outcome is what the oneshot channel holds, in ToolProxy and
Retrieval what the backend answered. The channel stands for the outcome even when the
sender is told ok and the requester's record then fails: such a decision is taken, never
reported.

**RunDossier.** `dossier` (runs.rs:85-163) of the run of one of the handlers: `AskDossier`
reads the run's row, or the run is not there yet, then `ReadSection` once per table in the
order of the code. `begun` remembers how much the ledger had committed at the question.

**Gateway.** Extends the four, over one `LedgerClient`. Its calls reach the ledger through
`RetrievalLedgerStep`, which for calls that are no uploads is `LedgerStep`.

**Registry.** `resolve` (registry.rs:77-132) at the startup of each replica: `Boot`, then
per kind `Register` or `SkipMissing`, then `LookUpEval`; `ResolveFails` is any `?` of it,
and `StartWithout` what build_router_with_registry makes of an Err: it drops all that was
resolved. `Crash` kills a gateway from outside (`"killed"`), so that one that ended by itself
would be seen. `early` remembers whether a startup registered a content that had no row yet. Behind `Register` the two statements of the create handlers: `SelectFinds`, or
`SelectFindsNothing` and then `Insert` or `InsertConflict` (the unique index). A gateway
that dies leaves its call behind, served for `Nobody`. `Mint` and `StampLands` or
`StampLost` are the stamping of a run, here with the versions it names; `minted` remembers
the files of the gateway that minted the run.

**CaseExport.** One case, since cases share nothing. `Link` is case_evidence.rs:10-46: the
(type, id) pair is free, so its row may be committed later (`CommitRow`) or never. An export
is `Receive`, `FindCase` or `CaseMissing`, `ReadLinks`, `SignAndInsert`, and `InsertLands`
or `InsertLost`, then `ReplyBundle`; a bundle's INSERT may land after the process that sent
it is gone. A dossier (cases.rs:57-81) is the same up to `ReadLinks`, then one `Resolve` per
link. `HandlerFails` is any `?`. `Start` loads the key (`Load` is signing.rs:37-59: a valid
secret, a refusal, or a fresh key), `Stop` ends a replica with its handlers, `Rotate` is the
operator changing, mistyping or losing the secret. `VerifyBundle` is the offline verifier's
`verify_bundle`: hash of the manifest, signature under the key inside the bundle.

**ModelProxy.** `_proxy` (trackward-model-proxy.py:110-188), a thread per exchange, with the
one shared variable `_run_id`: `Receive`, `UpstreamAnswers`, `StartMint`, `Minted` or
`MintFails`, `TakeRun` (the value `ensure_run` returns is read again after the mint),
`RequestPosted` or `RequestRaises`, `ResponsePosted` or `ResponseRaises`, `Reply`.
`ErrorBodyBreaksOff` is `e.read()` at line 134 raising inside the except clause of an HTTP
error: nothing catches it and the thread dies without an answer, loud or not. `Held` is a
thread whose peer trickles its answer, or does not take it, for ever: the timeouts of
`urlopen` (lines 72 and 129) bound each socket operation and not the wait. A body
that is JSON but no object raises between the posts, where the code calls `.get` on it
(`shape`). Posts are applied (`LedgerApplies`) or not, whatever the proxy made of them, also
after `Restart`. `failLoud` is TRACKWARD_FAIL_LOUD.

`PROJECT.json` maps every definition to the lines it models.

## The runs

| Run | Instance | What it shows |
|---|---|---|
| `chain_safety` | 3 requests, 2 tables (`ev` numbered, `ha` with ids from the caller), 2 runs, 3 ids, distinct keys, a clock of two values | `LinkNotStale`: the tail read under the lock is current until COMMIT. `SeqConsecutive`, `RootedTree`. `LinearUnlessOvertaken`: a fork arises exactly when a row is committed out of `created_at` order. `AppendsAtomically`: refinement of ChainLog. The injectivity of CanonicalEncoding. |
| `chain_live` | 3 requests, 1 table, 2 runs whose keys collide crosswise | `EveryRequestEnds`, through lock cycles |
| `chain_fork` | 1 run, three clock values | `NoSiblings` fails: see the findings |
| `anchor_single` | 3 rows, 1 loop on a host whose clock is right or one ahead, 1 run, 2 clock values (windows may end at 1, 2 or 3), at most 1 orphan | `WindowsAbut`, through failed ticks and receipts that land late; `RowsGetAnchored`; `AnchorBindsItsLeaves` against every list of up to 4 leaves |
| `anchor_concurrent` | 2 rows, 2 runs, a loop and a trigger on a host whose clock is one ahead, 2 clock values | `AnchorIsReceipt`, `MissedRowsAreLate` under interleaved ticks of all scopes; `AnchoredOnceUnlessOverlapped`: a row is anchored twice for a scope only if one of its windows was begun beside another tick of it or a receipt in flight |
| `anchor_missed` | 2 rows, a loop and a trigger with an `until` in the future | `NoRowMissed` fails |
| `approval_safety` | 2 requests (one minted, one identified run), 2 deciders, 2 replicas | `WaiterIsReachable`, `FirstDecideWins`, `CallerRunsAreLeftAlone`, `DecisionsAreWitnessed` (refinement of WitnessedOutcome), `ResolvedRequestsEnd` |
| `gateway_safety` | any 2 of: an approval; a tool call with up to 2 side effects and one without a route; a retrieval of up to 2 documents and one without a backend; the dossier of a run | `CallsAreWitnessed`, `RetrievalsAreWitnessed` (refinements of WitnessedOutcome); `RowsFollowEvents`: decision before `human_approval`, outcome before invocation before effects; `ResultsAreFetchable`: bytes before artifact row before `retrieval_result`; `DossierMissesOnlyNewer`: a dossier holds all that is older than it, and a row without the row it names only if that one is newer; `ProxiedCallsEnd`, `RetrievalsEnd` |
| `registry_safety` | a rolling upgrade: 2 replicas, one of the old deployment and one that starts with either of two new ones, all sharing a prompt, with another policy or none; 1 eval, 1 run | `KnownContentsAreBound`: a gateway whose contents had rows when it registered them comes up bound, whatever the other replica, killed startups and late calls do. `RunsCarryTheirVersions`. `StartupsEnd`: no startup hangs or ends by itself |
| `registry_race` | 2 replicas of one deployment | `StartupIsIdempotent` fails |
| `model_proxy` | 2 exchanges, 1 restart, quiet and loud | `HardStop`: a loud proxy answers only what is on record. `OneRunUnlessRaced`: exchanges of one life are in two runs only if their mints overlapped. `AnswerFollowsRequest`: what the ledger has of an exchange is in one run it knows, nothing twice, answer after request unless the proxy gave the request up. `EveryExchangeIsAnswered` |
| `case_export` | 2 replicas, 2 exports and 1 dossier of which any 2 are requested, 2 pieces of evidence, 2 keys, 1 stop | `ExportIsBracketed`: a bundle has every link that was there at its request and none that is not there now. `BundlesAreReproducible`: equal time, evidence and key give equal manifests and signatures, every bundle verifies, in production under a configured key. `DossierResolvesOlder`: evidence linked and committed before the question is resolved |

**Why these bounds are enough to be interesting.** Three requests are the fewest with
which a chain forks, since a fork is two rows with one parent; two are enough for a stale
tail, a deadlock and a duplicate number. Two tables and two runs separate chains that
differ in either coordinate. Two values of the clock give ties and proper orders; the fork
needs three, because `NoSiblings` asks for distinct times. `LegacyRows` gives each
events chain one row that predates the chains. Two rows suffice for a row on a window's boundary and
one behind it; the third makes a middle window, which two clock values give because a host
that is one ahead ends a window at 3. `MaxOrphans` bounds how many uploads may
lack a receipt for good or for the time being; before that many have gone astray ticks fail
freely, at any step. One is enough for a receipt in flight: without the clause of `Rivals`
about those, both anchoring runs fail. Two
deciders and two replicas are the fewest that can race or miss each other; requests do not
interact, and the second only differs in whether its run is minted. `MaxRequests` lets any
two of the gateway's requests meet, the dossier counted as one; they share nothing but the ledger link and the bucket.
Two side effects, and two documents, stand for "the first" and "a later one", and two
contents make documents equal or different. Minting is left to the approval run, whose
`resolve_or_mint_run` is the same. Three rows give the
smallest tree with a duplicated sibling, and lists of four leaves the smallest that share its
root. `MaxAbandoned` is how many registrations
may be under way for gateways that are gone; one is enough to insert between the SELECT and
the INSERT of a successor. Two exchanges race to mint, or one overwrites the run of the other, and one
restart (`MaxRestarts`) lets posts of an earlier life land in a later one. Two pieces of
evidence have two orders, two keys make one rotation, and one stop (`MaxStops`) with two
replicas gives a restart beside a running process; of the three requests about a case any
two meet (`MaxRequests`).

**Symmetry.** Requests in the chain runs (`MCSymmetry`), rows and runs in
`anchor_concurrent`, and replicas, exports and keys in `case_export`, are interchangeable: no
operator orders them or names one. Runs that check a liveness property use no symmetry;
`AppendsAtomically`, which `chain_safety` checks with it, is a safety formula of the form
`Init /\ [][A]_v`, for which it is sound.

**Deadlock** is not checked in the runs that pass: requests, calls and rows are finite sets
and the clock is bounded, so each system comes to rest. That nothing rests too early is what
`EveryRequestEnds`, `RowsGetAnchored`, `ResolvedRequestsEnd`, `ProxiedCallsEnd`,
`RetrievalsEnd`, `StartupsEnd` and `EveryExchangeIsAnswered` say.

## Fairness

- `HashChain`: weak fairness of `Step(r)` for each request. Tokio polls a ready handler and
  Postgres executes what it is sent and hands a freed lock to its waiter. Nothing is assumed
  of `Begin`, `Abort`, `Tick` or `CreateRun`: no request has to arrive, and no crash has to
  come to the rescue. Lock waits end because holders end or the deadlock detector acts;
  every waiter has one chance per run of the model, so strong fairness is not needed.
- `Anchoring`: weak fairness of the loop's timer and of the steps of a tick, and strong
  fairness of its four operations. The interval of `spawn_global_loop` fires again after a
  failed tick (anchoring.rs:307-314). Strong fairness says that database and bucket do
  not fail for ever, without which no retry helps. Nothing is assumed of `POST /anchors`,
  of writers or of the clock.
- `Approval`: the ledger deals with every call, by applying or by losing it, and a handler
  whose call was dealt with is polled. Nobody must decide, retry or reconnect; hence
  `ResolvedRequestsEnd` speaks of resolved requests and not of all.
- `Gateway`: the same, and the backends deal with what they are sent. The code has no
  timeout (tool_proxy/mod.rs:52, retrieval_proxy/mod.rs:43), so a backend that never answers
  would hold a call for ever; `ProxiedCallsEnd` and `RetrievalsEnd` rest on this assumption
  and say so.
- `Registry`: a gateway that starts is scheduled, and the ledger takes the next step of a
  call somebody waits for. No call has to fail and no gateway has to be killed.
- `ModelProxy`: the interpreter runs every thread, and every socket operation of a thread ends,
  with data, with an error, or by its timeout: 300 seconds towards the model API and 10
  towards the ledger. That bounds no wait as a whole: a peer that keeps trickling holds its
  thread for ever. Such threads are in the model (`Held`), nothing is assumed of them, and
  `EveryExchangeIsAnswered` leaves out the exchanges they hold, and no others. Nothing is
  assumed of the ledger.
- `RunDossier` and `CaseExport` state no liveness and need no fairness.

## The proofs

Eight modules hold the theorems, each beside the module it is about. None of them bounds the
number of actors or rows; what an instance of TLC fixes is a parameter here.

| Module | Theorem | Statement |
|---|---|---|
| `HashChainProofs` | `TypeCorrect` | `Spec => []TypeOK` |
| | `LinksAreCurrent` | `Spec => []LinkNotStale` |
| | `EventsAreNumbered` | `Spec => [](SeqNotStale /\ SeqConsecutive)` |
| | `ChainsAreTrees` | `Spec => []RootedTree` |
| | `ForksNeedOvertaking` | `Spec => []LinearUnlessOvertaken` |
| | `ImplementsChainLog` | `Spec => AppendsAtomically` |
| `AnchoringProofs` | `AnchoringTypeCorrect` | `Spec => []TypeOK` |
| | `AnchorsAreReceipts` | `Spec => []AnchorIsReceipt` |
| | `OnlyLateRowsAreMissed` | `Spec => []MissedRowsAreLate` |
| | `RowsAreAnchoredOnce` | `Spec => []AnchoredOnceUnlessOverlapped` |
| | `WindowsTileTime` | `Spec => []WindowsAbut` |
| | `AnchorsBindTheirLeaves` | `Spec => AnchorBindsItsLeaves` |
| `ChainCoreProofs` | `RootBindsLeaves` | lists of one length with one root are one list |
| | `ManifestBindsLeaves` | a signed manifest verifies for its leaf list and for no other |
| | `RowBytesBindTheRow` | rows of any size written as the same bytes are one row of one table |
| `ApprovalProofs` | `ApprovalTypeCorrect` | `ApprovalSpec => []ApprovalTypeOK` |
| | `WaitersAreReachable` | `ApprovalSpec => []WaiterIsReachable` |
| | `TheFirstDecisionStands` | `ApprovalSpec => []FirstDecideWins` |
| | `EvidenceStandsOnEvents` | `ApprovalSpec => []EvidenceFollowsEvent` |
| | `CallerRunsStayUntouched` | `ApprovalSpec => []CallerRunsAreLeftAlone` |
| | `ImplementsWitnessedOutcome` | `ApprovalSpec => DecisionsAreWitnessed` |
| `GatewayProofs` | `GatewayTypeCorrect` | `Spec => []TypeOK` |
| | `RowsStandOnEvents` | `Spec => []RowsFollowEvents` |
| | `NamedArtifactsAreThere` | `Spec => []ResultsAreFetchable` |
| | `DossiersMissOnlyNewer` | `Spec => []DossierMissesOnlyNewer` |
| | `ToolProxyImplementsWitnessedOutcome` | `Spec => CallsAreWitnessed` |
| | `RetrievalProxyImplementsWitnessedOutcome` | `Spec => RetrievalsAreWitnessed` |
| | `GatewayRunsItsGate` | `Spec => Gate!ApprovalSpec` |
| | `GatewayWaitersAreReachable` | `Spec => []WaiterIsReachable` |
| | `GatewayTheFirstDecisionStands` | `Spec => []FirstDecideWins` |
| | `GatewayImplementsWitnessedOutcome` | `Spec => DecisionsAreWitnessed` |
| | `GatewayCallerRunsStayUntouched` | `Spec => []CallerRunsAreLeftAlone` |
| `CaseExportProofs` | `CaseTypeCorrect` | `Spec => []TypeOK` |
| | `BundlesAreBracketed` | `Spec => []ExportIsBracketed` |
| | `EqualExportsAreEqual` | `Spec => []BundlesAreReproducible` |
| | `DossiersResolveWhatIsOlder` | `Spec => []DossierResolvesOlder` |
| `RegistryProofs` | `RegistryTypeCorrect` | `Spec => []TypeOK` |
| | `KnownContentsResolve` | `Spec => []KnownContentsAreBound` |
| | `BindingsAreTrue` | `Spec => []RunsCarryTheirVersions` |
| `ModelProxyProofs` | `ModelProxyTypeCorrect` | `Spec => []TypeOK` |
| | `LoudAnswersAreOnRecord` | `Spec => []HardStop` |
| | `RunsSplitOnlyInARace` | `Spec => []OneRunUnlessRaced` |
| | `AnswersFollowRequests` | `Spec => []AnswerFollowsRequest` |

**Assumptions.** Only those that the modules name, all of them about constants: identifiers
of different kinds differ (`None` is no run and no process, `Nobody` no gateway, `Global` no run), what is
ordered is ordered (ids, clocks, evals), sets that are parts of others are, and the rows of
an anchoring instance are finitely many, so that a leaf list is finite. None of them says
that lock keys differ, that clocks agree, or how many of anything there are. Fairness is
in the specifications and used by no proof.

**HashChain.** None of the properties is inductive: a link stays current because no
other commit reaches the chain meanwhile, and that follows from the locks. `IInv`
adds four facts. `OneHolder`: a lock has one holder. `HoldsLocks`: a handler past a
lock holds it until it ends, only events handlers take the run lock, and other rows have
`seq = 0`. `HasNewest`: a chain that is not empty has a row that sorts last, so the tail
lookup is defined (this takes the totality of the order on rows with different ids).
`UniqueIds`: ids do not repeat within a chain, nor does the id of the row about to be
committed, which is what `PRIMARY KEY` contributes. `Commit` is the step that matters:
`ChainExclusive` gives that at most one request is past a chain's lock, so the row
appended links to the tail and bears the next number, and every other request on that chain
is still before its reads. One lemma per action carries `IInv` over; `NextIInv` collects
them and `Invariant` is the induction. For the refinement, `Commit` is `AppendRow` by
`LinkNotStale` and `SeqNotStale`, and every other step leaves `log` alone.

**Anchoring.** No lock helps here; the order of the four operations of a tick does.
`TickIsReceiptable`: a tick that has collected holds a manifest of committed rows of its
window, and one that has shipped holds one that is in the bucket, so the receipt it may
record is true. `StartsAtAnEnd`: a window starts where a recorded one ended, which
`HasLast` (the last window of a scope exists) gives to the reader of the window start.
`CollectedOrLate`: what a tick has not collected of its window was committed later, and is
in `late`. `AloneAndAhead` is what overlap would destroy: the tick that is
under way for a scope is alone, with no receipt of the scope in flight, and starts behind
every recorded window, so the window it records is the new last one and shares no row with
another. `FlightsAreReceiptable` and `FlightsAreAlone` say the same of a receipt whose tick
has failed: it is as true as when it was sent, and the only thing unsettled in its scope, so
that it may land at any time. A tick that reads its window's start meanwhile puts the scope
into `overlapped`, and of such scopes nothing is claimed but that receipts are true and
rows missed are late. `NewReceipt` is what `Record` and `ReceiptLands` have in common. `CreatedAfterEpoch` makes the
first window, which starts at the epoch, miss nothing. The manifest shipped is of rows that
are ordered strictly by `created_at` and id, so it has one leaf list (`LeafList`), and
`ManifestBindsLeaves` is about that list.

**The Merkle tree.** What a recursion computes for lists of every length takes induction, and
the library's induction theorems cannot be used (they take an operator). `LeastNumber` and
`Induction` stand in for them: induction is over a *set* of numbers, which has 0 and with every
number the next. `LevelsAre` shows by hand that the recursion of `Levels` has a solution, from
its finite approximations. `RootIsReached`: as long as more than one node is left a round leaves
fewer, so the loop ends in a single one. `RootBindsLeaves` then goes from the root down: two
lists of one length have levels of the same lengths (`LevelsMatch`), so both loops end in the
same round, and a round loses nothing of a level whose length is known (`ParentsBind`), so
equal levels have equal levels below them down to the leaves.

**Approval.** In two halves. The first is about the map and the channel only (`GateInv`):
a sender in a map belongs to its requester's replica and is undecided (`SendersAreOpen`), and
what a channel carries is what exactly one decider was told ok for (`AnswersStand`), because
`decide` takes the sender out of the map in the step in which it sends.
`ChannelFollowsRequest` says how far a requester is from how its channel stands. The second
is about the ledger (`LinkInv`): a call in flight or committed was sent at a certain
place of the handler and not before, the evidence row behind a committed event
(`CallsInOrder`), and the run of a caller that named none first of all (`RunsInOrder`).
A call that was given up may still be applied; it stays in `calls`, and both say what holds
of it then. The refinement maps a request to an outcome that is announced when
`approval_requested` commits, happens with the `send` of the winning decide, is
recorded when the decision event commits, and reported by `Reply`. Sections per action show
that each step is one of those four or a stutter.

**Gateway.** `GatewayInv` is stated handler by handler, and for a handler every step of the
system is one of three: it is at rest (`AtRest`: at most a call of its own got lost), it moves
and sends at most one entry (`Moves`), or the ledger commits something it had sent (`Gains`).
Sections prove each kind of handler invariant under the three kinds of step, so that the steps
of the other components cost nothing: to them a handler is at rest. What makes this work is
`OwnEntries`, a handler sends only what its component records, and that in each component what
is still in flight counts as much as what is committed, since the ledger may apply a call whose
sender is gone. For a tool call (`ToolAt`) an outcome event is sent only with the status the
backend ran the call with, the invocation behind the committed outcome, effects one by one and
all with one link; `RowOf` says that for every position of the ledger, from which
`RowsFollowOutcome` is read off. For a retrieval (`RetrievalAt`) an upload is sent only when
those before it are committed, its blob is in the bucket before its row is, and blobs stay;
`InOrder` says it for every position. `DossierInv` has a reader hold, of the tables read so far,
everything up to `begun`; a row that names another is behind it (`NamedRowsAreBefore`), so what
a dossier misses is behind `begun`. The two refinements use that only one outcome can be
recorded (`OneOutcomeRecorded`, `OneAnswerRecorded`), and `OneComponentSteps`, which says
whose step a step of the gateway is.

What was proved of the approval gate alone holds inside the gateway because the gate cannot
tell the difference: `Gate` is an instance of `ApprovalProofs` over the approvals among the
handlers, their places, their calls and their part of the ledger, and `GateSimulates` that
every step of the gateway is a step of that instance or leaves all it sees alone. With
`GatewayRunsItsGate` each theorem about `ApprovalSpec` is one about the gateway
(`WaiterIsReachable`, `FirstDecideWins`, `DecisionsAreWitnessed`). `CallerRunsAreLeftAlone` is
about all handlers, tool calls and retrievals too, and has its own invariant: `RunsOK` says of
each that mint, stamp and every other record are in order in its calls and in the ledger,
`RunAdvances` that each of the three kinds of step keeps it so.

**RowEncoding.** Nothing is decoded in the code, so the proof reads the bytes the way a
decoder would: `At(w, p, s)` says that `s` stands in the bytes `w` behind position `p`, and
each part that can be written at one place is shown to be settled by it (`NamedBinds`,
`SizedBinds`, `PayloadBinds`, `FieldBinds`), a length before its text and a tag before its
value. The fields follow one by one: after as many equal fields the positions are equal
(`FieldListsBind`). The list of the fields is sorted by a `CHOOSE`; that it exists is
`FieldsAreListed`, by the order of byte strings, and as it lists the whole set, equal lists
are of equal sets. Assumed is what the encoder asserts: different column names, at most
2^16 - 1 columns, texts that fit their prefix. The length of a column name is the one the
encoder does not check; names are literals of the source, and the theorem is about those
that fit.

**CaseExport.** `ListedAt` says of a handler past its query that its list has each link once,
only links that are there, and all that were there at the question; links are never removed,
so it stays true while others are added. `BundleAt` says the same of a bundle, and that it is
sorted and verifies, from the moment its INSERT is sent: the INSERT may land when the handler
is long gone. `KeysAreKnown` is why a production replica can only sign with what was
configured. That two exports of the same evidence agree is then `SortedListsAgree`: a set has
one sorted list, by the least place where two could differ. A dossier goes through its list
by counting what it has resolved (`ResolvedAt`); at the end it has counted the whole list, and
a row that was there at the question was there at its lookup.

**Registry.** A call is for the file its gateway is at (`CallsAreCurrent`), so what comes back
is the version of that file; what a gateway has resolved by now is what it has on disk, and
nothing of another life (`ResolvedInOrder`); and a stamp on its way to a run is of the gateway
that minted the run (`StampsCarry`). Version rows are never removed (`RowsStay`), so a binding
that was true stays true. For the same reason a call for a content that had a row when it was
sent finds that row in its SELECT (`CallsFindTheirRow`) and never comes to the INSERT, so
only a startup with an `early` registration can be refused; one whose calls were all answered
otherwise has gone through its files and carries them (`CameUpBound`), which is a binding
because a row is not `None`.

**ModelProxy.** A thread runs in the life it arrived in (`LivesInOrder`), and runs belong to
lives (`OwnersInOrder`). `MintsRaced` is the strengthening of `OneRunUnlessRaced`: not only
the runs that threads have taken, also the run in `_run_id` and those that are being minted
rival each other pairwise, because a life that has a run mints no more.
`OwnersAreCommitted`, `PostsInOrder` and `LoudPostsAreDone` say what has been posted, and
committed, for a thread that has come so far.

**Only model-checked.** Liveness everywhere (`EveryRequestEnds`, `RowsGetAnchored`,
`ResolvedRequestsEnd`, `ProxiedCallsEnd`, `RetrievalsEnd`, `StartupsEnd`,
`EveryExchangeIsAnswered`): fairness and ENABLED are not within the provers' reach.
That JSON values and numbers are told apart by their text is evaluated on small inputs only:
`CanonicalText` and `Digits` are recursions over data.

## Where code and documents disagree

Each is a run that TLC refutes; the trace is the scenario.

- `chain_fork`. Rows join a chain in commit order, and the tail is looked up in order of
  BEGIN. A begins, B begins and commits, then A commits, linked to B. The next append finds
  B to be the tail, and A and C have the same `prev_hash`. chain.rs:6-8 says the lock keeps
  siblings out. `LinearUnlessOvertaken` is what does hold.
- `anchor_missed`. A transaction that began inside a window and commits after the tick
  has collected is under no anchor, and no later window goes back to it. Migration 0011
  promises every row since the previous anchor. `MissedRowsAreLate` is what does hold.
- `registry_race`. Two replicas that start together both SELECT nothing. The second INSERT
  violates the unique index, its startup drops the whole binding, and it stamps no run until
  it is restarted. prompt_versions.rs:23-25 calls gateway startup idempotent.
  `RunsCarryTheirVersions` and `KnownContentsAreBound` are what does hold: a run is stamped
  rightly or not at all, and only the first registration of a content can lose.

Others met on the way have no run of their own:

- Each replica runs an anchor loop, the chart starts two replicas, and nothing keeps two
  ticks from reading the same window start (anchoring.rs:208), so the same rows are anchored
  twice. phase9_anchor.rs:164-167 rules double covering out. `AnchoredOnceUnlessOverlapped`
  says how far that is right.
- docs/runbooks/incident-response.md:105-108 takes two anchors with overlapping ranges for the
  sign of "two ledger processes": "the anchoring loop is restart-safe". `POST /anchors` beside
  the loop of one process gives them too, and so does one loop alone, when the INSERT of a
  receipt outlives its process and lands after the next tick has read its window's start.
- `gates::is_gated` (gateway approval/gates.rs:2) has no caller: the tool proxy forwards every
  routed tool, and the gate is a service an agent may use before a call. README.md:40 has it
  enforced, and config.rs:14 speaks of tools "that require human approval before proxying".
- canonical_json.rs:3-8 holds that floats do not occur in what the ledger persists. Event
  bodies are what tools and models return. A float in one panics inside the transaction
  (canonical_json.rs:44), the row is rolled back, and the tool has already run. The model proxy
  coerces floats (trackward-model-proxy.py:52-63); the gateway does not.
- The README of the model proxy has "ledger errors abort the proxy" under TRACKWARD_FAIL_LOUD
  (README.md:53). They end one handler thread, whose agent gets no answer; the process and its
  other threads go on (trackward-model-proxy.py:92-93, 173-174).
- trackward-model-proxy.py:89 says "never block the proxy on a ledger failure". The 10 seconds
  of line 72 bound a socket operation each, so a ledger whose answer trickles holds an exchange
  for as long as it likes (`Held`).
- trackward-model-proxy.py:30 maps all traffic to a single run; `ensure_run` takes no lock, and
  two first requests mint two (`OneRunUnlessRaced`).
- runs.rs:83 returns everything "in one shot"; nine statements on a pool are not one snapshot
  (`DossierMissesOnlyNewer`).
- signing.rs:3-4 says that the verifier pins the public key; `verify_bundle` takes the key out
  of the bundle it checks, and pinning is left to whoever reads its output.
- Migration 0007:4-7 has unlinking evidence modelled as a custody event; neither exports nor
  dossiers of cases read custody events.
- A decision that reaches the other gateway replica gets a 404, since the map is in one
  replica's memory. approval/mod.rs:18 says as much and defers it to a later phase, but the
  chart starts two replicas (values.yaml:88) and approval/mod.rs:25 keeps the 404 for "any
  later decide on the same id".
- When the response of a tool backend cannot be read, the call has run and the ledger holds
  its `tool_call` only (tool_proxy/mod.rs:52-58); step 5 of the documented flow promises
  either `tool_result` or `tool_error`. The same holds of a retrieval.
- A version registered again from another commit keeps the row, and the `git_sha`, of the
  first; registry.rs:5 and migration 0004 speak of exact (git_sha, content_hash) pairs.
- The eval a run is stamped with is the latest of its workflow and version, whatever content
  it was run on (ledger_client.rs:238-258).
- verifier/anchor.rs:42-44 says that a dossier returns rows in the order of the leaves, so
  that its sections can be concatenated. Leaves are ordered by (created_at, id) over all
  tables (anchoring.rs:173); a dossier lists one table after the other (runs.rs:85-163).
- routes/anchors.rs:3-4 says that there is no write route for anchors, and `POST /anchors`
  (lib.rs:173-174) is one. `Trigger` models it.

## What is left out

- *Bytes.* SHA-256 and Ed25519 are terms: a hash is of one thing, a signature is by one key.
  A timestamp stands for its RFC 3339 text, and the constant `ROW_DOMAIN` is left off.
- *In the chains:* bias slices without a run (they are not chained), columns that no chain
  logic reads, statement time-outs.
- *In anchoring:* the Noop sink of a ledger without a bucket; the bucket's retention, which
  never deletes; the signature over a manifest. The chart's two replicas share one
  database: replication lag does not occur.
- *In the gateway:* a replica's restart within the proxies is a hang-up of each of its
  callers; bodies and headers; the agent's own behaviour beyond sending requests in any
  order.
- *In the registry:* clients of the ledger other than gateways and CI; several workflows; the
  walk over a directory, whose hash is taken as injective.
- *In the bucket of artifacts:* the digest check of a download, and whoever changes objects
  behind the ledger's back.
- *In cases and exports:* custody events, which nothing else reads; lists and single reads;
  several cases; `storage_uri`, which no code sets.
- *In the tool and retrieval proxies:* the timeouts they do not have. A peer that never answers
  holds a call for ever; the fairness above assumes it away.
- *In the model proxy:* the reading of the agent's request, headers and streams, the coercion
  of floats, an agent that hangs up (its answer is written to a broken pipe and nothing else
  changes).
- Authentication, TLS, telemetry, configuration: stateless or pure I/O. Agent hooks and
  deployment files: only their replica counts enter the models.

## Order of the work

The chains with their proofs, the encoding below them, anchoring and its tree, the
gateway with its proxies and the run dossier, the registry, cases with exports and keys, the
model proxy.
