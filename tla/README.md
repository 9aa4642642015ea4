# AquaTransport: specification and proofs

AquaTransport (src/README.md, src/docs/TECHNICAL.md) puts a modern TLS stack, a URL rewriter and an
AirDrop adapter inside the processes of Mac OS X 10.6 to 10.9 by rebinding functions of their
system frameworks. These TLA+ modules state what its stateful parts promise, TLC checks them on
small instances, and TLAPS proves the most important of them for every instance.

Paths below are the repository's; `engine.c`, `hooks_mac.c`, `config.c`, `rewrite.c` and `maps.c` stand
for `src/aquatransport_engine.c` and `src/mac/aquatransport_{hooks_mac,config,rewrite,maps}.c`, and
`airdrop/` for `src/mac/airdrop/`.

## The system

| Part | State it keeps | Operations | What is hard about it |
|---|---|---|---|
| Shadow table (`engine.c` gTab) | one record per SSLContext address, reference counts, use stamps, 256 slots | sh_get, sh_create, sh_release, sh_free, eviction, the CF destructor, SSLDisposeContext | any thread; an address is used again; freed while held; LRU |
| Connection (`hooks_mac.c`, `engine.c`) | Shadow's fields, one SSL object at a time | the setters, SSLHandshake, verify_chain, client_cert_cb, SSLCopyPeerTrust, getters | late names and certificates restart it; pauses; fallback to the native stack |
| What the caller is told (`hooks_mac.c`) | the connection's state, the thread's error queue, records partly read | SSLHandshake's and SSLRead's answers, state and peer getters, SSLGetBufferedReadSize | errors left by other calls; records in pieces; a caller that waits on its socket |
| Write path | pending output, would-block latch | SSLWrite, SSLClose, the flush at the head of a read, bio_bwrite | partial writes, retries, failed allocation, ordering with close_notify |
| Client sessions (gSess) | sessions by peer id, OpenSSL's references | sess_get, sess_put, new_session_cb | displaced while another thread holds it; late tickets; whose check it stands for |
| Verified chains (gChainOk) | digests of accepted chains with a time to live | chain_ok_get, chain_ok_put around SecTrustEvaluate | evaluation outside the lock; wall clock |
| Rules and flags (`config.c`) | what was read from each file and its modification time | tf_redirects, tf_headerrules, tf_flag, read_blocks, glob_prefix | file replaced between stat and open; throttle; pointers handed out; line ends; the backing up of `*` |
| Rewriter (`rewrite.c`) | none of its own: the request on its way | MutableCopy, SendSync, CreateWithProps, Create, CFHTTPMessage creation and setter, WKExternalURLRewrite | several hooks meet one request |
| Loading (`mac/aquatransport_loader.c`, `hooks_mac.c`, `cfhook.c`, fishhook) | once tokens, originals, import slots, the patched class record, a per-thread guard | the stub, the constructor, image callbacks, each hook's first call | any hook may be first, on any thread; images load before and after |
| Late modules (`maps.c`, `rewrite.c`) | once tokens, hook_lock, the swizzled method | tf_maps_install, image callbacks, retries after a load | dyld's lock against hook_lock; classes not yet registered |
| AirDrop adapter loading (`mac/aquatransport_airdrop.c`) | load_once, the module's mode | tf_airdrop_install, load_once, tf_airdrop_active | checks of a machine whose settings change; pointer and flag |
| AirDrop leases and mode (`airdrop/AQTransferLease.inc`, `AQMode.inc`, `AQPendingRetry.inc`, `AQAirDrop.m`) | transfer counts, leased and deferred receivers, requested mode, radio owners | begin_transfer, finish, start and stop, flush, apply_pending_mode | transfers end on their own queues while the main thread switches |
| AirDrop radio and helper (`AQRadio.inc`, `AQHelper.m`, `AQHelperPower.inc`) | owners, release generation, heartbeat; the helper's session and lease | acquire, release, heartbeat, sleep and wake | late answers; missed notifications; either process dies |
| AirDrop discovery (`AQDiscovery.inc`, `AQSocket.inc`) | probes by service name, scoped endpoints with counts | person_changed, remove_service, resolution, request, retry, cancel | late answers; peers that come back; objects released last by a callback |
| AirDrop receiver (`AQServerDrain.inc` and others) | drain generation, the stopped server's connections | start, stop, the drain's checks | peers that leave connections open; receives between checks |
| AirDrop sender and user interface, AWDL daemon (`deps/owl`), iCloud and Anisette, installer, tools | | | see "Not modelled" |

How they interact: the **loader** puts hooks in front of the system's functions. A hook finds its
**shadow** by context address, works on the **connection** it holds, and leaves; the handshake
consults the **session** and **chain** caches from inside OpenSSL's callbacks; writes go through the
**write path** of the same shadow. The **rewriter** reads the **rule caches** on every request, and
the TLS hooks read flags from the same code. AirDrop's **leases** decide when the **mode** may change
and when receivers may give up the **radio**; a stop they let through starts the receiver's **drain**;
an AirDrop server connection also switches the engine's server side on, if the adapter's **loading**
says so.

PROJECT.json lists every component with its sources and status, the hazards at their lines, and
the lines each definition translates.

## Modules

| Module | Models | State and actions |
|---|---|---|
| ShadowTable | the shadow table | gTab, gClock and the fields ctx, lastUse, refcount; each critical section of gLock is one action, what a thread does after the unlock (log, free) another. `CFContexts` picks the regime: a destructor from 10.8 on, before it SSLDisposeContext, which under the guard leaves the entry |
| LruRegistry | what a cache of this code promises: a bounded set of keys in order of use | Use, Add, Forget; ShadowTable, ChainCache and SessionCache implement it through the refinement mappings `Registry` of MCShadowTable and MCConnection and `SessionRegistry` of MCConnection |
| UseOrders | the mapping's operator: the keys of the used slots, oldest stamp first | no state |
| Connection | one context from its setters to the end of its handshake | one action per setter; the callbacks inside SSL_do_handshake are actions; each SSL object meets one chain |
| Session | what SSLHandshake, SSLRead and the getters answer | one call at a time: entry, each transport callback, errors a step of it leaves behind, the end; the error queue is the thread's latest error, a record has a header and a body |
| WriteQueue | the write path | bytes are numbered; an action is one call of the application's write callback or one decision around it; OpenSSL's half-written record is wnum, rec, tot |
| SessionCache | the client session cache | one connection per thread; lookup, up-reference, store, displacement and its later free are separate steps; peers, tickets and the application's own check are the environment |
| ChainCache | the chain cache | read of the clock, lookup, evaluation and store are separate steps of each thread; Security's verdict changes over time |
| RuleCache | one cached file and its lock | call, stat, second stat, open, store, unlock, use; save, remove and the clock are the environment |
| RuleFile | how read_blocks makes blocks of lines, and tf_redirects and tf_headerrules rules of blocks | a line is its length; a line read (or a part, where it is longer than the buffer), the end of the file and each block gone through are the actions |
| Glob | glob_prefix | one character of the pass is an action |
| Rewrite | one request against fixed rules | build, header writes, each hook; rules are chosen in Init, a pattern is the set of URLs it fires on |
| Loading | the engine's way into a process and each hook's to its original | images with import slots; every once-block's steps are a thread's own; a call is a stack of frames |
| Adapters | when the maps and iCloud modules are brought in | each lock and unlock of dyld's lock and hook_lock is a step |
| AirDropLoading | whether a process has the AirDrop adapter | each check of load_once is a step, and the machine's settings change between them |
| TransferMode | leases, deferred stops, the mode switch | one action per critical section of the lease lock and per block of the main queue |
| Radio | sharingd's side of the radio and the helper's | a request is one action with its answer, or is lost, or is served late; notices are a queue |
| Discovery | the search for peers | one callback of the main run loop is an action; a probe object is used again once nothing refers to it |
| ServerDrain | a stopped receiver's connections | start, stop, flush, one check; connections and receives are the environment |
| MC* | constants, bundles, symmetry and refinement mappings for TLC | |
| ShadowTableProofs, WriteQueueProofs, ConnectionProofs, StreamsProofs, LoadingProofs, RulesProofs, AirDropProofs | theorems about ShadowTable; WriteQueue; Connection, ChainCache and SessionCache; Session and Radio; Adapters and Loading; RuleCache, RuleFile, Glob and Rewrite; TransferMode, AirDropLoading and Discovery | |
| RegistryProofs | lemmas the others share: a first element, the order of use | |

A definition whose name is another's with a suffix (`Touch_uncounted`) is that definition with a
plausible fault. Substituted for the original it makes the run find its property violated; that is
how each property is known to depend on the code.

**Bundles.** MCConnection, MCStreams, MCRules, MCLoading and MCAirDrop each check several modules in
one run. A variable `part`, chosen in the initial state and never changed, says which of them the
behaviour uses; the others rest in one initial state. So the states are the sum of the modules',
not their product, and nothing is claimed of interactions: the modules of a bundle share no state.
Which module stands with which is partly a matter of size (Radio is with the streams because it is
small). Fairness is the conjunction of the parts': a part that rests has nothing enabled, so its
conditions hold.

## What each run checks

| Run | Instance | What it shows |
|---|---|---|
| shadow_table | 3 addresses, 4 records, 2 slots, 2 threads, 5 ticks; 10.8 on; symmetric | no entry outlives its context, counts are exact and no freed record is reachable, the table is an LRU registry |
| connection | one context, 2 hosts, 2 configurations, 3 SSL objects; or 2 threads, 2 slots, a life of 1, both sides (ChainCache); or 2 connections, 2 endpoints whose ids share a prefix, 4 sessions, 1 slot (SessionCache); symmetric in threads and connections | the cached trust is the current object's; every completed handshake's chain was checked or shown; the identity goes out after the approval; client authentication is not omitted; an answer from the chain cache was once the evaluation's, within its life; both caches are LRU registries; references are exact; a session is offered only to its endpoint, and without an identity |
| connection_late | the same with `LateApproved` | violation: a name or certificate set after the approval starts a handshake nobody checks |
| session_unverified | SessionCache: 2 connections, 1 endpoint, 3 sessions, 1 slot | violation: a session of a handshake the engine did not check is resumed where the engine is to check |
| streams | runs of 3, records of 2, buffers up to 5, 8 bytes in all, realloc may fail (WriteQueue); 3 alerts of the peer, reads of up to 2, 2 records of up to 2 bytes (Session); 2 owners, a lease of 2 ticks, 3 faults (Radio); 2 addresses, 2 records, 1 slot, 2 threads, before 10.8 (ShadowTable); fair | the peer gets the accepted bytes once and in order, answers are honest, a transport that said no is not asked again in that entry, the queue drains; every answer is its own call's; what arrives is read; no session from before a sleep is renewed; the radio follows its owners; every evicted or dropped shadow is freed |
| rules | 2 threads, 4 edits, 4 seconds (RuleCache); all files of up to 7 lines that fit a buffer of 4, and of up to 4 lines that need not (RuleFile); all patterns of up to 4 of `a b / *`, all URLs of up to 4 (Glob); 4 URLs (one reserved, one a legacy map tile), 2 headers, every list of up to 2 redirect rules and 2 header rules (Rewrite) | a cache whose time is the file's holds the file's rules; no call is served rules older than its second; the rules are the runs of three or more lines, in their order; a match is the shortest prefix; a request goes where one pass sends it, with the rule's headers |
| rule_cache_reload | RuleCache as in rules | violation: an array is freed under a caller that walks it |
| rewrite_host | as rules | violation: Host set after a message was redirected goes to the redirect's server |
| loading | 2 threads, 1 client image besides CFNetwork, 5 systems (Loading); 2 threads, flags that change (Adapters); fair | the engine serves where it should and as a whole; every hook has the system's function behind it and stays; the guard is up exactly in an evaluation; every call returns; the ETA hook always has its original |
| adapters_retry | Adapters, the flags fixed | violation: a retry and dyld's callback wait for each other. Deadlock is not checked, for the deadlock is the point |
| airdrop | 1 receiver, 1 browser, 2 transfers of which one name begins first, 2 requests (TransferMode); 7 machines, 5 settings, 2 threads (AirDropLoading); 2 peers, 2 probes, 2 addresses, 2 endpoints, one TAP index, 1 failure (Discovery); 2 connections, 2 attempts, 2 starts, 2 stops (ServerDrain); fair | counts add up, no switch under a transfer, nothing unused owns the radio, nothing is put off for ever; the answer on AirDrop is the mode's; a name is only ever that of a peer shown now, over an endpoint still counted; a peer is named in the end; a stopped receiver's connections are closed in the end |
| radio_leak | Radio raced, 2 faults | violation: an acquire that fails leaves the radio to nobody |

The connection run compares states by `Seen`, which leaves out of SessionCache who checked a peer and whether
a check left the application was left to the engine or waived: history that no step and no property of that
run depends on. session_unverified, which is about it, compares whole states.

Why the bounds are enough. Every hazard of the list needs at most two threads and one more
object than there are slots: eviction, address reuse, displacement and duplicate stores all happen.
A write of 5 bytes is two runs of IO_RUN_MAX, each of up to two records, so a block falls before,
inside and after a record, a run and a buffer; 8 bytes allow a second write over a non-empty queue.
Reads shorter than a record leave a part behind, and of two records one can be whole while the other is
in pieces. Two transfers are the least that make "the last one" differ from "one". Two redirect rules
are the least that can chain, and the first-match order matters. Three SSL objects allow a restart
before and after a finished handshake. A pattern of four characters has two stars with something
between and after them, which is where the choice of the star to back up to matters; a file of seven lines has two rules, or
one of the least size with blank lines on each side. Three faults are a lost request, a missed notification
and a death, in any order. Two probes and two peers let one probe
object come back for another peer while the first one's block is still queued, and one address may
be both peers'. Two attempts of the drain stand for twelve: the first and the last differ, and nothing
else depends on the number. The 5 systems and 7 machines are each a
deviation of the intended one in one check. The ticks, seconds, edits, uses and failures are bounds on counters only.

## Assumptions about callers and the environment

* A context is used by one thread at a time, as Secure Transport asks; different contexts
  interleave freely. A caller stops at errSSLClosedAbort and presents again what was not taken.
* A peer id is set before the first SSLHandshake, as a name for the endpoint that handshake is with.
  The hook takes it at any time: changed between a handshake and its TLS 1.3 ticket it would file
  the session under the new id, and SessionFits would fail.
* The session options and SSLSetEnableCertVerify are set before the first SSLHandshake. The hooks take
  them at any time, and my_SSLSetSessionOption records breakAuth before it asks the native function and
  whatever that answers (hooks_mac.c:233-237). Without the assumption PeerChecked and IdentityAfterApproval fail:
  with the break set verify_chain leaves the chain to the application, the transport blocks, the
  break is taken back, and the next SSLHandshake connects without a pause.
* In ShadowTable a context is ended under the guard (`UnderGuard`) only by a call Security makes inside
  a hook of another one.
* In ChainCache the wall clock goes forward (`StepBack = FALSE`); set back it lengthens the
  life of an entry. An evaluation's store happens before the clock runs on.
* In Connection no name or certificate comes after the approval; connection_late removes that.
* In RuleCache a save replaces the file, as editors do, and no two saves fall into one second
  (`OnceASecond`): times have that resolution, and the second save of a second is missed.
* In Rewrite no rule's target is redirected again (`Terminal`), which rewrite.c:252-254 takes for
  granted. Without it a copied request is redirected twice, and a message's header writes are
  judged by a rule for another URL. Rules and flags do not change while one request is built.
* RulesAsWritten speaks of files whose lines fit the buffer; a longer line comes back from
  fgets in pieces and is taken for several.
* In Adapters dlsym takes dyld's lock, which is recursive, as dyld's own lookups do.
* In Radio the Wi-Fi association, Bluetooth and OWL are one session. The streams run has
  `Raced = FALSE`: no other thread takes the lock between the two halves of acquire_radio or before a
  heartbeat's block that has begun. radio_leak removes that. Both have `Unowned = FALSE`: names are looked up and
  registered by an owner of the radio, or one just gone. The DNSService hooks do not ask
  (AQAirDrop.m:102-126). With `Unowned = TRUE` the radio does not follow its owners: a lookup nobody
  owns starts a session that the heartbeat keeps until an owner comes and goes or the mode changes.
* In TransferMode each operation transfers once and the radio is had or not, as it comes.
* In Discovery the frameworks' keys and initialisers the probe looks up exist; without one the probe
  cancels itself (AQDiscovery.inc:66, 75, 76) and that peer is not asked again until it is shown anew.
* In ServerDrain time is not measured, and calloc succeeds.

Fairness, where a run has it:

* ShadowTable (in streams): `WF` of each thread's steps inside a hook, and of no call: threads run, and
  nothing is assumed of when a caller calls.
* WriteQueue: `WF` of the steps inside a hook and of the caller's empty write while bytes are
  queued (CFNetwork's run-loop source comes back after a would-block); `SF` of the transport taking
  bytes, since each attempt may meet a full socket but not all of them do. No fairness on failures.
* Session: `WF` of a hook's own steps and of the run loop's notice that the socket can be read;
  `SF` of a caller's read (CallerReads), for a caller may do other things in between but comes back to
  its connection, as the loop of tools/readcontract.c does. No fairness on what the peer sends.
* Radio: `WF` of what sharingd's threads and the helper's loop have begun, of late requests and of
  the machine's waking up; `SF` of the clock's tick and of the heartbeat's handler, which other work
  may precede but not for ever.
* Loading: `WF` of each thread's steps inside a call; `SF` of the end of Security's evaluation, which
  makes calls of its own first.
* adapters_retry: `SF` of each thread's steps, since a lock that is free again and again is had in
  the end. The counterexample stops in a state in which neither thread can move.
* TransferMode: `WF` of each operation's steps (a transfer that has begun ends, its connection
  times out at the latest), of the stop and of the application of a mode on the main thread;
  `SF` of the main queue's blocks, which libdispatch runs although other blocks come between.
* Discovery: `WF` of each probe's steps, with a bound on failures: a resolution (4 s) and a request
  (12 s) have timeouts, a retry is a block of the main queue, and a peer that never answers need not
  be named.
* ServerDrain: `WF` of the flush, of each check, and of the end of a connection that was
  invalidated. None on a peer's own end: it may hold its connection for ever, which is why the drain is there.

## What is proved

TLAPS proves the following for every value of the constants, from the modules' named assumptions
only. The properties are those the runs check unless said otherwise.

**ShadowTableProofs.** `IInv` adds to the properties what each thread's position says of its
variables (`Control`), that table entries are allocated (`EntriesAllocated`), that a context
has one thread while it is being ended (`EndingAlone`), and that a context past its destructor's
sh_free has no entry (`EndedHasNoEntry`). The last two are why the address may be handed out
again: without them NoStaleEntry is not inductive, since a lookup could restore an
entry between the drop and the end of the context. `NeverStale` has the hypothesis CFContexts: before 10.8
it is false, since a dispose under the guard leaves the entry (see the remarks); `TypeCorrect` and
`ReferencesSafe` hold in both regimes. The reference count is an equation with a
number of holders, so its steps rest on three lemmas on cardinality (HoldersTake,
HoldersGive, LastReference). `Invariance` is the inductive step, one case per action; `TypeCorrect`,
`NeverStale` and `ReferencesSafe` follow from it. The clock is unbounded in the proof; its
wrap-around at 2^32 is not part of these properties, only of the LRU order.

**ConnectionProofs.** `IInv` holds of every connection: an object exists wherever the code
dereferences it (`SslPresent`), the engine's callbacks run only on a connection that has not failed
and that no setter took from it (`InCall`), a trust is dropped with its SSL object (`TrustOfSsl`, of
which `TrustCurrent` is the part that shows), and the application decides where it asked to
(`AppDecides`). From it follow the action properties: what the getters report is frozen from the
first call (`GettersFrozen`), client authentication is not omitted (`ClientAuthNeverOmitted`), a
failed handshake stays failed (`FailureIsFinal`). `JInv` adds that an approval is of the object there
is. It gives `ApplicationDecides` (PeerChecked) and `OursAfterApproval` (IdentityAfterApproval) under the
hypothesis ~LateApproved, which the theorems state and connection_late shows to be needed.

**WriteQueueProofs.** The bytes on the wire, in the record in flight, in the queue and in the
caller's buffer are successive intervals of the numbers; `IInv` says of each where it begins
and ends (`Base`, `Used`, and `IsRun` for the sequences), by the hook and step the connection is
in. `InOrder` and `Kept` are read off the intervals, `Honest` off what each return leaves. The hypothesis
ShortStream (2 * MaxBytes < IntMod) keeps sh_flush_write's answer, a size_t handed over as an int
(engine.c:358), what it is: with a queue of 2 GiB the conversion would break the intervals.
`AsksOncePerEntry` needs no such bound: once the transport has said no, the latch stands until the entry
returns, and nothing that asks runs under it (`Latched`).
`OneCallsWorth` is the bound docs/TECHNICAL.md:626 derives from refusing data while the queue is full:
sh_hold_write appends (engine.c:371-379), but only ever to an empty queue and only what is left of the
caller's buffer (`FilledWhenEmpty`), and the queue leaves all at once; so it is never longer than the
longest buffer of one SSLWrite. No run states it; the theorem is its only check.

**The order of use** (RegistryProofs). That a table with stamps is an LRU registry is proved for every
number of slots, without induction: the place of an entry is the number of entries stamped no later
(`RankIsPlace`), so the list of keys in order of use exists, is unique and is known by its members (`OrderIs`).
From that comes what a step does to the list: a slot in use gets the youngest stamp, with its own key or another,
and goes to the end (OrderRefilled); an unused slot is added there (OrderGrown); a slot leaves (OrderShrunk); and
what is written to unused slots does not show (OrderKept). `TableIsRegistry` and `CachesAreRegistries` (the
lemmas `ChainsAreRegistry` and `SessionsAreRegistry`) are the refinements: Init maps to Init, each step to Use,
Add, Forget or a stutter. The chain cache is one even when the wall clock is set back, since its order is the
use counter's. In the session cache no slot is ever emptied, so its keys are only used and added (`Restamps`,
`PlaceFor`); the run has one slot, where every new endpoint evicts, and the theorem any number. The shadow
table's hypothesis is MaxTicks <= ClockMod: gClock has not wrapped; once it does, the youngest entry looks oldest.
gSessClock and gChainOkClock are counted without their wrap at 2^32, which would do the same.

**StreamsProofs.** `OwnOutcome` needs that the error queue holds nothing foreign once a call has
begun (`QueueClear`): it is empty or holds this call's own error, which ERR_clear_error at the head of both
hooks establishes and no step of another's can break. `GettersFollow` is the agreement of the getters with the last answer.
`NothingStaleRenewed` (no heartbeat lengthens the lease of a session from before a sleep) holds because a
session is stale on a machine that is awake only while the notice that ends it is still to be drained or the
helper does not know the power to be back (`StaleIsRefused`), and until then it refuses.

**The chain cache** (ConnectionProofs). `EntriesBacked` says that a used entry stands for an acceptance no older than the
entry, measured on the clock as it is and on the time any thread has read and not yet used: where the
entry is newer than that time, the acceptance is of this second. A lookup compares an entry
with the time its thread read, so an age within the life bounds the acceptance's; what is about to be
recorded was accepted in this second (`Control`), under a digest no other question of a client has
(`DigestTells`: SHA-256 is taken as collision free, which is the shape of `Digest`). `AcceptedBefore` has the
hypothesis ~StepBack, because a clock set back makes an old entry young.

**The session cache** (ConnectionProofs). A session's references are counted by the pointers to it: one for
its slot, one for each connection that has found it, holds it or is about to free it (`CountInv`); a step moves
them for one connection and one slot at a time (`Moved`, `Local`), which gives `RefsAreExact`. `SessionsFit` carries what is known of a
session from the store to the offer (`FitInv`): a slot's session is of the slot's endpoint and what
a lookup found stays so although the slot is reused. That a resumed peer was verified is not among it:
session_unverified refutes it.

**RulesProofs.** *RuleCache.* Two equal times mean equal contents because whatever was seen of a file
before a save is older than the save's second (`Times`), so what was read under a time the file
still has is what the file says (`ReadIsSeen`, `CacheIsCurrent`). That is broken in the middle of a
reload, when the rules are freed and the old time is still there; `Locking` keeps the others from seeing it.
`StampCorrect` follows. `ServedCorrect` adds what a call counts on (`Counting`) and that whatever it
is about to return, read or found loaded, is as new as that (`CallSuffices`, `CacheSuffices`). Both
theorems have the hypothesis OnceASecond; two saves in one second refute StampIsContents.
*RuleFile.* While the file is read its blocks list the runs of lines that are over, and the block being read
is the lines since the last blank one (`StillRead`); afterwards the rules list the long runs up to some line and
the blocks all runs from it on (`GoneThrough`). Two runs of a file do not touch (`RunsTell`), so each block is
one run's. `RulesAreRuns` is RulesAsWritten for any file and any buffer.
*Glob.* The reference is an alignment: where each character of the pattern stands in the URL. The invariant says
that the pass so far is one, that the part before the last `*` stands as early as it can, and that every other
alignment has as many slashes before it (`OnTheWay`, `NotBefore`), so that no `*` before the last need be
tried again. `ShortestMatch` says what an answer is. That there is one follows from `PassAdvances`: a step that
does not answer moves the last `*` on, or how much it has taken, or the place in the URL, in this order of
importance, and each is bounded by its string. Only that the loop goes on at all is taken for granted.
*Rewrite.* Where no rule fires on a rule's target a second pass changes nothing (`RuleTwice`), and each kind of
request has been through one by the time it is sent (`OnItsWay`). `SentOnceAsRuled` has the hypothesis Terminal.

**LoadingProofs.** *Adapters.* hook_lock is held by the thread that is between its lock and unlock and by no
other, so the swizzle and the store of the original are one step to everyone else: `OriginalBehind`.
`AsksFirst` says that neither module is loaded, nor its once token spent, in a process without Foundation.
*Loading.* A thread is a stack of frames, so the invariant speaks of every frame of every stack (`AllFramed`):
past its once token the original is the system's and the engine serves only where it may. The pointers say what
the system has (`OrigFits`), a spent token has left its originals behind it (`TokensFit`), and each stack's shape
tells its thread's guard (`Shaped`). From it follow `ServesWhereWanted`,
`OriginalsAreReal`, `GuardIsExact` and the action property `HooksAreKept`.

**AirDropProofs.** *TransferMode.* The counts are stated as cardinalities of the operations at each
step; two lemmas say how such a number changes when one operation enters or leaves. `CountsAreExact` is
then inductive. `SwitchWaits` follows because a switch reads zero, and a
number that is exact and zero leaves nobody. `OwnersAreUsed` needs which of two modes a step is in:
in the native mode no browser or receiver owns the radio but a deferred one.
*AirDropLoading.* A thread that finds the adapter's flag set finds its pointer set too, for the pointer is
stored first (`PointerFirst`): `YesIsModern`. `AdapterOnlyWhereMeant` follows what the checks still ahead of a
thread say of its machine (`Provenance`).
*Discovery.* The references of an endpoint are the probes that hold its token (`Exact`); the dictionary, the
browser's shown peers and the probes agree on whose probe is whose (`Owned`). `PeersAreTheirs` is
NamedIsReachable: a name told is of a probe in the dictionary whose endpoint is still counted.
*ServerDrain.* `HeldHasCheck` is the safety half of HeldIsClosed: a stopped receiver that holds connections
has a check of its own generation queued, or its checks are used up (`HeldIsWatched`). It rests on a running
receiver having been started since its last stop (`RunsSince`), so that no check of that stop finds it
running under its own generation. A stop that was put off has a receive or a flush before it (`PutOffWaits`).

Only model-checked: the liveness properties (UnlinkedIsFreed, AllDelivered, QueueDrains,
RadioFollowsOwners, CallsReturn, NothingPutOffForever, PeersAreNamed, HeldIsClosed), which rest on fairness
and ENABLED. Every safety and action property and every refinement that a
passing run checks has a theorem, under the hypotheses named here.

## Where code and documentation disagree

The six violation runs are listed above and in PROJECT.json with the lines they quote. Met while
modelling and left as remarks:

* "Before 10.8 this is the only end a context has, so the entry goes here" (hooks_mac.c:484-485): under the
  guard my_SSLDisposeContext returns before sh_free (hooks_mac.c:488), as tf_on says no, and the entry
  stays for the next context at that address. From 10.8 the destructor, which does not ask
  tf_on, drops it.
* The comment over the rule reader gives a redirect block two lines and a header block a pattern and one or more
  lines (config.c:271-273); the code takes no block of fewer than three, the first being
  the scope (config.c:339, :375), as docs/TECHNICAL.md:409-440 has it. RulesAsWritten states the latter.
* An error queued by a step of the same call, such as the choice of a client certificate that
  ERR_clear_error is there for (engine.c:469-483), makes SSL_get_error report a failure where the handshake has only
  blocked, or waits for the application's approval (hooks_mac.c:335-348). Session has it so
  (`handshake_queues`), and AnswersOwnOutcome asks only that it be this call's error.
* sh_create logs an evicted host after the unlock (engine.c:279), when the record may be gone.
  More than 256 live contexts evict one in the middle of its handshake (engine.c:270).
* my_SSLWrite that fails in a later run answers processed = 0 although earlier runs are taken
  (hooks_mac.c:454). From 10.8 SSLDisposeContext drops the engine's state although another reference may keep
  the context (hooks_mac.c:489).
* "SSLWrite must never answer errSSLWouldBlock" (engine.c:333) describes the first answer to a buffer; a
  queue that is still full is answered with it (hooks_mac.c:444), as WriteQueue has it.
* start_server in native mode (AQAirDrop.m:167) returns before resume_transfer_server and so does not
  cancel a deferred stop, against docs/AIRDROP.md:28.
* start_server raises the drain's generation before it knows whether the radio can be had
  (AQAirDrop.m:165): without it the checks end although the table is not empty and the server is not
  restarted, against docs/AIRDROP.md:30. ServerDrain has it so, and HeldIsClosed does not speak of a
  receiver after such a start.
* stop_server looks for a lease and stops in two steps (AQAirDrop.m:186-188), between which a transfer
  may take one.
* While receives come and go the drain's twelve checks may all pass without closing anything
  (AQServerDrain.inc:50).
* A probe that has named its peer never resolves again: a peer that changes its port under the same name
  keeps its old endpoint. scoped_connect takes the first entry for an address, which may be of
  an earlier TAP interface.
* offer_stream_event remembers one stream of a connection (AQStreamEvents.inc); two that alternate would let a
  repeated end through, where docs/AIRDROP.md calls its delivery idempotent per stream open.
* WKExternalURLRewrite exempts no reserved URL and applies no map rewriting (rewrite.c:463).

## Not modelled

* TLS itself, SNI, ALPN and cipher mapping: OpenSSL, and tables without a state. Scope names and tf_log.
* fishhook's walk of load commands, and the boot script (`aquatransport_bootstrap.m`), a linear
  sequence of queries and loads.
* Find My's edit of a request's body and length (rewrite.c:263-267): such a request is, as any for a
  reserved host, one the rules leave alone, which is all Rewrite says of it.
* The map adapter's URL and protobuf translations: pure functions over formats.
* Of the AirDrop receiver, the publication probe, which repeats one request as long as its publisher
  lives, and the archive copier and offer stream, whose order of calls is Sharing.framework's; of the
  sender everything but its leases, for the same reason. The steps of the Wi-Fi lease and the death of the advertiser.
* The user interface: views and strings over the adapter's state.
* The AWDL daemon in `deps/owl`, vendored: to Radio it is a process that runs or has ended.
* Anisette's provisioning and SRP: sequential requests to Apple's service, and arithmetic out of TLC's
  reach. Scripts, probes and tests.
