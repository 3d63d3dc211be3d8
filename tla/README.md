# ShellWatch in TLA+

ShellWatch is a Go server that lets people and AI agents share SSH terminals,
with a human approving every use of a key. This directory holds TLA+ models of
its concurrent core, TLC configurations that check them on small instances, and
TLAPS proofs. `PROJECT.json` lists the runs, the properties, the source lines
each definition models, the hazards and the theorems.

## The system and its parts

| Part | State | Operations | Where |
|---|---|---|---|
| approval store and broker | actions by id (status, deadline), two 1-buffered channels per request | Create, resolve, deny, claim-time expiry, CancelForConnection, Sweep, the awaiting signer | `internal/approval`, `internal/rest/actions.go` |
| session manager | registry of sessions, status, close reason, transport, `destroyed` | Create, pump, Close (bounded join), idle janitor, closers per client and account, Destroy, RemoveForAccount | `internal/terminal` |
| output buffer, WebSocket hub, long poll | buffer window, per-connection `attached`/`lastOffset`, frame queue, subscriptions | Append, ReadFrom, flush, attach with catch-up, detach, closed, removal sweep, ReadOutput | `internal/terminal/buffer.go`, `internal/ws`, `internal/agent/session.go`, `client/src/lib/stores/ws.ts`, `Terminal.svelte`, `routes/observer` |
| host-key trust | endpoint row (address, pin), per-connection HostKeyState | Lookup, key exchange and rekey, approval, compare-and-set pin, fail-closed check; REST/MCP update, forget, manual pin | `internal/sshx`, `internal/hostkeys`, `internal/store/endpoints.go`, `internal/rest/endpoints.go` |
| audit writer | lifecycle, signing and host-key rows | hooks of the three parts above | `internal/audit` |
| SSH transport, key auth, agent forwarding, agent proxy | setup deadline, event channel, forwarded agent | Connect, Close, pipes, Sign | `internal/sshx`, `internal/signagent`, `internal/agentproxy` |
| ephemeral stores, WebAuthn | TTL maps, credentials, counters | challenge, step-up, invite, login, registration | `internal/ephemeral`, `internal/webauthn` |
| OAuth over Hydra | introspection cache, client documents | login, consent, resolve, provision | `internal/hydra` |
| rate limiter, last-used flusher, shutdown | windows, dirty map | Allow, Flush, CloseAndFlush | `internal/ratelimit`, `internal/store/lastused.go`, `cmd/shellwatch/main.go` |
| local agent client | socket, refresh token, credentials | dial with retry, refresh, store | `agent-client` |

They interact through hooks. The manager's status, output and removed hooks
drive the hub, the long poll and the audit writer; the store's created and
resolved hooks drive the audit writer, and the broker's channels the toasts; an
SSH handshake waits in the broker for its approval and then pins the host key.
All of these hooks run after the lock that guards the change is released, and
that is where the hard behaviour of this program lies: every module therefore
makes one action of one critical section, one SQL statement, or one call made
outside a lock.

## Modules

**`Approval`** models one request from `Create` to the return of `RequestSign`
(`pc`, `got`), and the actors that may end it. REST handlers look the action up
(`Lookup`, unlocked) and claim it (`TakePending`, which expires an overdue
action itself); a dead connection's teardown claims every pending action of the
connection (`CancelForConnection`); the sweep expires and forgets
(`SweepStart` reads the clock before `Sweep` takes the lock). A claim leaves the
actor with a `job`: to release each awaiter (`Callback`) and to emit the resolved
event (`EmitResolved`), one action at a time. `audit`, `toast` and `answers`
record what the log, the browsers and HTTP callers were told. `Create` reads the
clock and inserts in one step, while the code reads the clock just before it
takes the lock: a claim cannot fall in between, for the action is not in the
store yet, and the clock may advance between any two steps anyway, so what is
lost is only a deadline that is early by the time spent waiting for the lock.
`ApprovalPromise` is the abstract specification: a request gets one decision,
approvals come before the deadline, and a release tells the decision.
`ApprovalProof` holds the proofs. `MCApproval` instantiates the constants.

**`Terminal`** models sessions with the threads that work on them: `Create`
(`Register`, `Adopt`, `Open`, `StartPump`), the pump (`PumpRecv`, `PumpAppend`,
`PumpNotify`, `PumpEnd`) and five kinds of closer (`CloseGet`, `BeginClosing`,
`ReadTransport`, `ShutTransport`, `Join`). `at[t][s]` is a thread's program
counter; `ev[t][s]` the status event it has yet to deliver in its `Hook` step.
The event carries the reason as it was when the status changed, and the audit
writer (`Recorded`) writes that one. The transport may deliver data, end, fail,
or never react to being closed, and `Join` may time out at any moment.
`MCTerminalIdle` starts `Terminal` with sessions that are already up.

**`HostKeys`** models one endpoint row with connections and requests on it.
`vouched` records which address and key pairs a human approved or entered, and
`epoch` counts the moves and clears that end a trust decision. `HostKeysProof`
holds the proofs, `MCHostKeys` the symmetry of the run.

**`Stream`** follows one session's output to one browser connection or one long
poll. Offsets count chunks. `PumpAppend` trims the buffer at `MaxSize`;
`ReadFrom` has the code's reset rule; `Enqueue` drops the connection on
overflow. `FlushLock`, `FlushGet`, `FlushRead` and `FlushEnd` are the steps of
`flushOutput`; the attach path is `Attach`, `CatchUpGet`, `CatchUpRead`,
`AttachWithCatchUp`, `Recheck`.

The browser is its store and the page that is open on the session. `MountTerminal`
is `Terminal.svelte`: it forgets the stored offset, attaches for a full replay,
clears its screen on a reset and detaches when it goes. `MountObserver` is the
observer page: it attaches a fresh screen after the stored offset, ignores
reset and never detaches. `view` holds the page, where its screen ends (`hi`),
whether something is missing on it (`gap`), the store's `offset`, and the answers
to attaches still `due`: a page expects the buffer without a hole from the answer
to its own attach on, and nothing of frames an earlier page asked for. `Drop` is a
lost network, a failed write or the peer going away: the queued frames and the
messages in flight are lost. After `Reconnect` no page attaches again by itself,
and what a page sends while the socket is down is lost (`WsSend`), as in `ws.ts`.

Definitions placed before an action with a similar name (`TakePendingLate`
before `TakePending`) are its mutants, faulty variants no specification uses:
each property is known to fail when its mutant takes the action's place.

## Runs

| Run | Bounds | What it shows |
|---|---|---|
| `approval` | 1 request, 1 connection, 2 handlers, TTL 1, grace 1, clock to 4 | `OneStory`, `ResolverNeverBlocks`, `ToastCleared`, `SignerReleased`, refinement `KeepsPromise` |
| `terminal` | 1 session, user + revoke + destroy closers, 2 chunks | `NoResurrection`, `NoOrphanTransport`, `TailComplete`, `DestroyFinal`, `AuditBalanced` |
| `terminal_live` | 1 session, idle + account closers, 2 chunks | `CloseReturns`, `ClosingEnds`, `PurgeComplete`, `RefillBounded`, `RemovedOnce` |
| `terminal_idle` | 2 sessions that are up, idle closer, no output | `IdleReaped` |
| `hostkeys` | 2 connections with 2 keys each, 2 requests, 2 addresses, 2 host keys | `PinVouched`, `SessionVouched`, `OneTrustPerEpoch`, `PinNeverReplaced` |
| `stream` | 2 chunks, buffer of 1, queue of 2, 2 pages opened, any number of lost connections | `ClosedIsLast`, `NoGap`, `NoStalledOutput`, `TailDelivered`, `NoZombieAttachment`, `NoLostWakeup` |

Why the bounds are enough. Actions of the approval store share nothing but the
lock, and the safety properties are proved for any number of them; two handlers,
the sweep and a teardown give every pair of racing claims, and a clock past
`MaxCreate + TTL + Grace` reaches expiry and forgetting. `Background` is empty:
a connection on `context.Background()` only loses the step `CtxCancel`, to which
no fairness is given, so its behaviours are among those checked. Sessions share
only `destroyed` and the closers' snapshots, so one session with three closers,
the pump and Create meets every race on a session. The janitor is the exception:
it waits for its whole batch, so a wedged session can hold up another one, which
takes two sessions (a join without a timeout breaks `IdleReaped` with two
sessions and not with one); they start up and silent, since output and Create
are covered by the other runs. Two connections, two addresses and two keys are
the least with which trust can be confused. The second chunk trims a buffer of
one, so an offset may be current, evicted or, after a removal, ahead; a queue of
two overflows as soon as an attach and a flush meet a browser that does not
read. Two pages give every order of a terminal and an observer page on one
store. The same invariants were also checked, outside the listed runs because
of their time, with three pages (16.2 million states) and with three chunks, a
buffer of two and a queue of three (8.8 million); none was violated.

`AuditBalanced` is about the row and not about the session's last status: a
session that failed and was closed later settles `closed`, and its row keeps
`error`, because `recordClose` only writes a row without `closed_at`. The property
covers rows inserted by the open event and by the closing event of a session
closed in the middle of Create. It leaves out sessions whose pump Close gave up
on, and those of which the writer heard an end before the inserting event, an
order which `terminal_order` shows to be possible.

`NoGap` and `TailDelivered` are about the terminal page. What the observer page
does instead is `stream_observer`, below. `NoStalledOutput` is a safety property:
as long as the buffer holds more than an attached connection was sent, a thread
is on its way to flush it.

Six runs are expected to end in a violation; each states what the
repository's documentation or comments say, and what the code does instead
(`findings` in `PROJECT.json`):

* `approval_audit` (`AuditSettled`): an outcome that arrives between the store
  insert and the created hook updates no row, and the row stays pending.
* `terminal_order` (`EventsOrdered`): hooks run after the unlock, so `closed` may
  be heard before `closing`.
* `terminal_audit` (`SessionAudited`): a close racing the tail of a failing
  `Create` may deliver `closing` after the entry is gone; no audit row results.
* `hostkeys_trace` (`PinLossTraced`): an endpoint update decides about its audit
  record from a row read before a pin landed.
* `stream_resend` (`NoResend`): a re-attach reads its catch-up outside `flushMu`
  and rewinds the offset past which a flush has sent meanwhile.
* `stream_observer` (`ObserverWhole`): the observer page, opened again, attaches
  its empty screen after the offset its last mount left behind.

Deadlock is not checked: requests are answered, sessions end, pages stop being opened,
and the bounded programs then stop.

### Fairness

`Approval`: a goroutine with work runs on, the sweep's ticker fires and the clock
advances (weak fairness on those steps). Humans, connections and contexts owe
nothing: `SignerReleased` rests on the sweep alone when nobody acts.
`Terminal`: goroutines run on, the factory returns once its context is cancelled
(`Connect` closes the socket on cancellation), and the janitor ticks. The
transport owes nothing, so `CloseReturns` is about wedged transports too. One
thing is assumed: `transport.Close()` itself returns; it runs before the bounded
join and nothing in the manager limits it. `HostKeys` and `Stream` have no
liveness properties and no fairness.

## Proofs

`ApprovalProof` proves, for every set of requests, connections and handlers and
every TTL, from `ApprovalAssumption` alone:

* `ApprovalSafety`: `Spec => [](TypeOK /\ OneStory /\ ResolverNeverBlocks /\ ToastCleared)`;
* `ApprovalKeepsPromise`: `Spec => KeepsPromise`, the refinement.

`OneStory` is not inductive: it compares what was told, and says nothing of
what is about to be told. The inductive invariant `IInv` adds `Ownership` (an
actor delivers the verdict the store holds, and no two actors have the same
action left to release), `Agreement` (what is in a channel, the audit row or an
answer is the store's status) and `Progress` (a request exists in the store once
its goroutine has started, has returned nothing before it was released, and the
sweep's instant is in the past). `RequestIInv`, `ClaimIInv` and `DeliverIInv` show
that the signer's steps, the steps under the lock and the deliveries keep it.
The refinement needs one more fact, `Intent`: a REST request means to approve or
to deny, never to expire. Each step then maps to a step of `ApprovalPromise` or
leaves its variables alone.

`HostKeysProof` proves, for any number of connections, requests, addresses and
keys, from `HostKeysAssumption` (the endpoint starts at one of the addresses,
`NoKey` is no key, `Signers` is a number, `Ops` are known operations):

* `HostKeysSafety`: `Spec => [](TypeOK /\ PinVouched /\ SessionVouched /\ OneTrustPerEpoch)`;
* `HostKeysNeverReplaced`: `Spec => PinNeverReplaced`.

A session's trust is decided long before it is up, so `SessionVouched` is not
inductive. `IInv` adds `Sound` for every connection (a pin it looked up was
vouched for, a known key is that pin, a connection about to pin was approved
with its own address and key, one that is pinned stays vouched for), `Current`
(whoever was confirmed in the present epoch has the pin that is on the row) and
`Entered` (a manual pin carries a key). `Current` is what makes two winners of the
compare-and-set in one epoch agree. Three lemmas carry the argument: a step that
leaves the row alone (`QuietStep`), one that confirms a connection
(`ConfirmStep`) and one of a request (`RowStep`); each action is an instance.

Model-checked only: everything about `Terminal` and `Stream`, and all
liveness (`SignerReleased`, `CloseReturns`, `ClosingEnds`, `PurgeComplete`,
`IdleReaped`), which is out of the prover's reach.

## Not modelled, and the plan

Abstracted everywhere: payloads, wording, logging, cryptography and wire formats.
Not modelled because nothing in them runs concurrently with state: configuration,
seeding, demo data, generated code, static pages.

In order, what comes next:

1. `Ephemeral` with `Webauthn`: the TTL store with eviction, and the single-use
   challenges, step-up tokens and invites over it, with login, registration and
   the signature counter.
2. `Oauth`: introspection cache against revocation, login and consent, client
   provisioning under the keyed mutex.
3. `AgentClient`: dialling with retry, token rotation, two-backend credentials.
4. `Transport`: setup deadline and its extension while a human decides, the
   `setupDone` fence, pipes against `Close`, forwarded agents and the agent proxy.
5. Admission (session caps, account deletion), control and input in `Stream`,
   shutdown order with the last-used flusher, the rate limiter.
6. Proofs: `NoResurrection` and `NoOrphanTransport` for `Terminal`, the offsets of
   `Stream`, and the safety of the modules above.
