------------------------------ MODULE Approval ------------------------------
(***************************************************************************)
(* The pending-action layer: approval.Store (the registry and its single   *)
(* lock), approval.Broker (a signer's goroutine blocked on two 1-buffered  *)
(* channels), the REST handlers that resolve or deny, the 10 s sweep and   *)
(* the teardown of a dead connection, with the two observers that are      *)
(* told: the audit row and the browsers' toasts.                           *)
(*                                                                         *)
(* One action is one critical section or one call made outside the lock,   *)
(* so every window between claiming an action, releasing its awaiter and   *)
(* telling the observers is open to every other goroutine.                 *)
(***************************************************************************)
EXTENDS Naturals

CONSTANTS
  Actions,      \* action ids; each is requested at most once
  Conns,        \* SSH or agent connections
  ConnOf,       \* ConnOf[a]: the connection a's request belongs to
  Background,   \* connections whose signers wait on context.Background()
  Handlers,     \* concurrent REST requests
  Sweeper,      \* the goroutine of sweepActions
  TTL, Grace,   \* ActionTTL and cleanupGrace, in ticks
  MaxCreate,    \* no request starts after this instant
  MaxTime       \* the clock stops here

ASSUME ApprovalAssumption ==
  /\ TTL \in Nat \ {0} /\ Grace \in Nat
  /\ MaxCreate \in Nat /\ MaxTime \in Nat
  /\ ConnOf \in [Actions -> Conns] /\ Background \subseteq Conns
  /\ Sweeper \notin Conns \cup Handlers /\ Conns \cap Handlers = {}

Actors == Handlers \cup Conns \cup {Sweeper}

Terminal == {"completed", "denied", "expired"}
Verdicts == {"approved", "denied", "expired", "cancelled"}

\* The in-memory status a verdict leaves an action in.
StatusOf(v) == IF v = "approved" THEN "completed" ELSE IF v = "cancelled" THEN "denied" ELSE v

VARIABLES
  now,          \* clock.Now()
  status,       \* status[a]: Action.Status, "none" before Create
  expires,      \* expires[a]: Action.ExpiresAt
  registered,   \* the keys of Store.actions
  resultCh,     \* resultCh[a]: the awaiter's 1-buffered result channel
  errCh,        \* errCh[a]: its 1-buffered error channel
  pc,           \* pc[a]: where the goroutine of RequestSign is
  got,          \* got[a]: what RequestSign returned
  ctxDone,      \* connections whose request context is done
  ended,        \* connections CancelForConnection was called for
  job,          \* job[x]: what actor x is doing
  sweepNow,     \* the instant Sweep read before it took the lock
  audit,        \* audit[a]: outcome column of a's row, "none" without a row
  toast,        \* toast[a]: the last message the browsers got about a
  answers       \* answers[a]: every final status an HTTP answer asserted

store == <<status, expires, registered>>
chans == <<resultCh, errCh>>
awaiter == <<pc, got>>
vars == <<now, store, chans, awaiter, ctxDone, ended, job, sweepNow, audit, toast, answers>>

Idle == [step |-> "idle", todo |-> {}, cur |-> {}, claimed |-> {}, verdict |-> "denied"]

Jobs == [step : {"idle", "looked", "sweep", "callback", "emit", "clear"},
         todo : SUBSET Actions, cur : SUBSET Actions, claimed : SUBSET Actions,
         verdict : Verdicts]

\* A REST request that read a's snapshot and means to decide v.
Looked(a, v) == [step |-> "looked", todo |-> {a}, cur |-> {}, claimed |-> {}, verdict |-> v]

\* A job that claimed the actions S for v: todo is what it has yet to release,
\* cur the one whose release it has yet to announce.
Claimed(S, v) ==
  [step |-> "callback", todo |-> S, cur |-> {}, claimed |-> S, verdict |-> v]

\* The job j at its next step.
Moved(j, step, todo, cur) ==
  [step |-> step, todo |-> todo, cur |-> cur, claimed |-> j.claimed, verdict |-> j.verdict]

TypeOK ==
  /\ now \in Nat /\ sweepNow \in Nat
  /\ status \in [Actions -> {"none", "pending"} \cup Terminal]
  /\ expires \in [Actions -> Nat]
  /\ registered \subseteq {a \in Actions : status[a] # "none"}
  /\ resultCh \in [Actions -> {"empty", "approved"}]
  /\ errCh \in [Actions -> {"empty"} \cup (Verdicts \ {"approved"})]
  /\ pc \in [Actions -> {"idle", "hooks", "notify", "waiting", "clearing", "returned"}]
  /\ got \in [Actions -> Verdicts \cup {"none", "ctx"}]
  /\ ctxDone \subseteq Conns \ Background
  /\ ended \subseteq Conns
  /\ job \in [Actors -> Jobs]
  /\ audit \in [Actions -> {"none", "open"} \cup Verdicts]
  /\ toast \in [Actions -> {"none", "shown", "cleared"}]
  /\ answers \in [Actions -> SUBSET Terminal]

Init ==
  /\ now = 0 /\ sweepNow = 0
  /\ status = [a \in Actions |-> "none"]
  /\ expires = [a \in Actions |-> 0]
  /\ registered = {}
  /\ resultCh = [a \in Actions |-> "empty"]
  /\ errCh = [a \in Actions |-> "empty"]
  /\ pc = [a \in Actions |-> "idle"]
  /\ got = [a \in Actions |-> "none"]
  /\ ctxDone = {} /\ ended = {}
  /\ job = [x \in Actors |-> Idle]
  /\ audit = [a \in Actions |-> "none"]
  /\ toast = [a \in Actions |-> "none"]
  /\ answers = [a \in Actions |-> {}]

-----------------------------------------------------------------------------
(* The signer's goroutine: RequestSign / RequestKeyApproval.               *)

\* Mutant: the struct literal forgets Status, leaving the zero value.
CreateUnset(a) ==
  /\ pc[a] = "idle" /\ now <= MaxCreate
  /\ status' = [status EXCEPT ![a] = ""]
  /\ expires' = [expires EXCEPT ![a] = now + TTL]
  /\ registered' = registered \cup {a}
  /\ pc' = [pc EXCEPT ![a] = "hooks"]
  /\ UNCHANGED <<now, chans, got, ctxDone, ended, job, sweepNow, audit, toast, answers>>

\* Store.Create up to the unlock: the action is visible to every resolver
\* before its created hooks have run.
Create(a) ==
  /\ pc[a] = "idle" /\ now <= MaxCreate
  /\ status' = [status EXCEPT ![a] = "pending"]
  /\ expires' = [expires EXCEPT ![a] = now + TTL]
  /\ registered' = registered \cup {a}
  /\ pc' = [pc EXCEPT ![a] = "hooks"]
  /\ UNCHANGED <<now, chans, got, ctxDone, ended, job, sweepNow, audit, toast, answers>>

\* The created hook: the audit writer's INSERT.
InsertSigning(a) ==
  /\ pc[a] = "hooks"
  /\ audit' = [audit EXCEPT ![a] = "open"]
  /\ pc' = [pc EXCEPT ![a] = "notify"]
  /\ UNCHANGED <<now, store, chans, got, ctxDone, ended, job, sweepNow, toast, answers>>

Notify(a) ==
  /\ pc[a] = "notify"
  /\ toast' = [toast EXCEPT ![a] = "shown"]
  /\ pc' = [pc EXCEPT ![a] = "waiting"]
  /\ UNCHANGED <<now, store, chans, got, ctxDone, ended, job, sweepNow, audit, answers>>

\* select: the result or the error channel is ready.
AwaitResult(a) ==
  /\ pc[a] = "waiting" /\ resultCh[a] # "empty"
  /\ got' = [got EXCEPT ![a] = resultCh[a]]
  /\ resultCh' = [resultCh EXCEPT ![a] = "empty"]
  /\ pc' = [pc EXCEPT ![a] = "clearing"]
  /\ UNCHANGED <<now, store, errCh, ctxDone, ended, job, sweepNow, audit, toast, answers>>

\* Mutant: the error branch returns without telling the channels.
AwaitErrSilent(a) ==
  /\ pc[a] = "waiting" /\ errCh[a] # "empty"
  /\ got' = [got EXCEPT ![a] = errCh[a]]
  /\ errCh' = [errCh EXCEPT ![a] = "empty"]
  /\ pc' = [pc EXCEPT ![a] = "returned"]
  /\ UNCHANGED <<now, store, resultCh, ctxDone, ended, job, sweepNow, audit, toast, answers>>

AwaitErr(a) ==
  /\ pc[a] = "waiting" /\ errCh[a] # "empty"
  /\ got' = [got EXCEPT ![a] = errCh[a]]
  /\ errCh' = [errCh EXCEPT ![a] = "empty"]
  /\ pc' = [pc EXCEPT ![a] = "clearing"]
  /\ UNCHANGED <<now, store, resultCh, ctxDone, ended, job, sweepNow, audit, toast, answers>>

\* notifyResolved, then return.
NotifyResolved(a) ==
  /\ pc[a] = "clearing"
  /\ toast' = [toast EXCEPT ![a] = "cleared"]
  /\ pc' = [pc EXCEPT ![a] = "returned"]
  /\ UNCHANGED <<now, store, chans, got, ctxDone, ended, job, sweepNow, audit, answers>>

\* select: ctx.Done() is ready. Go picks at random among the ready cases.
AwaitCtx(a) ==
  /\ pc[a] = "waiting" /\ ConnOf[a] \in ctxDone
  /\ got' = [got EXCEPT ![a] = "ctx"]
  /\ pc' = [pc EXCEPT ![a] = "returned"]
  /\ UNCHANGED <<now, store, chans, ctxDone, ended, job, sweepNow, audit, toast, answers>>

-----------------------------------------------------------------------------
(* Claims: what the resolvers do under the store's lock.                   *)

\* Actions.lookup reads a snapshot; resolve turns away a settled one there,
\* deny goes on in any case. An unregistered id is a 404 that asserts nothing.
\* Ids are random: nobody asks for one before its audit row or toast shows it.
Lookup(h, a, verdict) ==
  /\ job[h].step = "idle" /\ a \in registered /\ pc[a] \notin {"idle", "hooks"}
  /\ IF verdict = "approved" /\ status[a] # "pending"
       THEN /\ answers' = [answers EXCEPT ![a] = @ \cup {status[a]}]
            /\ UNCHANGED job
       ELSE /\ job' = [job EXCEPT ![h] = Looked(a, verdict)]
            /\ UNCHANGED answers
  /\ UNCHANGED <<now, store, chans, awaiter, ctxDone, ended, sweepNow, audit, toast>>

\* Mutant: the status is checked in Lookup only, not under the lock.
TakePendingUnchecked(h, a) ==
  LET overdue == status[a] = "pending" /\ expires[a] <= now
      v == IF overdue THEN "expired" ELSE job[h].verdict
  IN /\ job[h].step = "looked" /\ job[h].todo = {a}
     /\ IF a \notin registered
          THEN job' = [job EXCEPT ![h] = Idle] /\ UNCHANGED status
          ELSE /\ status' = [status EXCEPT ![a] = StatusOf(v)]
               /\ job' = [job EXCEPT ![h] = Claimed({a}, v)]
     /\ UNCHANGED <<now, expires, registered, chans, awaiter, ctxDone, ended, sweepNow,
                    audit, toast, answers>>

\* Mutant: the deadline is left to the sweep.
TakePendingLate(h, a) ==
  LET v == job[h].verdict
  IN /\ job[h].step = "looked" /\ job[h].todo = {a}
     /\ IF a \notin registered
          THEN job' = [job EXCEPT ![h] = Idle] /\ UNCHANGED <<status, answers>>
          ELSE IF status[a] # "pending"
          THEN /\ answers' = [answers EXCEPT ![a] = @ \cup {status[a]}]
               /\ job' = [job EXCEPT ![h] = Idle] /\ UNCHANGED status
          ELSE /\ status' = [status EXCEPT ![a] = StatusOf(v)]
               /\ job' = [job EXCEPT ![h] = Claimed({a}, v)]
               /\ UNCHANGED answers
     /\ UNCHANGED <<now, expires, registered, chans, awaiter, ctxDone, ended, sweepNow,
                    audit, toast>>

\* takePending: of several concurrent claims one wins; a claim on a
\* past-deadline action performs the expiry itself.
TakePending(h, a) ==
  LET v == IF expires[a] <= now THEN "expired" ELSE job[h].verdict
  IN /\ job[h].step = "looked" /\ job[h].todo = {a}
     /\ IF a \notin registered
          THEN job' = [job EXCEPT ![h] = Idle] /\ UNCHANGED <<status, answers>>
          ELSE IF status[a] # "pending"
          THEN /\ answers' = [answers EXCEPT ![a] = @ \cup {status[a]}]
               /\ job' = [job EXCEPT ![h] = Idle] /\ UNCHANGED status
          ELSE /\ status' = [status EXCEPT ![a] = StatusOf(v)]
               /\ job' = [job EXCEPT ![h] = Claimed({a}, v)]
               /\ UNCHANGED answers
     /\ UNCHANGED <<now, expires, registered, chans, awaiter, ctxDone, ended, sweepNow,
                    audit, toast>>

\* Mutant: like the Node original, the awaiters of a dead connection are not
\* rejected.
CancelForConnectionSilent(c) ==
  LET S == {a \in registered : status[a] = "pending" /\ ConnOf[a] = c}
  IN /\ c \notin ended /\ ended' = ended \cup {c}
     /\ status' = [a \in Actions |-> IF a \in S THEN "denied" ELSE status[a]]
     /\ UNCHANGED <<now, expires, registered, chans, awaiter, ctxDone, job, sweepNow, audit,
                    toast, answers>>

CancelForConnection(c) ==
  LET S == {a \in registered : status[a] = "pending" /\ ConnOf[a] = c}
  IN /\ c \notin ended /\ ended' = ended \cup {c}
     /\ status' = [a \in Actions |-> IF a \in S THEN "denied" ELSE status[a]]
     /\ job' = [job EXCEPT ![c] = IF S = {} THEN Idle ELSE Claimed(S, "cancelled")]
     /\ UNCHANGED <<now, expires, registered, chans, awaiter, ctxDone, sweepNow, audit,
                    toast, answers>>

\* Sweep reads the clock before it takes the lock.
SweepStart ==
  /\ job[Sweeper].step = "idle"
  /\ sweepNow' = now
  /\ job' = [job EXCEPT ![Sweeper].step = "sweep"]
  /\ UNCHANGED <<now, store, chans, awaiter, ctxDone, ended, audit, toast, answers>>

Sweep ==
  LET overdue == {a \in registered : status[a] = "pending" /\ expires[a] <= sweepNow}
      settled == {a \in registered : status[a] # "pending"} \cup overdue
      stale == {a \in settled : expires[a] + Grace < sweepNow}
  IN /\ job[Sweeper].step = "sweep"
     /\ status' = [a \in Actions |-> IF a \in overdue THEN "expired" ELSE status[a]]
     /\ registered' = registered \ stale
     /\ job' = [job EXCEPT ![Sweeper] =
                  IF overdue = {} THEN Idle ELSE Claimed(overdue, "expired")]
     /\ sweepNow' = 0
     /\ UNCHANGED <<now, expires, chans, awaiter, ctxDone, ended, audit, toast, answers>>

-----------------------------------------------------------------------------
(* Delivery: what a winning resolver does after the unlock.                *)

\* resolveSign / resolveKey / reject: a send on a 1-buffered channel.
Callback(x, a) ==
  /\ job[x].step = "callback" /\ a \in job[x].todo
  /\ IF job[x].verdict = "approved"
       THEN /\ resultCh[a] = "empty"
            /\ resultCh' = [resultCh EXCEPT ![a] = "approved"]
            /\ UNCHANGED errCh
       ELSE /\ errCh[a] = "empty"
            /\ errCh' = [errCh EXCEPT ![a] = job[x].verdict]
            /\ UNCHANGED resultCh
  /\ job' = [job EXCEPT ![x] =
                Moved(job[x], "emit", job[x].todo \ {a}, {a})]
  /\ UNCHANGED <<now, store, awaiter, ctxDone, ended, sweepNow, audit, toast, answers>>

\* emitResolved for the action just released: the audit writer's UPDATE,
\* which touches only a row that exists and is unresolved. A REST handler
\* then answers, the sweep goes on to its next action, and a teardown that
\* has rejected all of its actions goes on to clear their toasts.
EmitResolved(x, a) ==
  LET j == job[x]
  IN /\ j.step = "emit" /\ j.cur = {a}
     /\ audit' = [audit EXCEPT ![a] = IF @ = "open" THEN j.verdict ELSE @]
     /\ answers' = [answers EXCEPT ![a] = IF x \in Handlers THEN @ \cup {status[a]} ELSE @]
     /\ job' = [job EXCEPT ![x] =
                  IF j.todo # {} THEN Moved(j, "callback", j.todo, {})
                  ELSE IF x \in Conns THEN Moved(j, "clear", j.claimed, {})
                  ELSE Idle]
     /\ UNCHANGED <<now, store, chans, awaiter, ctxDone, ended, sweepNow, toast>>

\* Broker.CancelForConnection clears the toasts of what it cancelled.
ClearToast(c, a) ==
  /\ job[c].step = "clear" /\ a \in job[c].todo
  /\ toast' = [toast EXCEPT ![a] = "cleared"]
  /\ job' = [job EXCEPT ![c] =
                IF job[c].todo = {a} THEN Idle
                ELSE Moved(job[c], "clear", job[c].todo \ {a}, {})]
  /\ UNCHANGED <<now, store, chans, awaiter, ctxDone, ended, sweepNow, audit, answers>>

-----------------------------------------------------------------------------
(* The environment: time and request contexts.                             *)

CtxCancel(c) ==
  /\ c \notin Background \cup ctxDone
  /\ ctxDone' = ctxDone \cup {c}
  /\ UNCHANGED <<now, store, chans, awaiter, ended, job, sweepNow, audit, toast, answers>>

Tick ==
  /\ now < MaxTime
  /\ now' = now + 1
  /\ UNCHANGED <<store, chans, awaiter, ctxDone, ended, job, sweepNow, audit, toast, answers>>

Request(a) ==
  \/ Create(a) \/ InsertSigning(a) \/ Notify(a)
  \/ AwaitResult(a) \/ AwaitErr(a) \/ NotifyResolved(a) \/ AwaitCtx(a)

Deliver(x) == \E a \in Actions : Callback(x, a) \/ EmitResolved(x, a)

Next ==
  \/ \E a \in Actions : Request(a)
  \/ \E h \in Handlers, a \in Actions :
       TakePending(h, a) \/ \E v \in {"approved", "denied"} : Lookup(h, a, v)
  \/ \E c \in Conns : CancelForConnection(c) \/ CtxCancel(c)
  \/ \E c \in Conns, a \in Actions : ClearToast(c, a)
  \/ \E x \in Actors : Deliver(x)
  \/ SweepStart \/ Sweep \/ Tick

Spec == Init /\ [][Next]_vars

\* Goroutines that have work run on; the sweep's ticker and the clock never
\* stop. Requests, humans, connections and contexts owe nothing.
Fairness ==
  /\ \A a \in Actions : WF_vars(pc[a] # "idle" /\ Request(a))
  /\ \A h \in Handlers : WF_vars(\E a \in Actions : TakePending(h, a))
  /\ \A c \in Conns : WF_vars(\E a \in Actions : ClearToast(c, a))
  /\ \A x \in Actors : WF_vars(Deliver(x))
  /\ WF_vars(SweepStart) /\ WF_vars(Sweep) /\ WF_vars(Tick)

FairSpec == Spec /\ Fairness

-----------------------------------------------------------------------------
(* Properties.                                                             *)

\* The ends of an action some observer was told of.
Told(a) ==
  answers[a] \cup {StatusOf(v) : v \in {got[a], audit[a]} \cap Verdicts}

\* Every observer of an action tells the same story. The statuses asserted by
\* HTTP answers (200 and 409 alike), the outcome RequestSign returned and the
\* outcome in the audit row never name two different ends of one action,
\* however resolves, denies, the sweep, a teardown and late claims interleave
\* (takePending's "exactly one wins", writeClaimConflict's "never report a
\* state the store didn't assert").
OneStory == \A a \in Actions : \A s, t \in Told(a) : s = t

\* A resolver never blocks on an awaiter: whoever is about to release an action
\* finds both 1-buffered channels empty, so no REST handler, sweep or teardown
\* hangs on a send ("the resolution callbacks fire at most once per action").
ResolverNeverBlocks ==
  \A x \in Actors : job[x].step \in {"callback", "emit"} =>
    \A a \in job[x].todo : resultCh[a] = "empty" /\ errCh[a] = "empty" /\ got[a] \notin Verdicts

\* When RequestSign returns on a decision, the last thing the browsers heard
\* about the action is that it is resolved: no toast is left behind, although
\* a teardown may clear it before Notify has shown it (broker.go's "a duplicate
\* sign:resolved ... is an idempotent toast removal").
ToastCleared ==
  \A a \in Actions : pc[a] = "returned" /\ got[a] # "ctx" => toast[a] = "cleared"

\* No signer waits forever: every request returns, whether a human acts, the
\* connection dies (CancelForConnection must reject, or a Background awaiter is
\* stranded), or only the sweep is left to expire it.
SignerReleased == \A a \in Actions : pc[a] = "hooks" ~> pc[a] = "returned"

\* The refinement mapping to ApprovalPromise.
ReleasedAs(g) == IF g = "ctx" THEN "gaveup" ELSE StatusOf(g)

Promise == INSTANCE ApprovalPromise WITH
  decision <- status, deadline <- expires,
  released <- [a \in Actions |-> ReleasedAs(got[a])]

\* The layer keeps its promise: one decision per request, approvals only before
\* the deadline ("no approval may ever land after the action's TTL"), expiries
\* only after it, and a release that tells the decision.
KeepsPromise == Promise!Spec

\* Once everyone is done with a settled action, its audit row carries the
\* outcome (docs/architecture.md: the audit log keeps signing-request outcomes
\* and its writers are guaranteed subscribers). Not kept by the code: a claim
\* may run its UPDATE between Create's unlock and the created hook's INSERT.
AuditSettled ==
  \A a \in Actions :
    /\ pc[a] = "returned" /\ status[a] \in Terminal
    /\ \A x \in Actors : a \notin job[x].claimed
    => audit[a] \in Verdicts
=============================================================================
