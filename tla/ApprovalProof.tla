---------------------------- MODULE ApprovalProof ----------------------------
(***************************************************************************)
(* The safety properties of Approval and its refinement of ApprovalPromise,*)
(* for any number of requests, connections and concurrent REST requests.   *)
(***************************************************************************)
EXTENDS Approval, TLAPS

Delivering(x) == job[x].step \in {"callback", "emit"}

\* A resolver delivers the verdict it left in the store, and no two resolvers
\* have the same action left to release.
Ownership ==
  /\ \A x \in Actors, a \in Actions :
       Delivering(x) /\ (a \in job[x].todo \/ a \in job[x].cur) =>
         status[a] = StatusOf(job[x].verdict)
  /\ \A x, y \in Actors, a \in Actions :
       Delivering(x) /\ Delivering(y) /\ a \in job[x].todo /\ a \in job[y].todo => x = y

\* What is in the channels, in the audit row and in the answers is the status.
Agreement ==
  \A a \in Actions :
    /\ resultCh[a] # "empty" => status[a] = "completed"
    /\ errCh[a] # "empty" => status[a] = StatusOf(errCh[a])
    /\ got[a] \in Verdicts => status[a] = StatusOf(got[a])
    /\ audit[a] \in Verdicts => status[a] = StatusOf(audit[a])
    /\ answers[a] \subseteq {status[a]}

\* How far the goroutines are, and what that says of the action.
Progress ==
  /\ sweepNow <= now
  /\ \A a \in Actions :
       /\ pc[a] = "idle" <=> status[a] = "none"
       /\ pc[a] \notin {"clearing", "returned"} => got[a] = "none"

\* A REST request means to approve or to deny.
Intent ==
  \A h \in Handlers : job[h].step = "looked" => job[h].verdict \in {"approved", "denied"}

IInv == TypeOK /\ Ownership /\ Agreement /\ Progress /\ ResolverNeverBlocks /\ ToastCleared

USE DEF Terminal, Verdicts

\* StatusOf maps a verdict to a final status.
LEMMA StatusOfType == \A v \in Verdicts : StatusOf(v) \in Terminal
  BY DEF StatusOf

\* The initial state satisfies the inductive invariant.
LEMMA InitIInv == Init => IInv
  BY ApprovalAssumption
     DEF Init, IInv, TypeOK, Ownership, Agreement, Progress, ResolverNeverBlocks,
         ToastCleared, Delivering, Idle, Jobs, Actors, StatusOf

\* Steps of the signer's goroutine keep the invariant.
LEMMA RequestIInv == ASSUME IInv, NEW a \in Actions, Request(a) PROVE IInv'
<1> USE DEF IInv, TypeOK, Ownership, Agreement, Progress, ResolverNeverBlocks, ToastCleared,
            Delivering, store, chans, awaiter
<1>1. CASE Create(a)
  <2> USE <1>1, ApprovalAssumption DEF Create
  <2>1. status[a] = "none"
    OBVIOUS
  <2>2. \A x \in Actors : Delivering(x) => a \notin job[x].todo /\ a \notin job[x].cur
    BY <2>1, StatusOfType DEF Jobs
  <2>3. TypeOK'
    OBVIOUS
  <2>4. Ownership'
    BY <2>2
  <2>5. Agreement'
    BY <2>1, StatusOfType
  <2>6. QED
    BY <2>3, <2>4, <2>5
<1>2. CASE InsertSigning(a)
  BY <1>2 DEF InsertSigning
<1>3. CASE Notify(a)
  BY <1>3 DEF Notify
<1>4. CASE AwaitResult(a)
  BY <1>4 DEF AwaitResult, StatusOf
<1>5. CASE AwaitErr(a)
  BY <1>5 DEF AwaitErr
<1>6. CASE NotifyResolved(a)
  BY <1>6 DEF NotifyResolved
<1>7. CASE AwaitCtx(a)
  BY <1>7 DEF AwaitCtx
<1>8. QED
  BY <1>1, <1>2, <1>3, <1>4, <1>5, <1>6, <1>7 DEF Request

\* Steps under the store's lock keep the invariant.
LEMMA ClaimIInv ==
  ASSUME IInv,
         \/ \E h \in Handlers, a \in Actions :
              TakePending(h, a) \/ \E v \in {"approved", "denied"} : Lookup(h, a, v)
         \/ \E c \in Conns : CancelForConnection(c)
         \/ SweepStart \/ Sweep
  PROVE  IInv'
<1> USE DEF Delivering, store, chans, awaiter, Actors
<1>0. /\ job \in [Actors -> Jobs]
      /\ status \in [Actions -> {"none", "pending"} \cup Terminal]
      /\ registered \subseteq Actions
      /\ now \in Nat /\ sweepNow \in Nat /\ expires \in [Actions -> Nat]
      /\ answers \in [Actions -> SUBSET Terminal]
  BY DEF IInv, TypeOK
<1>1. \A a \in Actions : status[a] = "pending" =>
        /\ \A x \in Actors : Delivering(x) => a \notin job[x].todo /\ a \notin job[x].cur
        /\ resultCh[a] = "empty" /\ errCh[a] = "empty" /\ answers[a] = {}
        /\ got[a] \notin Verdicts /\ audit[a] \notin Verdicts
  <2>1. \A a \in Actions : status[a] = "pending" =>
          \A x \in Actors : Delivering(x) => a \notin job[x].todo /\ a \notin job[x].cur
    BY <1>0, StatusOfType DEF IInv, Ownership, Jobs
  <2>2. QED
    BY <2>1, StatusOfType DEF IInv, TypeOK, Agreement
<1>2. ASSUME NEW h \in Handlers, NEW a \in Actions, TakePending(h, a) PROVE IInv'
  <2>1. /\ job' \in [Actors -> Jobs]
        /\ \A x \in Actors \ {h} : job'[x] = job[x]
        /\ UNCHANGED <<now, expires, registered, chans, awaiter, ctxDone, ended, sweepNow,
                       audit, toast>>
    BY <1>0, <1>2 DEF TakePending, Claimed, Idle, Jobs
  <2>2. \/ /\ UNCHANGED status /\ ~Delivering(h)'
           /\ \/ UNCHANGED answers
              \/ /\ status[a] \in Terminal
                 /\ answers' = [answers EXCEPT ![a] = @ \cup {status[a]}]
        \/ \E v \in Verdicts :
             /\ status[a] = "pending" /\ status' = [status EXCEPT ![a] = StatusOf(v)]
             /\ StatusOf(v) \in Terminal
             /\ job'[h].todo = {a} /\ job'[h].cur = {} /\ job'[h].verdict = v
             /\ UNCHANGED answers
    <3>1. job[h].verdict \in Verdicts
      BY <1>0 DEF Jobs
    <3>2. CASE a \notin registered \/ status[a] # "pending"
      BY <1>0, <1>2, <3>2 DEF TakePending, Idle, IInv, TypeOK
    <3>3. CASE a \in registered /\ status[a] = "pending"
      BY <1>0, <1>2, <3>1, <3>3, StatusOfType DEF TakePending, Claimed
    <3>4. QED
      BY <3>2, <3>3
  <2>3. TypeOK'
    BY <2>1, <2>2 DEF IInv, TypeOK
  <2>4. Ownership'
    BY <1>0, <1>1, <2>1, <2>2 DEF IInv, Ownership
  <2>5. Agreement'
    BY <1>0, <1>1, <2>1, <2>2 DEF IInv, Agreement
  <2>6. Progress'
    BY <1>0, <1>1, <2>1, <2>2 DEF IInv, Progress
  <2>7. ResolverNeverBlocks'
    BY <1>0, <1>1, <2>1, <2>2 DEF IInv, ResolverNeverBlocks
  <2>8. ToastCleared'
    BY <2>1, <2>2 DEF IInv, ToastCleared
  <2>9. QED
    BY <2>3, <2>4, <2>5, <2>6, <2>7, <2>8 DEF IInv
<1>3. ASSUME NEW h \in Handlers, NEW a \in Actions, NEW v \in {"approved", "denied"},
             Lookup(h, a, v) PROVE IInv'
  <2>1. /\ job' \in [Actors -> Jobs]
        /\ \A x \in Actors \ {h} : job'[x] = job[x]
        /\ job'[h] = job[h] \/ ~Delivering(h)'
    BY <1>0, <1>3 DEF Lookup, Looked, Jobs
  <2>2. /\ \/ UNCHANGED answers
           \/ /\ status[a] \in Terminal
              /\ answers' = [answers EXCEPT ![a] = @ \cup {status[a]}]
        /\ UNCHANGED <<now, store, chans, awaiter, ctxDone, ended, sweepNow, audit, toast>>
    BY <1>0, <1>3 DEF Lookup, IInv, TypeOK
  <2>3. TypeOK'
    BY <2>1, <2>2 DEF IInv, TypeOK
  <2>4. Ownership'
    BY <1>0, <1>1, <2>1, <2>2 DEF IInv, Ownership
  <2>5. Agreement'
    BY <1>0, <1>1, <2>1, <2>2 DEF IInv, Agreement
  <2>6. Progress'
    BY <1>0, <1>1, <2>1, <2>2 DEF IInv, Progress
  <2>7. ResolverNeverBlocks'
    BY <1>0, <1>1, <2>1, <2>2 DEF IInv, ResolverNeverBlocks
  <2>8. ToastCleared'
    BY <2>1, <2>2 DEF IInv, ToastCleared
  <2>9. QED
    BY <2>3, <2>4, <2>5, <2>6, <2>7, <2>8 DEF IInv
<1>4. ASSUME NEW c \in Conns, CancelForConnection(c) PROVE IInv'
  <2> DEFINE S == {a \in registered : status[a] = "pending" /\ ConnOf[a] = c}
  <2>1. /\ \A x \in Actors \ {c} : job'[x] = job[x]
        /\ Delivering(c)' => /\ job'[c].todo = S /\ job'[c].cur = {}
                             /\ job'[c].verdict = "cancelled"
        /\ S \subseteq Actions /\ ended' \subseteq Conns
        /\ job' \in [Actors -> Jobs]
    BY <1>0, <1>4 DEF CancelForConnection, Idle, Claimed, Jobs, IInv, TypeOK
  <2>2. /\ \A a \in S : status[a] = "pending" /\ status'[a] = "denied"
        /\ \A a \in Actions \ S : status'[a] = status[a]
        /\ status' \in [Actions -> {"none", "pending"} \cup Terminal]
        /\ UNCHANGED <<now, expires, registered, chans, awaiter, ctxDone, sweepNow, audit,
                       toast, answers>>
        /\ StatusOf("cancelled") = "denied"
    BY <1>0, <1>4 DEF CancelForConnection, StatusOf
  <2> HIDE DEF S
  <2>3. TypeOK'
    BY <2>1, <2>2 DEF IInv, TypeOK
  <2>4. Ownership'
    BY <1>0, <1>1, <2>1, <2>2 DEF IInv, Ownership
  <2>5. Agreement'
    BY <1>0, <1>1, <2>1, <2>2 DEF IInv, Agreement
  <2>6. Progress'
    BY <1>0, <1>1, <2>1, <2>2 DEF IInv, Progress
  <2>7. ResolverNeverBlocks'
    BY <1>0, <1>1, <2>1, <2>2 DEF IInv, ResolverNeverBlocks
  <2>8. ToastCleared'
    BY <2>1, <2>2 DEF IInv, ToastCleared
  <2>9. QED
    BY <2>3, <2>4, <2>5, <2>6, <2>7, <2>8 DEF IInv
<1>5. CASE SweepStart
  BY <1>0, <1>5 DEF SweepStart, IInv, TypeOK, Ownership, Agreement, Progress,
     ResolverNeverBlocks, ToastCleared, Jobs
<1>6. CASE Sweep
  <2> DEFINE S == {a \in registered : status[a] = "pending" /\ expires[a] <= sweepNow}
  <2>1. /\ \A x \in Actors \ {Sweeper} : job'[x] = job[x]
        /\ Delivering(Sweeper)' => /\ job'[Sweeper].todo = S /\ job'[Sweeper].cur = {}
                                   /\ job'[Sweeper].verdict = "expired"
        /\ S \subseteq Actions
        /\ job' \in [Actors -> Jobs]
    BY <1>0, <1>6 DEF Sweep, Idle, Claimed, Jobs
  <2>2. /\ \A a \in S : status[a] = "pending" /\ status'[a] = "expired"
        /\ \A a \in Actions \ S : status'[a] = status[a]
        /\ status' \in [Actions -> {"none", "pending"} \cup Terminal]
        /\ registered' \subseteq registered /\ sweepNow' = 0
        /\ UNCHANGED <<now, expires, chans, awaiter, ctxDone, ended, audit, toast, answers>>
        /\ StatusOf("expired") = "expired"
    BY <1>0, <1>6 DEF Sweep, StatusOf
  <2> HIDE DEF S
  <2>3. TypeOK'
    BY <2>1, <2>2 DEF IInv, TypeOK
  <2>4. Ownership'
    BY <1>0, <1>1, <2>1, <2>2 DEF IInv, Ownership
  <2>5. Agreement'
    BY <1>0, <1>1, <2>1, <2>2 DEF IInv, Agreement
  <2>6. Progress'
    BY <1>0, <1>1, <2>1, <2>2 DEF IInv, Progress
  <2>7. ResolverNeverBlocks'
    BY <1>0, <1>1, <2>1, <2>2 DEF IInv, ResolverNeverBlocks
  <2>8. ToastCleared'
    BY <2>1, <2>2 DEF IInv, ToastCleared
  <2>9. QED
    BY <2>3, <2>4, <2>5, <2>6, <2>7, <2>8 DEF IInv
<1>7. QED
  BY <1>2, <1>3, <1>4, <1>5, <1>6

\* A job that moves on is a job.
LEMMA MovedType ==
  ASSUME NEW j \in Jobs, NEW s \in {"callback", "emit", "clear"}, NEW T \in SUBSET Actions,
         NEW C \in SUBSET Actions
  PROVE  Moved(j, s, T, C) \in Jobs
  BY DEF Jobs, Moved

\* Steps that deliver a verdict, and the environment's, keep the invariant.
LEMMA DeliverIInv ==
  ASSUME IInv,
         \/ \E x \in Actors : Deliver(x)
         \/ \E c \in Conns, a \in Actions : ClearToast(c, a)
         \/ \E c \in Conns : CtxCancel(c)
         \/ Tick
         \/ UNCHANGED vars
  PROVE  IInv'
<1> USE DEF Delivering, store, chans, awaiter, Actors
<1>0. /\ job \in [Actors -> Jobs]
      /\ status \in [Actions -> {"none", "pending"} \cup Terminal]
      /\ answers \in [Actions -> SUBSET Terminal]
      /\ audit \in [Actions -> {"none", "open"} \cup Verdicts]
      /\ toast \in [Actions -> {"none", "shown", "cleared"}]
      /\ resultCh \in [Actions -> {"empty", "approved"}]
      /\ errCh \in [Actions -> {"empty"} \cup (Verdicts \ {"approved"})]
  BY DEF IInv, TypeOK
<1>1. ASSUME NEW x \in Actors, NEW a \in Actions, Callback(x, a) PROVE IInv'
  <2>1. /\ job' \in [Actors -> Jobs]
        /\ \A y \in Actors \ {x} : job'[y] = job[y]
        /\ Delivering(x) /\ a \in job[x].todo
        /\ job'[x].todo = job[x].todo \ {a} /\ job'[x].cur = {a}
        /\ job'[x].verdict = job[x].verdict
    <3>1. job[x] \in Jobs /\ job[x].todo \ {a} \in SUBSET Actions /\ {a} \in SUBSET Actions
      BY <1>0 DEF Jobs
    <3>2. Moved(job[x], "emit", job[x].todo \ {a}, {a}) \in Jobs
      BY <3>1, MovedType
    <3>3. job'[x] = Moved(job[x], "emit", job[x].todo \ {a}, {a})
      BY <1>0, <1>1 DEF Callback
    <3>4. QED
      BY <1>0, <1>1, <3>2, <3>3 DEF Callback, Moved
  <2>2. UNCHANGED <<now, store, awaiter, ctxDone, ended, sweepNow, audit, toast, answers>>
    BY <1>1 DEF Callback
  <2>3. /\ resultCh' \in [Actions -> {"empty", "approved"}]
        /\ errCh' \in [Actions -> {"empty"} \cup (Verdicts \ {"approved"})]
        /\ \A b \in Actions : b # a => resultCh'[b] = resultCh[b] /\ errCh'[b] = errCh[b]
        /\ resultCh'[a] \in {resultCh[a], job[x].verdict}
        /\ errCh'[a] = errCh[a] \/ errCh'[a] = job[x].verdict
    <3>1. job[x].verdict \in Verdicts
      BY <1>0 DEF Jobs
    <3>2. CASE job[x].verdict = "approved"
      BY <1>0, <1>1, <3>2 DEF Callback
    <3>3. CASE job[x].verdict # "approved"
      <4>1. errCh' = [errCh EXCEPT ![a] = job[x].verdict] /\ resultCh' = resultCh
        BY <1>1, <3>3 DEF Callback
      <4>2. QED
        BY <1>0, <3>1, <3>3, <4>1
    <3>4. QED
      BY <3>2, <3>3
  <2>4. /\ status[a] = StatusOf(job[x].verdict)
        /\ \A y \in Actors : Delivering(y) /\ a \in job[y].todo => y = x
    BY <2>1 DEF IInv, Ownership
  <2>5. TypeOK'
    BY <2>1, <2>2, <2>3 DEF IInv, TypeOK
  <2>6. Ownership'
    <3>1. \A y \in Actors : Delivering(y)' =>
            Delivering(y) /\ job'[y].todo \subseteq job[y].todo
              /\ job'[y].cur \subseteq job[y].cur \cup job[y].todo /\ job'[y].verdict = job[y].verdict
      BY <2>1
    <3> HIDE DEF Delivering
    <3>2. QED
      BY <2>2, <3>1 DEF IInv, Ownership
  <2>7. Agreement'
    <3>1. StatusOf("approved") = "completed" /\ resultCh'[a] \in {"empty", "approved"}
      BY <2>3 DEF StatusOf
    <3>2. ASSUME NEW b \in Actions
          PROVE  /\ resultCh'[b] # "empty" => status[b] = "completed"
                 /\ errCh'[b] # "empty" => status[b] = StatusOf(errCh'[b])
      BY <1>0, <2>3, <2>4, <3>1 DEF IInv, Agreement
    <3>3. QED
      BY <2>2, <3>2 DEF IInv, Agreement
  <2>8. ResolverNeverBlocks'
    <3>1. ASSUME NEW y \in Actors, Delivering(y)', NEW b \in job'[y].todo
          PROVE  resultCh'[b] = "empty" /\ errCh'[b] = "empty" /\ got[b] \notin Verdicts
      <4>1. b \in Actions /\ b # a /\ Delivering(y) /\ b \in job[y].todo
        BY <1>0, <2>1, <2>4, <3>1 DEF Jobs
      <4>2. QED
        BY <2>3, <4>1 DEF IInv, ResolverNeverBlocks
    <3>2. QED
      BY <2>2, <3>1 DEF ResolverNeverBlocks
  <2>9. Progress' /\ ToastCleared'
    BY <2>2 DEF IInv, Progress, ToastCleared
  <2>10. QED
    BY <2>5, <2>6, <2>7, <2>8, <2>9 DEF IInv
<1>2. ASSUME NEW x \in Actors, NEW a \in Actions, EmitResolved(x, a) PROVE IInv'
  <2>1. /\ job' \in [Actors -> Jobs]
        /\ \A y \in Actors \ {x} : job'[y] = job[y]
        /\ Delivering(x)' => /\ job'[x].todo = job[x].todo /\ job'[x].cur = {}
                             /\ job'[x].verdict = job[x].verdict
        /\ Delivering(x) /\ a \in job[x].cur
    <3>1. job[x] \in Jobs /\ job[x].todo \in SUBSET Actions /\ job[x].claimed \in SUBSET Actions
          /\ {} \in SUBSET Actions /\ Idle \in Jobs
      BY <1>0 DEF Jobs, Idle
    <3>2. /\ Moved(job[x], "callback", job[x].todo, {}) \in Jobs
          /\ Moved(job[x], "clear", job[x].claimed, {}) \in Jobs
      BY <3>1, MovedType
    <3>3. \/ job' = [job EXCEPT ![x] = Moved(job[x], "callback", job[x].todo, {})]
          \/ job' = [job EXCEPT ![x] = Moved(job[x], "clear", job[x].claimed, {})]
          \/ job' = [job EXCEPT ![x] = Idle]
      BY <1>2 DEF EmitResolved
    <3>4. job' \in [Actors -> Jobs]
      BY <1>0, <3>1, <3>2, <3>3
    <3>5. QED
      BY <1>0, <1>2, <3>3, <3>4 DEF EmitResolved, Moved, Idle
  <2>2. UNCHANGED <<now, store, chans, awaiter, ctxDone, ended, sweepNow, toast>>
    BY <1>2 DEF EmitResolved
  <2>3. /\ audit' \in [Actions -> {"none", "open"} \cup Verdicts]
        /\ answers' \in [Actions -> SUBSET Terminal]
        /\ \A b \in Actions : b # a => audit'[b] = audit[b] /\ answers'[b] = answers[b]
        /\ audit'[a] = audit[a] \/ status[a] = StatusOf(audit'[a])
        /\ answers'[a] \subseteq answers[a] \cup {status[a]}
    <3>1. job[x].verdict \in Verdicts /\ status[a] = StatusOf(job[x].verdict)
      BY <1>0, <2>1 DEF IInv, Ownership, Jobs
    <3>2. status[a] \in Terminal
      BY <3>1, StatusOfType
    <3>3. /\ audit' = [audit EXCEPT ![a] = IF audit[a] = "open" THEN job[x].verdict ELSE audit[a]]
          /\ \/ answers' = [answers EXCEPT ![a] = answers[a] \cup {status[a]}]
             \/ answers' = [answers EXCEPT ![a] = answers[a]]
      BY <1>2 DEF EmitResolved
    <3>4. QED
      BY <1>0, <3>1, <3>2, <3>3
  <2>4. \A y \in Actors : Delivering(y)' =>
          Delivering(y) /\ job'[y].todo = job[y].todo /\ job'[y].cur \subseteq job[y].cur
            /\ job'[y].verdict = job[y].verdict
    BY <2>1
  <2>5. TypeOK'
    BY <2>1, <2>2, <2>3 DEF IInv, TypeOK
  <2>6. Ownership'
    <3> HIDE DEF Delivering
    <3>1. QED
      BY <2>2, <2>4 DEF IInv, Ownership
  <2>7. Agreement'
    BY <2>2, <2>3 DEF IInv, Agreement
  <2>8. ResolverNeverBlocks'
    BY <2>2, <2>4 DEF IInv, ResolverNeverBlocks
  <2>9. Progress' /\ ToastCleared'
    BY <2>2 DEF IInv, Progress, ToastCleared
  <2>10. QED
    BY <2>5, <2>6, <2>7, <2>8, <2>9 DEF IInv
<1>3. ASSUME NEW c \in Conns, NEW a \in Actions, ClearToast(c, a) PROVE IInv'
  <2>1. /\ job' \in [Actors -> Jobs]
        /\ \A y \in Actors \ {c} : job'[y] = job[y]
        /\ \A y \in Actors : Delivering(y)' => y # c /\ Delivering(y) /\ job'[y] = job[y]
    <3>1. job[c] \in Jobs /\ job[c].todo \ {a} \in SUBSET Actions /\ {} \in SUBSET Actions
          /\ Idle \in Jobs
      BY <1>0 DEF Jobs, Idle
    <3>2. Moved(job[c], "clear", job[c].todo \ {a}, {}) \in Jobs
      BY <3>1, MovedType
    <3>3. \/ job' = [job EXCEPT ![c] = Moved(job[c], "clear", job[c].todo \ {a}, {})]
          \/ job' = [job EXCEPT ![c] = Idle]
      BY <1>3 DEF ClearToast
    <3>4. job' \in [Actors -> Jobs]
      BY <1>0, <3>1, <3>2, <3>3
    <3>5. QED
      BY <1>0, <3>3, <3>4 DEF Moved, Idle
  <2>2. /\ toast' = [toast EXCEPT ![a] = "cleared"]
        /\ UNCHANGED <<now, store, chans, awaiter, ctxDone, ended, sweepNow, audit, answers>>
    BY <1>3 DEF ClearToast
  <2>3. TypeOK'
    BY <1>0, <2>1, <2>2 DEF IInv, TypeOK
  <2>4. Ownership'
    <3> HIDE DEF Delivering
    <3>1. QED
      BY <2>1, <2>2 DEF IInv, Ownership
  <2>5. Agreement'
    BY <2>2 DEF IInv, Agreement
  <2>6. Progress'
    BY <2>2 DEF IInv, Progress
  <2>7. ResolverNeverBlocks'
    BY <1>0, <2>1, <2>2 DEF IInv, ResolverNeverBlocks
  <2>8. ToastCleared'
    BY <1>0, <2>1, <2>2 DEF IInv, ToastCleared
  <2>9. QED
    BY <2>3, <2>4, <2>5, <2>6, <2>7, <2>8 DEF IInv
<1>4. ASSUME (\E c \in Conns : CtxCancel(c)) \/ Tick \/ UNCHANGED vars PROVE IInv'
  <2>1. /\ now' \in Nat /\ now <= now' /\ ctxDone' \subseteq Conns \ Background
        /\ UNCHANGED <<store, chans, awaiter, ended, job, sweepNow, audit, toast, answers>>
    BY <1>4 DEF CtxCancel, Tick, vars, IInv, TypeOK
  <2>2. TypeOK'
    BY <2>1 DEF IInv, TypeOK
  <2>3. Ownership'
    BY <2>1 DEF IInv, Ownership
  <2>4. Agreement'
    BY <2>1 DEF IInv, Agreement
  <2>5. Progress'
    BY <2>1 DEF IInv, TypeOK, Progress
  <2>6. ResolverNeverBlocks' /\ ToastCleared'
    BY <2>1 DEF IInv, ResolverNeverBlocks, ToastCleared
  <2>7. QED
    BY <2>2, <2>3, <2>4, <2>5, <2>6 DEF IInv
<1>5. QED
  BY <1>1, <1>2, <1>3, <1>4 DEF Deliver

\* Every step keeps the inductive invariant.
LEMMA NextIInv == IInv /\ [Next]_vars => IInv'
  BY RequestIInv, ClaimIInv, DeliverIInv DEF Next

\* The type invariant, OneStory (all observers agree), ResolverNeverBlocks and
\* ToastCleared hold of every behaviour of the approval layer.
THEOREM ApprovalSafety ==
  Spec => [](TypeOK /\ OneStory /\ ResolverNeverBlocks /\ ToastCleared)
<1>1. IInv => TypeOK /\ OneStory /\ ResolverNeverBlocks /\ ToastCleared
  BY DEF IInv, Agreement, OneStory, Told
<1>2. QED
  BY InitIInv, NextIInv, <1>1, PTL DEF Spec

\* A REST request keeps meaning to approve or to deny until it claims.
LEMMA IntentInv == (Init => Intent) /\ (IInv /\ Intent /\ [Next]_vars => Intent')
<1>1. Init => Intent
  BY DEF Init, Intent, Idle, Actors
<1>2. ASSUME IInv, Intent, [Next]_vars PROVE Intent'
  <2>0. job \in [Actors -> Jobs] /\ Handlers \subseteq Actors
    BY <1>2 DEF IInv, TypeOK, Actors
  <2>1. ASSUME NEW a \in Actions, Request(a) PROVE Intent'
    BY <1>2, <2>1 DEF Intent, Request, Create, InsertSigning, Notify, AwaitResult, AwaitErr,
                      NotifyResolved, AwaitCtx
  <2>2. ASSUME NEW h \in Handlers, NEW a \in Actions, TakePending(h, a) PROVE Intent'
    <3>1. \/ job' = [job EXCEPT ![h] = Idle]
          \/ \E v : job' = [job EXCEPT ![h] = Claimed({a}, v)]
      BY <2>2 DEF TakePending
    <3>2. QED
      BY <1>2, <2>0, <3>1 DEF Intent, Idle, Claimed
  <2>3. ASSUME NEW h \in Handlers, NEW a \in Actions, NEW v \in {"approved", "denied"},
               Lookup(h, a, v) PROVE Intent'
    <3>1. job' = job \/ job' = [job EXCEPT ![h] = Looked(a, v)]
      BY <2>3 DEF Lookup
    <3>2. QED
      BY <1>2, <2>0, <3>1 DEF Intent, Looked
  <2>4. ASSUME NEW c \in Conns, CancelForConnection(c) \/ CtxCancel(c) PROVE Intent'
    <3>1. \/ job' = job \/ job' = [job EXCEPT ![c] = Idle]
          \/ \E S : job' = [job EXCEPT ![c] = Claimed(S, "cancelled")]
      BY <2>4 DEF CancelForConnection, CtxCancel
    <3>2. QED
      BY <1>2, <2>0, <3>1 DEF Intent, Idle, Claimed
  <2>5. ASSUME NEW c \in Conns, NEW a \in Actions, ClearToast(c, a) PROVE Intent'
    BY <1>2, <2>0, <2>5, ApprovalAssumption DEF Intent, ClearToast, Moved, Idle
  <2>6. ASSUME NEW x \in Actors, NEW a \in Actions, Callback(x, a) PROVE Intent'
    BY <1>2, <2>0, <2>6 DEF Intent, Callback, Moved
  <2>7. ASSUME NEW x \in Actors, NEW a \in Actions, EmitResolved(x, a) PROVE Intent'
    BY <1>2, <2>0, <2>7 DEF Intent, EmitResolved, Idle, Moved
  <2>8. CASE SweepStart \/ Sweep \/ Tick \/ UNCHANGED vars
    <3>1. \/ job' = job \/ job' = [job EXCEPT ![Sweeper].step = "sweep"]
          \/ job' = [job EXCEPT ![Sweeper] = Idle]
          \/ \E S : job' = [job EXCEPT ![Sweeper] = Claimed(S, "expired")]
      BY <2>8 DEF SweepStart, Sweep, Tick, vars
    <3>2. QED
      BY <1>2, <2>0, <3>1, ApprovalAssumption DEF Intent, Idle, Claimed
  <2>9. QED
    BY <1>2, <2>1, <2>2, <2>3, <2>4, <2>5, <2>6, <2>7, <2>8 DEF Next, Deliver
<1>3. QED
  BY <1>1, <1>2

\* What the promise sees when one awaiter is released.
LEMMA ReleasedUpdate ==
  ASSUME NEW g, NEW h, NEW a \in Actions, \A b \in Actions \ {a} : h[b] = g[b]
  PROVE  [b \in Actions |-> ReleasedAs(h[b])]
           = [[b \in Actions |-> ReleasedAs(g[b])] EXCEPT ![a] = ReleasedAs(h[a])]
  OBVIOUS

\* One claimed action is the singleton set of decided ones.
LEMMA SingleUpdate ==
  ASSUME NEW T, NEW f \in [Actions -> T], NEW a \in Actions, NEW d
  PROVE  [f EXCEPT ![a] = d] = [b \in Actions |-> IF b \in {a} THEN d ELSE f[b]]
  OBVIOUS

\* Each step of the layer is a step of the promise or leaves it unchanged.
LEMMA StepKeepsPromise ==
  IInv /\ Intent /\ [Next]_vars => [Promise!Next]_Promise!vars
<1> SUFFICES ASSUME IInv, Intent, [Next]_vars PROVE [Promise!Next]_Promise!vars
  OBVIOUS
<1> USE DEF store, chans, awaiter, Promise!vars
<1>0. /\ now \in Nat /\ sweepNow \in Nat /\ sweepNow <= now
      /\ status \in [Actions -> {"none", "pending"} \cup Terminal]
      /\ expires \in [Actions -> Nat] /\ registered \subseteq Actions
      /\ got \in [Actions -> Verdicts \cup {"none", "ctx"}]
      /\ job \in [Actors -> Jobs]
  BY DEF IInv, TypeOK, Progress
<1>1. ASSUME NEW a \in Actions, Request(a) PROVE [Promise!Next]_Promise!vars
  <2>1. CASE Create(a)
    <3>1. Promise!Request(a)
      BY <1>0, <2>1 DEF IInv, TypeOK, Progress, Create, Promise!Request
    <3>2. QED
      BY <3>1 DEF Promise!Next
  <2>2. CASE AwaitResult(a) \/ AwaitErr(a)
    <3>1. got[a] = "none" /\ got'[a] \in Verdicts /\ status[a] = StatusOf(got'[a])
      BY <2>2 DEF IInv, TypeOK, Agreement, Progress, AwaitResult, AwaitErr, StatusOf
    <3>2. /\ status[a] \in Promise!Decided
          /\ \A b \in Actions \ {a} : got'[b] = got[b]
          /\ UNCHANGED <<now, status, expires>>
      BY <1>0, <2>2, <3>1, StatusOfType DEF AwaitResult, AwaitErr, Promise!Decided
    <3>3. Promise!Release(a)
      <4>1. ReleasedAs(got[a]) = "none" /\ ReleasedAs(got'[a]) = status[a]
        BY <3>1 DEF ReleasedAs, StatusOf
      <4>2. [b \in Actions |-> ReleasedAs(got'[b])]
              = [[b \in Actions |-> ReleasedAs(got[b])] EXCEPT ![a] = status[a]]
        BY <3>2, <4>1, ReleasedUpdate
      <4>3. QED
        BY <3>2, <4>1, <4>2 DEF Promise!Release
    <3>4. QED
      BY <3>3 DEF Promise!Next
  <2>3. CASE AwaitCtx(a)
    <3>0. got[a] = "none" /\ status[a] # "none"
      BY <2>3 DEF IInv, Progress, AwaitCtx
    <3>1. Promise!GiveUp(a)
      <4>1. ReleasedAs(got[a]) = "none" /\ ReleasedAs(got'[a]) = "gaveup"
        BY <1>0, <2>3, <3>0 DEF AwaitCtx, ReleasedAs, StatusOf
      <4>2. \A b \in Actions \ {a} : got'[b] = got[b]
        BY <1>0, <2>3 DEF AwaitCtx
      <4>3. [b \in Actions |-> ReleasedAs(got'[b])]
              = [[b \in Actions |-> ReleasedAs(got[b])] EXCEPT ![a] = "gaveup"]
        BY <4>1, <4>2, ReleasedUpdate
      <4>4. QED
        BY <2>3, <3>0, <4>1, <4>3 DEF AwaitCtx, Promise!GiveUp
    <3>2. QED
      BY <3>1 DEF Promise!Next
  <2>4. CASE InsertSigning(a) \/ Notify(a) \/ NotifyResolved(a)
    BY <2>4 DEF InsertSigning, Notify, NotifyResolved
  <2>5. QED
    BY <1>1, <2>1, <2>2, <2>3, <2>4 DEF Request
<1>2. ASSUME NEW h \in Handlers, NEW a \in Actions, TakePending(h, a)
      PROVE [Promise!Next]_Promise!vars
  <2>1. CASE a \in registered /\ status[a] = "pending"
    <3> DEFINE d == StatusOf(IF expires[a] <= now THEN "expired" ELSE job[h].verdict)
    <3>1. d \in Promise!Decided
      BY <1>0, <2>1, <1>2, StatusOfType DEF Jobs, Actors, Promise!Decided
    <3>2. Promise!Decide({a}, d)
      <4>1. status' = [status EXCEPT ![a] = d] /\ UNCHANGED <<now, expires, got>>
        BY <2>1, <1>2 DEF TakePending
      <4>2. d = "expired" => expires[a] <= now
        BY <1>2 DEF TakePending, StatusOf, Intent
      <4>3. d = "completed" => now < expires[a]
        BY <1>0 DEF StatusOf
      <4>4. QED
        <5> HIDE DEF d
        <5>1. status' = [b \in Actions |-> IF b \in {a} THEN d ELSE status[b]]
          BY <1>0, <4>1, SingleUpdate
        <5>2. QED
          BY <2>1, <4>1, <4>2, <4>3, <5>1 DEF Promise!Decide
    <3>3. QED
      BY <3>1, <3>2 DEF Promise!Next
  <2>2. CASE ~(a \in registered /\ status[a] = "pending")
    BY <2>2, <1>2 DEF TakePending
  <2>3. QED
    BY <1>0, <2>1, <2>2, StatusOfType
<1>3. ASSUME NEW c \in Conns, CancelForConnection(c) PROVE [Promise!Next]_Promise!vars
  <2> DEFINE S == {a \in registered : status[a] = "pending" /\ ConnOf[a] = c}
  <2>1. Promise!Decide(S, "denied")
    BY <1>0, <1>3 DEF CancelForConnection, Promise!Decide
  <2>2. S \in SUBSET Actions /\ "denied" \in Promise!Decided
    BY <1>0 DEF Promise!Decided
  <2>3. QED
    BY <2>1, <2>2 DEF Promise!Next
<1>4. CASE Sweep
  <2> DEFINE S == {a \in registered : status[a] = "pending" /\ expires[a] <= sweepNow}
  <2>1. Promise!Decide(S, "expired")
    BY <1>0, <1>4 DEF Sweep, Promise!Decide
  <2>2. S \in SUBSET Actions /\ "expired" \in Promise!Decided
    BY <1>0 DEF Promise!Decided
  <2>3. QED
    BY <2>1, <2>2 DEF Promise!Next
<1>5. CASE Tick
  BY <1>5 DEF Tick, Promise!Next, Promise!Tick
<1>6. ASSUME NEW x \in Actors, NEW a \in Actions, Callback(x, a) \/ EmitResolved(x, a)
      PROVE UNCHANGED Promise!vars
  BY <1>6 DEF Callback, EmitResolved
<1>7. ASSUME NEW c \in Conns, NEW a \in Actions, ClearToast(c, a)
      PROVE UNCHANGED Promise!vars
  BY <1>7 DEF ClearToast
<1>8. ASSUME NEW h \in Handlers, NEW a \in Actions, NEW v \in Verdicts, Lookup(h, a, v)
      PROVE UNCHANGED Promise!vars
  BY <1>8 DEF Lookup
<1>9. ASSUME NEW c \in Conns, CtxCancel(c) PROVE UNCHANGED Promise!vars
  BY <1>9 DEF CtxCancel
<1>10. CASE SweepStart \/ UNCHANGED vars
  BY <1>10 DEF SweepStart, vars
<1>11. QED
  BY <1>1, <1>2, <1>3, <1>4, <1>5, <1>6, <1>7, <1>8, <1>9, <1>10 DEF Next, Deliver

\* The layer implements its promise: one decision per request, an approval only
\* before the deadline, an expiry only after it, a release that tells it.
THEOREM ApprovalKeepsPromise == Spec => KeepsPromise
<1>1. Init => Promise!Init
  BY DEF Init, Promise!Init, ReleasedAs, StatusOf
<1>2. QED
  BY InitIInv, NextIInv, IntentInv, StepKeepsPromise, <1>1, PTL
     DEF Spec, KeepsPromise, Promise!Spec
=============================================================================
