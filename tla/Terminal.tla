------------------------------ MODULE Terminal ------------------------------
(***************************************************************************)
(* The lifecycle of terminal sessions: terminal.Manager's registry and its *)
(* single lock, the goroutines that run on a session (Create, the pump and *)
(* any number of Close calls), the SSH transport under it, and the audit   *)
(* row its status hooks write.                                             *)
(*                                                                         *)
(* One action is one critical section of Manager.mu or one call made       *)
(* outside it. Status hooks run after the unlock, so a thread that changed *)
(* a status carries the event until its own "hook" step delivers it.       *)
(***************************************************************************)
EXTENDS Naturals, Sequences, FiniteSets

CONSTANTS
  Sessions,     \* session ids; each is created at most once
  Callers,      \* who may call Close: a subset of AllCallers
  OfAccount,    \* sessions of the account that gets deleted
  OfClient,     \* MCP sessions of the client whose consent is revoked
  MaxData       \* bound on the chunks a transport delivers

AllCallers == {"user", "idle", "revoke", "account", "destroy"}

ASSUME TerminalAssumption ==
  /\ Callers \subseteq AllCallers /\ OfAccount \subseteq Sessions /\ OfClient \subseteq Sessions
  /\ MaxData \in Nat

Threads == {"create", "pump"} \cup Callers

VARIABLES
  registered,   \* the keys of Manager.terminals
  destroyed,    \* Manager.destroyed
  status,       \* status[s]: Session.Status, "none" before Create
  reason,       \* reason[s]: Session.CloseReason, "" when not stamped
  adopted,      \* sessions with a non-nil managed.transport
  cancelled,    \* sessions whose setup context is cancelled
  abandoned,    \* sessions whose pump Close gave up joining
  stale,        \* sessions idle longer than idleTimeout
  at,           \* at[t][s]: where thread t is in its work on s
  ev,           \* ev[t][s]: the status event thread t has yet to deliver
  call,         \* call[k]: where caller k is outside its Close calls
  stream,       \* stream[s]: the transport's event stream
  shut,         \* sessions whose transport was told to Close
  sent, taken,  \* sent[s], taken[s]: chunks emitted, chunks the pump received
  buf,          \* buf[s]: chunks in the OutputBuffer
  removals,     \* removals[s]: removed hooks fired
  heard,        \* heard[s]: the events a subscriber was told, in order
  audit         \* audit[s]: the row of audit_session_lifecycle

session == <<status, reason>>
transport == <<stream, shut, sent>>
vars == <<registered, destroyed, session, adopted, cancelled, abandoned, stale, at, ev, call,
          transport, taken, buf, removals, heard, audit>>

Statuses == {"none", "opening", "open", "closing", "closed", "error"}
Reasons == {"", "server-hangup", "transport-error"} \cup AllCallers
Events == [status : Statuses, prev : Statuses, reason : Reasons]
NoEvent == [status |-> "none", prev |-> "none", reason |-> ""]
NoRow == [status |-> "none", reason |-> ""]

Steps == {"off", "new", "factory", "opened", "failed", "aborted", "start",
          "recv", "append", "notify",
          "get", "begin", "read", "shut", "join",
          "hook", "final", "remove", "removed", "done"}

TypeOK ==
  /\ registered \subseteq Sessions /\ destroyed \in BOOLEAN
  /\ status \in [Sessions -> Statuses] /\ reason \in [Sessions -> Reasons]
  /\ adopted \subseteq Sessions /\ cancelled \subseteq Sessions
  /\ abandoned \subseteq Sessions /\ stale \subseteq Sessions /\ shut \subseteq Sessions
  /\ at \in [Threads -> [Sessions -> Steps]]
  /\ ev \in [Threads -> [Sessions -> Events]]
  /\ call \in [Callers -> {"ready", "closing", "purging", "returned"}]
  /\ stream \in [Sessions -> {"none", "live", "err", "closed", "eof"}]
  /\ sent \in [Sessions -> 0..MaxData] /\ taken \in [Sessions -> 0..MaxData]
  /\ buf \in [Sessions -> 0..MaxData] /\ removals \in [Sessions -> Nat]
  /\ heard \in [Sessions -> Seq(Events)]
  /\ audit \in [Sessions -> [status : {"none", "open", "closed", "error"}, reason : Reasons]]

Init ==
  /\ registered = {} /\ destroyed = FALSE
  /\ status = [s \in Sessions |-> "none"] /\ reason = [s \in Sessions |-> ""]
  /\ adopted = {} /\ cancelled = {} /\ abandoned = {} /\ stale = {} /\ shut = {}
  /\ at = [t \in Threads |-> [s \in Sessions |-> IF t = "create" THEN "new" ELSE "off"]]
  /\ ev = [t \in Threads |-> [s \in Sessions |-> NoEvent]]
  /\ call = [k \in Callers |-> "ready"]
  /\ stream = [s \in Sessions |-> "none"]
  /\ sent = [s \in Sessions |-> 0] /\ taken = [s \in Sessions |-> 0]
  /\ buf = [s \in Sessions |-> 0] /\ removals = [s \in Sessions |-> 0]
  /\ heard = [s \in Sessions |-> <<>>]
  /\ audit = [s \in Sessions |-> NoRow]

Goto(t, s, step) == at' = [at EXCEPT ![t][s] = step]

-----------------------------------------------------------------------------
(* Status transitions and their hooks, shared by all threads.              *)

\* Where thread t goes once the hooks of a transition to st have run.
After(t, st) ==
  IF st = "open" THEN "start"
  ELSE IF st = "closing" THEN "read"
  ELSE IF t = "pump" THEN "done" ELSE "remove"

\* The transition itself: the first non-empty reason is kept, and the event,
\* which carries the reason stamped by then, waits.
Become(t, s, st, r) ==
  LET kept == IF reason[s] = "" THEN r ELSE reason[s]
  IN /\ status' = [status EXCEPT ![s] = st]
     /\ reason' = [reason EXCEPT ![s] = kept]
     /\ ev' = [ev EXCEPT ![t][s] = [status |-> st, prev |-> status[s], reason |-> kept]]
     /\ Goto(t, s, "hook")

\* Mutant: an Open is not absorbed by closing.
SetStatusReopens(t, s, st, r) ==
  IF status[s] \in {st, "closed", "error"}
    THEN UNCHANGED <<session, ev>> /\ Goto(t, s, After(t, st))
    ELSE Become(t, s, st, r)

\* setStatus: closed and error are absorbing, and closing absorbs an Open.
SetStatus(t, s, st, r) ==
  IF status[s] \in {st, "closed", "error"} \/ (status[s] = "closing" /\ st = "open")
    THEN UNCHANGED <<session, ev>> /\ Goto(t, s, After(t, st))
    ELSE Become(t, s, st, r)

\* Mutant: recordClose rewrites a row that has its closed_at already.
RecordedAgain(e, s) ==
  IF e.status \in {"open", "closing"}
    THEN IF e.prev = "opening" /\ s \in registered
           THEN [status |-> "open", reason |-> ""] ELSE audit[s]
    ELSE IF audit[s] # NoRow
           THEN [status |-> e.status, reason |-> e.reason] ELSE audit[s]

\* handleSessionStatus: INSERT on the event that leaves opening, if the session
\* is still in the registry; UPDATE, with the event's own status and reason, of
\* a row that has no closed_at yet.
Recorded(e, s) ==
  IF e.status \in {"open", "closing"}
    THEN IF e.prev = "opening" /\ s \in registered
           THEN [status |-> "open", reason |-> ""] ELSE audit[s]
    ELSE IF audit[s].status = "open"
           THEN [status |-> e.status, reason |-> e.reason] ELSE audit[s]

\* The hooks of t's transition run, outside the lock.
Hook(t, s) ==
  /\ at[t][s] = "hook"
  /\ heard' = [heard EXCEPT ![s] = Append(@, ev[t][s])]
  /\ audit' = [audit EXCEPT ![s] = Recorded(ev[t][s], s)]
  /\ ev' = [ev EXCEPT ![t][s] = NoEvent]
  /\ Goto(t, s, After(t, ev[t][s].status))
  /\ UNCHANGED <<registered, destroyed, session, adopted, cancelled, abandoned, stale, call,
                 transport, taken, buf, removals>>

\* Mutant: the removed hooks fire whoever performed the delete.
RemoveEntryTwice(t, s) ==
  /\ at[t][s] = "remove"
  /\ buf' = [buf EXCEPT ![s] = IF s \in registered THEN 0 ELSE @]
  /\ registered' = registered \ {s}
  /\ Goto(t, s, "removed")
  /\ UNCHANGED <<destroyed, session, adopted, cancelled, abandoned, stale, ev, call, transport,
                 taken, removals, heard, audit>>

\* removeEntry: clear and delete in one section; only the deleter goes on to
\* fire the removed hooks.
RemoveEntry(t, s) ==
  /\ at[t][s] = "remove"
  /\ buf' = [buf EXCEPT ![s] = IF s \in registered THEN 0 ELSE @]
  /\ registered' = registered \ {s}
  /\ Goto(t, s, IF s \in registered THEN "removed" ELSE "done")
  /\ UNCHANGED <<destroyed, session, adopted, cancelled, abandoned, stale, ev, call, transport,
                 taken, removals, heard, audit>>

RemovedHook(t, s) ==
  /\ at[t][s] = "removed"
  /\ removals' = [removals EXCEPT ![s] = @ + 1]
  /\ Goto(t, s, "done")
  /\ UNCHANGED <<registered, destroyed, session, adopted, cancelled, abandoned, stale, ev, call,
                 transport, taken, buf, heard, audit>>

-----------------------------------------------------------------------------
(* Create.                                                                 *)

\* Mutant: the session is registered with the zero status.
RegisterUnset(s) ==
  /\ at["create"][s] = "new"
  /\ IF destroyed
       THEN Goto("create", s, "done") /\ UNCHANGED <<registered, status>>
       ELSE /\ registered' = registered \cup {s}
            /\ status' = [status EXCEPT ![s] = ""]
            /\ Goto("create", s, "factory")
  /\ UNCHANGED <<destroyed, reason, adopted, cancelled, abandoned, stale, ev, call, transport,
                 taken, buf, removals, heard, audit>>

\* Create registers the session before it connects, unless Destroy ran.
Register(s) ==
  /\ at["create"][s] = "new"
  /\ IF destroyed
       THEN Goto("create", s, "done") /\ UNCHANGED <<registered, status>>
       ELSE /\ registered' = registered \cup {s}
            /\ status' = [status EXCEPT ![s] = "opening"]
            /\ Goto("create", s, "factory")
  /\ UNCHANGED <<destroyed, reason, adopted, cancelled, abandoned, stale, ev, call, transport,
                 taken, buf, removals, heard, audit>>

\* Mutant: the abort check is left to setStatus.
AdoptUnchecked(s) ==
  /\ at["create"][s] = "factory"
  /\ \/ Goto("create", s, "failed") /\ UNCHANGED <<adopted, stream>>
     \/ /\ stream' = [stream EXCEPT ![s] = "live"]
        /\ adopted' = adopted \cup {s} /\ Goto("create", s, "opened")
  /\ UNCHANGED <<registered, destroyed, session, cancelled, abandoned, stale, ev, call, shut,
                 sent, taken, buf, removals, heard, audit>>

\* The factory returns, with an error or with a transport (even after a
\* cancellation it outran); adoption and the abort check are one section.
Adopt(s) ==
  /\ at["create"][s] = "factory"
  /\ \/ Goto("create", s, "failed") /\ UNCHANGED <<adopted, stream>>
     \/ /\ stream' = [stream EXCEPT ![s] = "live"]
        /\ IF status[s] # "opening"
             THEN Goto("create", s, "aborted") /\ UNCHANGED adopted
             ELSE adopted' = adopted \cup {s} /\ Goto("create", s, "opened")
  /\ UNCHANGED <<registered, destroyed, session, cancelled, abandoned, stale, ev, call, shut,
                 sent, taken, buf, removals, heard, audit>>

\* setStatus(Open), before the pump starts.
Open(s) ==
  /\ at["create"][s] = "opened"
  /\ SetStatus("create", s, "open", "")
  /\ UNCHANGED <<registered, destroyed, adopted, cancelled, abandoned, stale, call, transport,
                 taken, buf, removals, heard, audit>>

StartPump(s) ==
  /\ at["create"][s] = "start"
  /\ at' = [at EXCEPT !["create"][s] = "done", !["pump"][s] = "recv"]
  /\ UNCHANGED <<registered, destroyed, session, adopted, cancelled, abandoned, stale, ev, call,
                 transport, taken, buf, removals, heard, audit>>

\* The last setStatus(Closed): of a failed or aborted Create, or of Close.
Final(t, s) ==
  /\ \/ at[t][s] = "failed" /\ SetStatus(t, s, "closed", "transport-error")
     \/ at[t][s] = "final" /\ SetStatus(t, s, "closed", IF t = "create" THEN "" ELSE t)
  /\ UNCHANGED <<registered, destroyed, adopted, cancelled, abandoned, stale, call, transport,
                 taken, buf, removals, heard, audit>>

-----------------------------------------------------------------------------
(* The pump.                                                               *)

\* Mutant: the pump does not look at abandoned.
PumpRecvAll(s) ==
  /\ at["pump"][s] = "recv" /\ taken[s] < sent[s]
  /\ taken' = [taken EXCEPT ![s] = @ + 1]
  /\ Goto("pump", s, "append")
  /\ UNCHANGED <<registered, destroyed, session, adopted, cancelled, abandoned, stale, ev, call,
                 transport, buf, removals, heard, audit>>

\* A data event: dropped when Close gave up on the pump.
PumpRecv(s) ==
  /\ at["pump"][s] = "recv" /\ taken[s] < sent[s]
  /\ taken' = [taken EXCEPT ![s] = @ + 1]
  /\ IF s \in abandoned THEN UNCHANGED at ELSE Goto("pump", s, "append")
  /\ UNCHANGED <<registered, destroyed, session, adopted, cancelled, abandoned, stale, ev, call,
                 transport, buf, removals, heard, audit>>

PumpAppend(s) ==
  /\ at["pump"][s] = "append"
  /\ buf' = [buf EXCEPT ![s] = @ + 1]
  /\ Goto("pump", s, "notify")
  /\ UNCHANGED <<registered, destroyed, session, adopted, cancelled, abandoned, stale, ev, call,
                 transport, taken, removals, heard, audit>>

\* LastActivityAt is stamped and the output subscribers are notified.
PumpNotify(s) ==
  /\ at["pump"][s] = "notify"
  /\ stale' = stale \ {s}
  /\ Goto("pump", s, "recv")
  /\ UNCHANGED <<registered, destroyed, session, adopted, cancelled, abandoned, ev, call,
                 transport, taken, buf, removals, heard, audit>>

\* An Err or Closed event, or the closed channel, after all the data. reasonOr
\* only falls back when no reason is stamped, which is what SetStatus does.
PumpEnd(s) ==
  /\ at["pump"][s] = "recv" /\ taken[s] = sent[s]
  /\ \/ stream[s] = "err" /\ SetStatus("pump", s, "error", "transport-error")
     \/ stream[s] \in {"closed", "eof"} /\ SetStatus("pump", s, "closed", "server-hangup")
  /\ UNCHANGED <<registered, destroyed, adopted, cancelled, abandoned, stale, call, transport,
                 taken, buf, removals, heard, audit>>

-----------------------------------------------------------------------------
(* Close.                                                                  *)

\* get, then beginClosing: two sections.
CloseGet(k, s) ==
  /\ at[k][s] = "get"
  /\ Goto(k, s, IF s \in registered THEN "begin" ELSE "done")
  /\ UNCHANGED <<registered, destroyed, session, adopted, cancelled, abandoned, stale, ev, call,
                 transport, taken, buf, removals, heard, audit>>

BeginClosing(k, s) ==
  /\ at[k][s] = "begin"
  /\ IF status[s] \in {"closed", "closing"}
       THEN UNCHANGED <<session, ev>> /\ Goto(k, s, "done")
       ELSE Become(k, s, "closing", k)
  /\ UNCHANGED <<registered, destroyed, adopted, cancelled, abandoned, stale, call, transport,
                 taken, buf, removals, heard, audit>>

\* No transport: cancel the setup and leave the rest to Create's tail.
ReadTransport(k, s) ==
  /\ at[k][s] = "read"
  /\ IF s \in adopted
       THEN Goto(k, s, "shut") /\ UNCHANGED cancelled
       ELSE Goto(k, s, "done") /\ cancelled' = cancelled \cup {s}
  /\ UNCHANGED <<registered, destroyed, session, adopted, abandoned, stale, ev, call, transport,
                 taken, buf, removals, heard, audit>>

\* transport.Close(), by Close or by an aborted Create.
ShutTransport(t, s) ==
  /\ \/ at[t][s] = "shut" /\ Goto(t, s, "join")
     \/ at[t][s] = "aborted" /\ Goto(t, s, "final")
  /\ shut' = shut \cup {s}
  /\ UNCHANGED <<registered, destroyed, session, adopted, cancelled, abandoned, stale, ev, call,
                 stream, sent, taken, buf, removals, heard, audit>>

\* Mutant: Close does not wait for the pump.
JoinNever(k, s) ==
  /\ at[k][s] = "join"
  /\ Goto(k, s, "final")
  /\ UNCHANGED <<registered, destroyed, session, adopted, cancelled, abandoned, stale, ev, call,
                 transport, taken, buf, removals, heard, audit>>

\* Mutant: the wait for the pump has no timeout.
JoinForever(k, s) ==
  /\ at[k][s] = "join" /\ at["pump"][s] = "done"
  /\ Goto(k, s, "final")
  /\ UNCHANGED <<registered, destroyed, session, adopted, cancelled, abandoned, stale, ev, call,
                 transport, taken, buf, removals, heard, audit>>

\* The select on pumpDone and the join timeout. A slow pump, one that Create
\* has not started yet included, may lose to the timer.
Join(k, s) ==
  /\ at[k][s] = "join"
  /\ \/ at["pump"][s] = "done" /\ UNCHANGED abandoned
     \/ abandoned' = abandoned \cup {s}
  /\ Goto(k, s, "final")
  /\ UNCHANGED <<registered, destroyed, session, adopted, cancelled, stale, ev, call, transport,
                 taken, buf, removals, heard, audit>>

-----------------------------------------------------------------------------
(* Who closes: each takes its snapshot under the lock, then closeAll runs  *)
(* one Close per id and waits for all of them.                             *)

\* Caller k starts closing the sessions of ids.
CloseAll(k, ids) ==
  /\ k \in Callers /\ call[k] = "ready"
  /\ call' = [call EXCEPT ![k] = "closing"]
  /\ at' = [at EXCEPT ![k] = [s \in Sessions |-> IF s \in ids THEN "get" ELSE "off"]]
  /\ UNCHANGED <<registered, session, adopted, cancelled, abandoned, stale, ev, transport, taken,
                 buf, removals, heard, audit>>

\* A REST, WebSocket or MCP request closes one listed session.
CloseSession(s) == s \in registered /\ CloseAll("user", {s}) /\ UNCHANGED destroyed

\* One tick of RunIdleJanitor: the open sessions without recent activity.
SweepIdle ==
  /\ \E s \in registered \cap stale : status[s] = "open"
  /\ CloseAll("idle", {s \in registered \cap stale : status[s] = "open"})
  /\ UNCHANGED destroyed

\* CloseAllForClient, on consent revocation.
CloseAllForClient ==
  /\ \E s \in registered \cap OfClient : status[s] # "closed"
  /\ CloseAll("revoke", {s \in registered \cap OfClient : status[s] # "closed"})
  /\ UNCHANGED destroyed

CloseAllForAccount ==
  /\ CloseAll("account", {s \in registered \cap OfAccount : status[s] # "closed"})
  /\ UNCHANGED destroyed

\* Mutant: the flag is set after the snapshot's section.
DestroyUnmarked ==
  CloseAll("destroy", registered) /\ UNCHANGED destroyed

\* Destroy marks the manager and takes the snapshot in one section.
Destroy == CloseAll("destroy", registered) /\ destroyed' = TRUE

\* closeAll returns; only account deletion goes on.
CloseAllReturns(k) ==
  /\ call[k] = "closing" /\ \A s \in Sessions : at[k][s] \in {"off", "done"}
  /\ call' = [call EXCEPT ![k] =
                 IF k = "account" THEN "purging"
                 ELSE IF k = "destroy" THEN "returned" ELSE "ready"]
  /\ at' = [at EXCEPT ![k] = [s \in Sessions |-> "off"]]
  /\ UNCHANGED <<registered, destroyed, session, adopted, cancelled, abandoned, stale, ev,
                 transport, taken, buf, removals, heard, audit>>

\* Mutant: only the sessions that failed are dropped.
RemoveForAccountErrored ==
  LET ids == {s \in registered \cap OfAccount : status[s] = "error"}
  IN /\ "account" \in Callers /\ call["account"] = "purging"
     /\ buf' = [s \in Sessions |-> IF s \in ids THEN 0 ELSE buf[s]]
     /\ registered' = registered \ ids
     /\ at' = [at EXCEPT !["account"] =
                  [s \in Sessions |-> IF s \in ids THEN "removed" ELSE "off"]]
     /\ call' = [call EXCEPT !["account"] = "returned"]
     /\ UNCHANGED <<destroyed, session, adopted, cancelled, abandoned, stale, ev, transport,
                    taken, removals, heard, audit>>

\* RemoveForAccount drops the retained post-mortem sessions.
RemoveForAccount ==
  LET ids == {s \in registered \cap OfAccount : status[s] \in {"closed", "error"}}
  IN /\ "account" \in Callers /\ call["account"] = "purging"
     /\ buf' = [s \in Sessions |-> IF s \in ids THEN 0 ELSE buf[s]]
     /\ registered' = registered \ ids
     /\ at' = [at EXCEPT !["account"] =
                  [s \in Sessions |-> IF s \in ids THEN "removed" ELSE "off"]]
     /\ call' = [call EXCEPT !["account"] = "returned"]
     /\ UNCHANGED <<destroyed, session, adopted, cancelled, abandoned, stale, ev, transport,
                    taken, removals, heard, audit>>

-----------------------------------------------------------------------------
(* The environment: the transport, input and time.                         *)

\* A pipe emits a chunk. After Close a send that already passed emit's check
\* may still land.
TransportData(s) ==
  /\ stream[s] = "live" /\ sent[s] < MaxData
  /\ sent' = [sent EXCEPT ![s] = @ + 1]
  /\ UNCHANGED <<registered, destroyed, session, adopted, cancelled, abandoned, stale, at, ev,
                 call, stream, shut, taken, buf, removals, heard, audit>>

\* Both pipes are done: one final event unless Close came first, then the
\* channel is closed. A wedged transport never gets here.
TransportEnd(s) ==
  /\ stream[s] = "live"
  /\ \E e \in (IF s \in shut THEN {"eof"} ELSE {"err", "closed"}) :
       stream' = [stream EXCEPT ![s] = e]
  /\ UNCHANGED <<registered, destroyed, session, adopted, cancelled, abandoned, stale, at, ev,
                 call, shut, sent, taken, buf, removals, heard, audit>>

SendInput(s) ==
  /\ s \in registered \cap stale /\ status[s] = "open" /\ s \notin shut
  /\ stale' = stale \ {s}
  /\ UNCHANGED <<registered, destroyed, session, adopted, cancelled, abandoned, at, ev, call,
                 transport, taken, buf, removals, heard, audit>>

\* idleTimeout passes without activity.
GrowStale(s) ==
  /\ s \in registered \ stale /\ "idle" \in Callers
  /\ stale' = stale \cup {s}
  /\ UNCHANGED <<registered, destroyed, session, adopted, cancelled, abandoned, at, ev, call,
                 transport, taken, buf, removals, heard, audit>>

Create(s) == Adopt(s) \/ Open(s) \/ StartPump(s)
Pump(s) == PumpRecv(s) \/ PumpAppend(s) \/ PumpNotify(s) \/ PumpEnd(s)
Close(k, s) == CloseGet(k, s) \/ BeginClosing(k, s) \/ ReadTransport(k, s) \/ Join(k, s)
Common(t, s) ==
  Hook(t, s) \/ Final(t, s) \/ ShutTransport(t, s) \/ RemoveEntry(t, s) \/ RemovedHook(t, s)

Next ==
  \/ \E s \in Sessions :
       \/ Register(s) \/ Create(s) \/ Pump(s) \/ CloseSession(s)
       \/ TransportData(s) \/ TransportEnd(s) \/ SendInput(s) \/ GrowStale(s)
  \/ \E k \in Callers : CloseAllReturns(k) \/ \E s \in Sessions : Close(k, s)
  \/ \E t \in Threads, s \in Sessions : Common(t, s)
  \/ SweepIdle \/ CloseAllForClient \/ CloseAllForAccount \/ RemoveForAccount \/ Destroy

Spec == Init /\ [][Next]_vars

\* Goroutines run on, a cancelled factory returns and the janitor's ticker
\* fires. Nothing is owed by the transport: it may be wedged for ever.
Fairness ==
  /\ \A s \in Sessions :
       /\ WF_vars(s \in cancelled /\ Adopt(s)) /\ WF_vars(Open(s) \/ StartPump(s))
       /\ WF_vars(Pump(s))
       /\ \A k \in Callers : WF_vars(Close(k, s))
       /\ \A t \in Threads : WF_vars(Common(t, s))
  /\ \A k \in Callers : WF_vars(CloseAllReturns(k))
  /\ WF_vars(RemoveForAccount) /\ WF_vars(SweepIdle)

FairSpec == Spec /\ Fairness

-----------------------------------------------------------------------------
(* Properties.                                                             *)

\* A dead session never comes back and never changes its story: closed is
\* final, a session that left opening for anything but open is never open
\* afterwards, and the first close reason stays, whichever of Create, the pump
\* and concurrent Close calls get there first (setStatus: "a dead session
\* resurrecting").
NoResurrection ==
  [][\A s \in Sessions :
       /\ status[s] = "closed" => status'[s] = "closed"
       /\ status[s] \in {"closing", "error"} => status'[s] \in {"closing", "closed", "error"}
       /\ status[s] # "none" => status'[s] # "none"
       /\ reason[s] # "" => reason'[s] = reason[s]]_vars

\* No live SSH connection is left without an owner: while a transport runs and
\* was not told to close, its session is registered and up, or a thread is on
\* its way to close it (Create: "the transport must not be adopted after that,
\* or nothing would close it").
NoOrphanTransport ==
  \A s \in Sessions : stream[s] = "live" /\ s \notin shut =>
    \/ s \in registered /\ status[s] \in {"opening", "open"}
    \/ at["create"][s] = "aborted"
    \/ \E k \in Callers : at[k][s] \in {"hook", "read", "shut"}

\* The final status is only reached with the whole output in the buffer: unless
\* Close gave up on a wedged pump, every chunk the transport delivered has been
\* appended and notified before closed or error (Close: "always see the complete
\* buffer").
TailComplete ==
  \A s \in adopted \ abandoned : status[s] \in {"closed", "error"} =>
    /\ taken[s] = sent[s] /\ stream[s] # "live"
    /\ at["pump"][s] \notin {"append", "notify"}

\* An abandoned pump holds on to at most the one chunk it had in hand after the
\* session's buffer was cleared and removed.
RefillBounded ==
  \A s \in Sessions : s \notin registered => buf[s] <= 1

\* Subscribers of removal are told once per session, however Close, a failed
\* Create and account deletion race to delete it ("each removal must notify
\* exactly once").
RemovedOnce == \A s \in Sessions : removals[s] <= 1

\* Once Destroy has returned no session is open or connecting, nor becomes so
\* ("no session can be created after Destroy").
DestroyFinal ==
  "destroy" \in Callers /\ call["destroy"] = "returned" =>
    \A s \in Sessions : status[s] \notin {"opening", "open"}

\* Every thread of the program is done with a session that ended.
Settled(s) ==
  /\ status[s] \in {"closed", "error"} /\ at["create"][s] = "done"
  /\ at["pump"][s] \in {"off", "done"} /\ \A k \in Callers : at[k][s] \in {"off", "done"}

\* The audit row of a session is closed with the session's one close reason,
\* once every thread is done with it, whether the open event inserted the row or
\* a closing in the middle of Create did. It tells how the session first ended: a
\* session that failed and was closed later stays "error", for recordClose does
\* not rewrite a row that has its closed_at. Outside are sessions whose pump
\* Close gave up on, and those of which the writer heard an end before the
\* closing that inserts the row (EventsOrdered and SessionAudited below).
AuditBalanced ==
  \A s \in Sessions \ abandoned :
    LET told == {heard[s][i].status : i \in 1..Len(heard[s])}
        inserted == \E i \in 1..Len(heard[s]) :
                      /\ heard[s][i].prev = "opening" /\ heard[s][i].status # "closed"
                      /\ \/ heard[s][i].status = "open"
                         \/ \A j \in 1..i : heard[s][j].status = "closing"
    IN Settled(s) /\ inserted =>
         audit[s] = [status |-> IF "error" \in told THEN "error" ELSE "closed",
                     reason |-> reason[s]]

\* Every Close returns, with a wedged transport too: the janitor, shutdown and
\* the caller of REST delete are never stuck behind a pump (closeJoinTimeout).
CloseReturns ==
  \A k \in Callers, s \in Sessions : at[k][s] = "get" ~> at[k][s] \in {"off", "done"}

\* A session that started closing ends, whether its transport is wedged, still
\* connecting, or dying at the same time.
ClosingEnds ==
  \A s \in Sessions : status[s] = "closing" ~> status[s] \in {"closed", "error"}

\* Account deletion takes out of memory every session it found: the ones it
\* closes, the retained ones, and the ones somebody else is closing (accountDeleted:
\* "a deleted account's terminal output must not stay readable in memory").
PurgeComplete ==
  \A s \in OfAccount :
    (/\ "account" \in Callers /\ call["account"] = "closing" /\ s \in registered
     /\ at["account"][s] = "get" \/ status[s] = "closed")
      ~> s \notin registered

\* An idle session does not stay open. The janitor waits for the whole batch of
\* a sweep before the next one, so a session that goes idle meanwhile depends on
\* every Close of that batch returning, wedged transports included (SweepIdle,
\* closeAll, closeJoinTimeout). Two sessions are the least that show it.
IdleReaped ==
  \A s \in Sessions : (s \in registered \cap stale /\ status[s] = "open")
    ~> (status[s] # "open" \/ s \notin stale)

-----------------------------------------------------------------------------
(* What the repository says and the code does not keep.                    *)

\* StatusEvent "is emitted on every status transition (guaranteed, ordered)".
\* Hooks run after the unlock: two threads may deliver in the other order.
EventsOrdered ==
  LET rank == [opening |-> 0, open |-> 1, error |-> 2, closing |-> 3, closed |-> 4]
  IN \A s \in Sessions : \A i, j \in 1..Len(heard[s]) :
       i < j => rank[heard[s][i].status] <= rank[heard[s][j].status]

\* "every session reaches the append-only audit log even when closed
\* mid-create": a session whose opening or closing was announced has a row.
\* The closing hook may run after Create's tail removed the entry: the writer's
\* snapshot is then nil and no row is ever inserted.
SessionAudited ==
  \A s \in Sessions : Settled(s) /\ (\E i \in 1..Len(heard[s]) : heard[s][i].status # "closed")
    => audit[s] # NoRow

=============================================================================
