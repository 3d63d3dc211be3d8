------------------------------- MODULE Stream -------------------------------
(***************************************************************************)
(* Who hears a session's output. One session's OutputBuffer is filled by   *)
(* its pump and removed by Close or RemoveForAccount; the manager's hooks  *)
(* drive the WebSocket hub, which sends one browser connection the delta   *)
(* since its last offset, and wake an agent's long-polling read_output.    *)
(* Offsets count chunks. The session's own life cycle is module Terminal.  *)
(***************************************************************************)
EXTENDS Integers, Sequences

CONSTANTS
  MaxData,    \* chunks the shell writes
  MaxSize,    \* chunks the OutputBuffer keeps
  OutCap,     \* frames the outbound queue holds
  MaxMounts   \* pages the user opens on the session

ASSUME StreamAssumption ==
  /\ MaxData \in Nat /\ MaxSize \in Nat \ {0} /\ OutCap \in Nat \ {0} /\ MaxMounts \in Nat

None == -1
Threads == {"pump", "closer", "reader"}

VARIABLES
  registered, \* the session is in the registry
  status,     \* its status
  abandoned,  \* Close gave up on the pump
  purged,     \* RemoveForAccount removed the session
  made,       \* chunks appended over the session's life
  base, top,  \* the buffer holds the chunks base + 1 .. top
  at,         \* at[t]: the step thread t is at
  hook,       \* hook[t]: the event t is delivering and who is still to hear it
  closing,    \* the reader's flush also closes the attachment
  saw,        \* saw[t]: the offset t reads from
  flushMu,    \* the holder of the connection's flushMu, or "free"
  attached, lastOffset, \* the connection's state for the session
  catchUp,    \* the frame attach read before it became visible
  out, closed, \* the outbound queue, and whether the connection was dropped
  cmds,       \* the browser's messages in flight
  mounts,     \* pages opened so far
  view,       \* the page, its screen and what the browser was told
  poll        \* the long poll

session == <<registered, status, abandoned, purged, made, base, top>>
wsconn == <<flushMu, attached, lastOffset, out, closed>>
thread == <<at, hook, closing, saw, catchUp>>
browser == <<cmds, mounts, view>>
vars == <<session, wsconn, thread, browser, poll>>

Offsets == None..MaxData
Output == [kind : {"output"}, from : Offsets, to : Offsets, reset : BOOLEAN]
\* The first frames of an attach; base, where the buffer began when the catch-up
\* was read, is for the properties only.
Attached == [kind : {"attached"}, base : Offsets]
Closed == [kind : {"closed"}, by : {"status", "removed", "attach"}]
Commands == [kind : {"attach", "detach"}, after : Offsets]

TypeOK ==
  /\ {registered, abandoned, purged, closing, attached, closed} \subseteq BOOLEAN
  /\ status \in {"open", "closing", "closed", "error"}
  /\ made \in 0..MaxData /\ base \in 0..MaxData /\ top \in base..(base + MaxSize)
  /\ at \in [Threads -> {"run", "append", "notify", "hooks", "flush", "get", "read", "detach", "end", "join",
                         "final", "remove", "session", "lookup", "catch", "attach", "recheck"}]
  /\ hook \in [Threads -> [ev : {"output", "status", "removed", "attach"},
                           todo : SUBSET {"hub", "poll"}]]
  /\ saw \in [Threads -> Offsets]
  /\ flushMu \in Threads \cup {"free"}
  /\ lastOffset \in Offsets
  /\ catchUp \in Output
  /\ out \in Seq(Output \cup Attached \cup Closed) /\ Len(out) <= OutCap
  /\ cmds \in Seq(Commands) /\ mounts \in 0..MaxMounts /\ Len(cmds) <= 2 * MaxMounts
  /\ view \in [page : {"none", "terminal", "observer"}, hi : Offsets, gap : BOOLEAN, offset : Offsets,
               due : 0..MaxMounts, told : {"none", "attached", "closed"}, by : {"", "status", "removed", "attach"}, late : BOOLEAN]
  /\ poll \in [at : {"idle", "first", "check", "subOut", "subStatus", "reread", "recheck", "select",
                     "done"},
               after : Offsets, wake : BOOLEAN, subOut : BOOLEAN, subStatus : BOOLEAN]

NoFrame == [kind |-> "output", from |-> 0, to |-> 0, reset |-> FALSE]

\* Either the page is used or the poll runs: neither touches what the other reads.
Init ==
  /\ registered = TRUE /\ status = "open" /\ abandoned = FALSE /\ purged = FALSE
  /\ made = 0 /\ base = 0 /\ top = 0
  /\ at = [t \in Threads |-> "run"]
  /\ hook = [t \in Threads |-> [ev |-> "attach", todo |-> {}]]
  /\ closing = FALSE /\ saw = [t \in Threads |-> None]
  /\ flushMu = "free" /\ attached = FALSE /\ lastOffset = 0
  /\ catchUp = NoFrame /\ out = <<>> /\ closed = FALSE
  /\ cmds = <<>>
  /\ view = [page |-> "none", hi |-> None, gap |-> FALSE, offset |-> None, due |-> 0,
             told |-> "none", by |-> "", late |-> FALSE]
  /\ \E p \in {"idle", "done"} :
       /\ poll = [at |-> p, after |-> 0, wake |-> FALSE, subOut |-> FALSE, subStatus |-> FALSE]
       /\ mounts = IF p = "done" THEN 0 ELSE MaxMounts

Goto(t, step) == at' = [at EXCEPT ![t] = step]

-----------------------------------------------------------------------------
(* The buffer and the outbound queue.                                      *)

\* OutputBuffer.ReadFrom: the chunks after off, all of them if off is None,
\* and all of them with reset if off was evicted or lies ahead.
ReadFrom(off) ==
  LET reset == off # None /\ off # top /\ (off > top \/ off < base)
  IN [kind |-> "output", from |-> IF reset \/ off = None THEN base ELSE off, to |-> top,
      reset |-> reset]

Worthless(f) == f.from = f.to /\ ~f.reset

\* Mutant: a full queue drops the frame and keeps the connection.
EnqueueDrops(frames) ==
  /\ out' = IF closed \/ Len(out \o frames) > OutCap THEN out ELSE out \o frames
  /\ UNCHANGED closed

\* Mutant: the queue grows without a bound.
EnqueueUnbounded(frames) ==
  /\ out' = IF closed THEN out ELSE out \o frames
  /\ UNCHANGED closed

\* enqueueLocked for each of the frames: those that fit, and a frame that
\* does not fit drops the connection.
Enqueue(frames) ==
  /\ out' = IF closed THEN out
            ELSE LET all == out \o frames
                 IN SubSeq(all, 1, IF Len(all) < OutCap THEN Len(all) ELSE OutCap)
  /\ closed' = (closed \/ Len(out \o frames) > OutCap)

\* The thread runs closeSession rather than flushOutput.
Closes(t) == IF t = "reader" THEN closing ELSE hook[t].ev # "output"

\* The thread leaves flushOutput or closeSession.
Return(t) ==
  /\ Goto(t, IF t # "reader" THEN "hooks" ELSE IF closing THEN "run" ELSE "recheck")
  /\ saw' = [saw EXCEPT ![t] = None]
  /\ closing' = (closing /\ t # "reader")

-----------------------------------------------------------------------------
(* Hooks: a thread that changed the session calls the subscribers it saw   *)
(* under the manager's lock, one after another, in any order.              *)

Listeners(ev) ==
  {"hub"} \cup (IF <<ev, TRUE>> \in {<<"output", poll.subOut>>, <<"status", poll.subStatus>>}
                  THEN {"poll"} ELSE {})

Fire(t, ev) ==
  /\ Goto(t, "hooks")
  /\ hook' = [hook EXCEPT ![t] = [ev |-> ev, todo |-> Listeners(ev)]]

Heard(t, who) == hook' = [hook EXCEPT ![t].todo = hook[t].todo \ {who}]

\* The long poll's poke: a send on its 1-buffered channel that never blocks.
PollHook(t) ==
  /\ at[t] = "hooks" /\ "poll" \in hook[t].todo
  /\ Heard(t, "poll")
  /\ poll' = [poll EXCEPT !.wake = TRUE]
  /\ UNCHANGED <<session, wsconn, at, closing, saw, catchUp, browser>>

\* Mutant: the hub does not listen to removals.
HubHookNoSweep(t) ==
  /\ at[t] = "hooks" /\ "hub" \in hook[t].todo
  /\ Heard(t, "hub")
  /\ IF hook[t].ev = "status" \/ (hook[t].ev = "output" /\ attached)
       THEN Goto(t, "flush") ELSE UNCHANGED at
  /\ UNCHANGED <<session, wsconn, closing, saw, catchUp, browser, poll>>

\* onOutput, onStatusChange, onRemoved: flushOutput or closeSession, the first
\* and the last only if the connection is attached right now.
HubHook(t) ==
  /\ at[t] = "hooks" /\ "hub" \in hook[t].todo
  /\ Heard(t, "hub")
  /\ IF hook[t].ev = "status" \/ attached THEN Goto(t, "flush") ELSE UNCHANGED at
  /\ UNCHANGED <<session, wsconn, closing, saw, catchUp, browser, poll>>

HooksDone(t) ==
  /\ at[t] = "hooks" /\ hook[t].todo = {}
  /\ Goto(t, IF t = "pump" /\ hook[t].ev = "output" THEN "run"
             ELSE IF t = "closer" /\ hook[t].ev = "status" THEN "remove" ELSE "end")
  /\ UNCHANGED <<session, wsconn, hook, closing, saw, catchUp, browser, poll>>

-----------------------------------------------------------------------------
(* The session: pump, Close, RemoveForAccount.                             *)

\* pump takes a data event off the transport, unless it was abandoned.
PumpRecv ==
  /\ at["pump"] = "run" /\ made < MaxData /\ ~abandoned
  /\ Goto("pump", "append")
  /\ UNCHANGED <<session, wsconn, hook, closing, saw, catchUp, browser, poll>>

\* OutputBuffer.Append, which evicts the oldest chunk of a full buffer.
PumpAppend ==
  /\ at["pump"] = "append"
  /\ made' = made + 1 /\ top' = top + 1
  /\ base' = IF top + 1 - base > MaxSize THEN base + 1 ELSE base
  /\ Goto("pump", "notify")
  /\ UNCHANGED <<registered, status, abandoned, purged, wsconn, hook, closing, saw, catchUp, browser, poll>>

PumpNotify ==
  /\ at["pump"] = "notify" /\ Fire("pump", "output")
  /\ UNCHANGED <<session, wsconn, closing, saw, catchUp, browser, poll>>

\* setStatus to a terminal status, with its hooks; both terminal statuses
\* absorb what follows.
SetStatus(t, new, otherwise) ==
  IF status \in {"closed", "error"}
    THEN Goto(t, otherwise) /\ UNCHANGED <<status, hook>>
    ELSE status' = new /\ Fire(t, "status")

\* The transport ends, with or without an error.
PumpEnd ==
  /\ at["pump"] = "run"
  /\ \E new \in {"closed", "error"} : SetStatus("pump", new, "end")
  /\ UNCHANGED <<registered, abandoned, purged, made, base, top, wsconn, closing, saw, catchUp, browser, poll>>

\* Close up to its join: beginClosing bails on a closing or closed session.
\* Its hook makes the hub send session lists only.
BeginClosing ==
  /\ at["closer"] = "run" /\ registered /\ status \in {"open", "error"}
  /\ status' = "closing" /\ Goto("closer", "join")
  /\ UNCHANGED <<registered, abandoned, purged, made, base, top, wsconn, hook, closing, saw, catchUp, browser, poll>>

\* The join ends with the pump, or its timeout abandons the pump.
Join ==
  /\ at["closer"] = "join" /\ Goto("closer", "final")
  /\ \/ at["pump"] = "end" /\ UNCHANGED abandoned
     \/ at["pump"] # "end" /\ abandoned' = TRUE
  /\ UNCHANGED <<registered, status, purged, made, base, top, wsconn, hook, closing, saw, catchUp, browser, poll>>

CloseFinal ==
  /\ at["closer"] = "final" /\ SetStatus("closer", "closed", "remove")
  /\ UNCHANGED <<registered, abandoned, purged, made, base, top, wsconn, closing, saw, catchUp, browser, poll>>

\* removeEntry: clear and delete in one critical section, then the hooks.
Remove ==
  /\ at["closer"] = "remove"
  /\ registered' = FALSE /\ base' = 0 /\ top' = 0 /\ Fire("closer", "removed")
  /\ UNCHANGED <<status, abandoned, purged, made, wsconn, closing, saw, catchUp, browser, poll>>

\* RemoveForAccount drops a session that is over.
Purge ==
  /\ at["closer"] = "run" /\ status \in {"closed", "error"}
  /\ registered' = FALSE /\ purged' = TRUE /\ base' = 0 /\ top' = 0 /\ Fire("closer", "removed")
  /\ UNCHANGED <<status, abandoned, made, wsconn, closing, saw, catchUp, browser, poll>>

-----------------------------------------------------------------------------
(* flushOutput and closeSession, under flushMu.                            *)

\* Mutant: flushMu is not taken.
FlushLockFree(t) ==
  /\ at[t] = "flush"
  /\ IF attached
       THEN saw' = [saw EXCEPT ![t] = lastOffset] /\ Goto(t, "get") /\ UNCHANGED closing
       ELSE Return(t)
  /\ UNCHANGED <<session, wsconn, hook, catchUp, browser, poll>>

\* Mutant: closeSession does not drain the buffer first.
FlushLockUndrained(t) ==
  /\ at[t] = "flush" /\ flushMu = "free"
  /\ IF attached
       THEN /\ flushMu' = t /\ saw' = [saw EXCEPT ![t] = lastOffset]
            /\ Goto(t, IF Closes(t) THEN "detach" ELSE "get")
            /\ UNCHANGED closing
       ELSE Return(t) /\ UNCHANGED flushMu
  /\ UNCHANGED <<session, attached, lastOffset, out, closed, hook, catchUp, browser, poll>>

\* A session that is not attached gets no frame from either operation.
FlushLock(t) ==
  /\ at[t] = "flush" /\ flushMu = "free"
  /\ IF attached
       THEN /\ flushMu' = t /\ saw' = [saw EXCEPT ![t] = lastOffset] /\ Goto(t, "get")
            /\ UNCHANGED closing
       ELSE Return(t) /\ UNCHANGED flushMu
  /\ UNCHANGED <<session, attached, lastOffset, out, closed, hook, catchUp, browser, poll>>

\* After the flush: unlock, or go on to detach.
FlushEnd(t) ==
  IF Closes(t) THEN Goto(t, "detach") /\ UNCHANGED <<flushMu, saw, closing>>
  ELSE Return(t) /\ flushMu' = "free"

\* Manager.get inside ReadOutputFrom: the buffer stays reachable once found.
FlushGet(t) ==
  /\ at[t] = "get"
  /\ IF registered THEN Goto(t, "read") /\ UNCHANGED <<flushMu, saw, closing>> ELSE FlushEnd(t)
  /\ UNCHANGED <<session, attached, lastOffset, out, closed, hook, catchUp, browser, poll>>

FlushRead(t) ==
  LET f == ReadFrom(saw[t])
  IN /\ at[t] = "read"
     /\ IF Worthless(f) THEN UNCHANGED <<lastOffset, out, closed>>
        ELSE lastOffset' = f.to /\ Enqueue(<<f>>)
     /\ FlushEnd(t)
     /\ UNCHANGED <<session, attached, hook, catchUp, browser, poll>>

\* detachLocked, then terminal:closed.
Detach(t) ==
  /\ at[t] = "detach"
  /\ attached' = FALSE /\ lastOffset' = 0
  /\ Enqueue(<<[kind |-> "closed", by |-> hook[t].ev]>>)
  /\ flushMu' = "free" /\ Return(t)
  /\ UNCHANGED <<session, hook, catchUp, browser, poll>>

-----------------------------------------------------------------------------
(* The connection's read loop: attach and detach.                          *)

\* GetSession finds the session, or attach answers with an error.
Attach ==
  /\ at["reader"] = "run" /\ cmds # <<>> /\ Head(cmds).kind = "attach"
  /\ cmds' = Tail(cmds)
  /\ IF registered
       THEN Goto("reader", "lookup") /\ saw' = [saw EXCEPT !["reader"] = Head(cmds).after]
       ELSE UNCHANGED <<at, saw>>
  /\ UNCHANGED <<session, wsconn, hook, closing, catchUp, mounts, view, poll>>

\* ReadOutputFrom looks the session up again, then reads its buffer: neither
\* is under flushMu.
CatchUpGet ==
  /\ at["reader"] = "lookup"
  /\ IF registered THEN Goto("reader", "catch") /\ UNCHANGED saw
     ELSE Goto("reader", "run") /\ saw' = [saw EXCEPT !["reader"] = None]
  /\ UNCHANGED <<session, wsconn, hook, closing, catchUp, browser, poll>>

CatchUpRead ==
  /\ at["reader"] = "catch"
  /\ catchUp' = ReadFrom(saw["reader"]) /\ Goto("reader", "attach")
  /\ saw' = [saw EXCEPT !["reader"] = base]
  /\ UNCHANGED <<session, wsconn, hook, closing, browser, poll>>

\* The connection is attached; next is the step then.
Attaching(then) ==
  /\ at["reader"] = "attach" /\ flushMu = "free"
  /\ attached' = TRUE /\ lastOffset' = catchUp.to
  /\ Enqueue(<<[kind |-> "attached", base |-> saw["reader"]]>>
              \o (IF Worthless(catchUp) THEN <<>> ELSE <<catchUp>>))
  /\ catchUp' = NoFrame /\ Goto("reader", then)
  /\ saw' = [saw EXCEPT !["reader"] = None]
  /\ UNCHANGED <<session, flushMu, hook, closing, browser, poll>>

\* Mutant: attach ends without a flush of what came after its catch-up.
AttachUnflushed == Attaching("recheck")

\* attachWithCatchUp: the initial frames and the offset in one critical
\* section; then flushOutput.
AttachWithCatchUp == Attaching("flush")

\* GetSession once more: a session that is gone is closed here.
Recheck ==
  /\ at["reader"] = "recheck"
  /\ closing' = ~registered
  /\ Goto("reader", IF registered THEN "run" ELSE "flush")
  /\ UNCHANGED <<session, wsconn, hook, saw, catchUp, browser, poll>>

\* terminal:detach.
DetachCommand ==
  /\ at["reader"] = "run" /\ cmds # <<>> /\ Head(cmds).kind = "detach" /\ flushMu = "free"
  /\ cmds' = Tail(cmds) /\ attached' = FALSE /\ lastOffset' = 0
  /\ UNCHANGED <<session, flushMu, out, closed, thread, mounts, view, poll>>

-----------------------------------------------------------------------------
(* The browser: the store, which keeps the last offset of the session for   *)
(* as long as the tab lives, and the page mounted on the session, if any.  *)

\* lastOffsetBySession after frame f.
Stored(f) ==
  IF f.kind = "output" THEN f.to ELSE IF f.kind = "closed" THEN None ELSE view.offset

\* The output skips something after what the screen holds. Nothing is expected
\* of frames that were on their way before the page's own attach was answered.
Skips(f) == view.hi # None /\ f.from > view.hi

\* Whether the screen has a hole once output f is written to it: the terminal
\* page clears its screen on a reset, the observer page writes all the same.
TerminalGap(f) == ~f.reset /\ (view.gap \/ Skips(f))
ObserverGap(f) == view.gap \/ Skips(f)

\* startWriter sends the head of the queue; the store and the mounted page
\* apply it. From the answer to its own attach on (the last one due), a page
\* should show the buffer from its base on.
Receive ==
  LET f == Head(out)
      seen == [view EXCEPT !.offset = Stored(f)]
  IN /\ out # <<>> /\ out' = Tail(out)
     /\ view' =
          IF f.kind = "attached"
            THEN [seen EXCEPT !.told = "attached", !.by = "", !.due = view.due - 1,
                              !.hi = IF view.page = "none" \/ view.due > 1 THEN None ELSE f.base]
          ELSE IF f.kind = "closed"
            THEN [seen EXCEPT !.told = "closed", !.by = f.by]
          ELSE [seen EXCEPT !.hi = IF view.hi = None THEN None ELSE f.to,
                            !.gap = IF view.page = "terminal" THEN TerminalGap(f) ELSE ObserverGap(f),
                            !.late = view.late \/ view.told = "closed"]
     /\ UNCHANGED <<session, flushMu, attached, lastOffset, closed, thread, cmds, mounts, poll>>

\* wsSend: what is sent while the socket is down is lost.
WsSend(msg) == cmds' = IF closed THEN cmds ELSE Append(cmds, msg)

\* A page comes up with an empty screen; offset is what the store keeps.
Mount(page, offset) ==
  /\ view.page = "none" /\ mounts < MaxMounts
  /\ mounts' = mounts + 1
  /\ view' = [view EXCEPT !.page = page, !.hi = None, !.gap = FALSE, !.offset = offset,
                           !.due = view.due + 1]
  /\ WsSend([kind |-> "attach", after |-> offset])
  /\ UNCHANGED <<session, wsconn, thread, poll>>

Leave(offset) == view' = [view EXCEPT !.page = "none", !.hi = None, !.gap = FALSE, !.offset = offset]

\* The terminal page attaches fresh: the stored offset is dropped first.
MountTerminal == Mount("terminal", None)

\* The observer page attaches after the stored offset, if there is one.
MountObserver == Mount("observer", view.offset)

\* wsDetach, when the terminal page goes.
UnmountTerminal ==
  /\ view.page = "terminal" /\ Leave(None)
  /\ WsSend([kind |-> "detach", after |-> None])
  /\ UNCHANGED <<session, wsconn, thread, mounts, poll>>

\* The observer page does not detach: the connection stays attached and the
\* store goes on following the offset of output nobody shows.
UnmountObserver ==
  /\ view.page = "observer" /\ Leave(view.offset)
  /\ UNCHANGED <<session, wsconn, thread, cmds, mounts, poll>>

\* The network, a failed write or the peer ends the connection: what is queued
\* or in flight either way is lost. Without a page and an attachment that differs
\* in nothing from a drop after the next mount.
Drop ==
  /\ ~closed /\ (attached \/ view.page # "none")
  /\ closed' = TRUE /\ out' = <<>> /\ cmds' = <<>>
  /\ UNCHANGED <<session, flushMu, attached, lastOffset, thread, mounts, view, poll>>

\* Serve leaves the hub and the browser connects again: what an overflowing
\* connection had left is lost, and no page attaches again by itself. Whatever
\* threads still do on the old connection reaches nobody.
Reconnect ==
  /\ closed /\ closed' = FALSE /\ out' = <<>> /\ cmds' = <<>>
  /\ flushMu' = "free" /\ attached' = FALSE /\ lastOffset' = 0
  /\ at' = [t \in Threads |-> IF t = "reader" THEN "run"
                              ELSE IF at[t] \in {"flush", "get", "read", "detach"} THEN "hooks" ELSE at[t]]
  /\ saw' = [t \in Threads |-> None] /\ closing' = FALSE /\ catchUp' = NoFrame
  /\ view' = [view EXCEPT !.told = "none", !.due = 0]
  /\ UNCHANGED <<session, hook, mounts, poll>>

-----------------------------------------------------------------------------
(* agent.Session.ReadOutput with a wait.                                   *)

PollGoto(step) == poll' = [poll EXCEPT !.at = step]
PollFrame == UNCHANGED <<session, wsconn, thread, browser>>

\* A read returns if the session is gone or has output past the cursor.
PollHit == ~registered \/ poll.after < top

PollStart ==
  /\ poll.at = "idle" /\ \E n \in 0..top : poll' = [poll EXCEPT !.at = "first", !.after = n]
  /\ PollFrame

PollFirst == poll.at = "first" /\ PollGoto(IF PollHit THEN "done" ELSE "check") /\ PollFrame

PollOver == ~registered \/ status \in {"closed", "error"}

PollCheck == poll.at = "check" /\ PollGoto(IF PollOver THEN "done" ELSE "subOut") /\ PollFrame

PollSubOut ==
  /\ poll.at = "subOut" /\ poll' = [poll EXCEPT !.at = "subStatus", !.subOut = TRUE]
  /\ PollFrame

\* Mutant: the loop waits before it reads again.
PollSubStatusWaits ==
  /\ poll.at = "subStatus" /\ poll' = [poll EXCEPT !.at = "select", !.subStatus = TRUE]
  /\ PollFrame

\* The loop reads again before it waits.
PollSubStatus ==
  /\ poll.at = "subStatus" /\ poll' = [poll EXCEPT !.at = "reread", !.subStatus = TRUE]
  /\ PollFrame

\* Returning also drops both subscriptions.
PollReturn == poll' = [poll EXCEPT !.at = "done", !.subOut = FALSE, !.subStatus = FALSE]

PollReread ==
  /\ poll.at = "reread" /\ IF PollHit THEN PollReturn ELSE PollGoto("recheck")
  /\ PollFrame

PollRecheck ==
  /\ poll.at = "recheck" /\ IF PollOver THEN PollReturn ELSE PollGoto("select")
  /\ PollFrame

PollWake ==
  /\ poll.at = "select" /\ poll.wake
  /\ poll' = [poll EXCEPT !.at = "reread", !.wake = FALSE]
  /\ PollFrame

\* The wait elapses or the request's context ends.
PollTimeout == poll.at = "select" /\ PollReturn /\ PollFrame

-----------------------------------------------------------------------------
Delivery(t) ==
  \/ PollHook(t) \/ HubHook(t) \/ HooksDone(t)
  \/ FlushLock(t) \/ FlushGet(t) \/ FlushRead(t) \/ Detach(t)
Pump == PumpRecv \/ PumpAppend \/ PumpNotify \/ PumpEnd
Closer == BeginClosing \/ Join \/ CloseFinal \/ Remove \/ Purge
Reader == Attach \/ CatchUpGet \/ CatchUpRead \/ AttachWithCatchUp \/ Recheck \/ DetachCommand
Browser ==
  \/ Receive \/ Drop \/ Reconnect
  \/ MountTerminal \/ MountObserver \/ UnmountTerminal \/ UnmountObserver
Polling ==
  \/ PollStart \/ PollFirst \/ PollCheck \/ PollSubOut \/ PollSubStatus
  \/ PollReread \/ PollRecheck \/ PollWake \/ PollTimeout

Next ==
  \/ \E t \in Threads : Delivery(t)
  \/ Pump \/ Closer \/ Reader \/ Browser \/ Polling

Spec == Init /\ [][Next]_vars

-----------------------------------------------------------------------------
(* Properties.                                                             *)

\* Within an attachment no output follows terminal:closed, whichever of the
\* status hook, the removed hook and attach's re-check closed it and whatever
\* flush was under way (closeSession, docs/api/websocket-protocol.md).
ClosedIsLast == ~view.late

\* The terminal page shows the buffer without a hole: from the answer to its
\* attach on, its screen starts at the base the buffer had then, and output that
\* is not a reset starts no later than where the screen ends, across eviction,
\* a full queue, lost connections, remounts, and flushes and attaches that race
\* (Terminal.svelte, flushLocked, attachWithCatchUp, ReadFrom). Only a flush that
\* found the session just before its removal may read the cleared buffer.
NoGap == registered /\ view.page = "terminal" => ~view.gap

\* An attached connection never sleeps over output: while the buffer holds more
\* than it was sent, some thread is on its way to flush it, although output that
\* arrives during an attach notified nobody (hub.attach flushes once more).
NoStalledOutput ==
  attached /\ registered /\ lastOffset < top =>
    \/ at["pump"] = "notify" \/ (at["pump"] = "hooks" /\ "hub" \in hook["pump"].todo)
    \/ \E t \in Threads : at[t] \in {"flush", "get", "read"}

\* A terminal page told by the status hook that its session closed shows all of
\* its output: closeSession drains first. The documented exceptions are a pump
\* that Close abandoned and the purge of a deleted account; a page that is told
\* before its own attach was answered expects nothing yet.
TailDelivered ==
  view.page = "terminal" /\ view.told = "closed" /\ view.by = "status" /\ ~abandoned /\ ~purged
    => view.hi \in {None, made}

\* No connection stays attached to a session that is gone: once every thread
\* is idle, the removed hook or attach's re-check has closed it (hub.onRemoved
\* and the end of hub.attach).
NoZombieAttachment ==
  ~registered /\ at["closer"] = "end" /\ at["reader"] = "run" => ~attached

\* A long poll never sleeps on output or a closed session it could report:
\* its wake-up is in its channel or on its way, although it subscribes only
\* after its first look (agent.Session.ReadOutput reads again before it
\* waits).
NoLostWakeup ==
  poll.at = "select" /\ (PollHit \/ PollOver) =>
    \/ poll.wake \/ at["pump"] = "notify"
    \/ \E t \in Threads : at[t] \notin {"run", "end"} /\ "poll" \in hook[t].todo

-----------------------------------------------------------------------------
(* What the repository says and the code does not keep.                    *)

\* "no interleaving can duplicate output, resend a caught-up delta"
\* (ws/conn.go): the catch-up an attach is about to queue is not behind what
\* the connection was already sent. attach reads it before it takes flushMu,
\* so a flush in between violates this when the connection re-attaches.
NoResend ==
  at["reader"] = "attach" /\ attached /\ registered => catchUp.to >= lastOffset

\* "Fresh xterm has no backlog - force full replay so a stale offset from a
\* previous mount (e.g. observer mode) doesn't cause an empty attach"
\* (Terminal.svelte), and "reset:true means the client must clear its buffer
\* first" (websocket-protocol): the screen of the observer page has no hole
\* either. That page attaches its fresh xterm after the stored offset, which its
\* last mount left behind and kept advancing, and does not look at reset.
ObserverWhole == registered /\ view.page = "observer" => ~view.gap

=============================================================================
