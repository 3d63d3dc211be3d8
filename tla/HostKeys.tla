------------------------------ MODULE HostKeys ------------------------------
(***************************************************************************)
(* Host-key pinning for one endpoint: the row of the endpoints table with  *)
(* its address and its pin, SSH connections that look the pin up, verify   *)
(* or provisionally accept the presented key and let a human's approval    *)
(* pin it, and REST or MCP requests that move the endpoint, forget its pin *)
(* or pin a key by hand.                                                   *)
(*                                                                         *)
(* One action is one SQL statement or one step between two of them: every  *)
(* handler here reads the row and writes it back in separate statements.   *)
(***************************************************************************)
EXTENDS Naturals, FiniteSets

CONSTANTS
  Addrs,      \* host:port pairs
  Home,       \* the endpoint's first address
  Keys,       \* host keys
  NoKey,      \* no pin
  Conns,      \* connections
  Signers,    \* how many keys a connection can authenticate with
  Admins,     \* REST or MCP requests on the endpoint, one operation each
  Ops         \* the operations they perform, a subset of AllOps

AllOps == {"update", "clear", "pin"}

ASSUME HostKeysAssumption ==
  /\ Home \in Addrs /\ NoKey \notin Keys /\ Signers \in Nat /\ Ops \subseteq AllOps

VARIABLES
  row,        \* the endpoint's row: its address and its pin
  conn,       \* conn[c]: the progress and HostKeyState of connection c
  adm,        \* adm[x]: request x, with the row it read
  vouched,    \* address and key pairs a human approved or entered
  epoch,      \* how often the pin was dropped or the address changed
  lost,       \* pins dropped by an endpoint update
  traced      \* host-key-cleared audit rows written for an endpoint update

vars == <<row, conn, adm, vouched, epoch, lost, traced>>

Pins == Keys \cup {NoKey}
Rows == [addr : Addrs, pin : Pins]

\* epoch is the one in which the store confirmed c's key, 0 before that.
Connections ==
  [at : {"off", "resolved", "dialing", "auth", "asking", "pinning", "rereading", "signed", "up",
         "refused"},
   addr : Addrs, pin : Pins, kind : {"unseen", "new", "known"}, key : Pins,
   pinned : BOOLEAN, provisional : BOOLEAN, next : 0..Signers, dead : BOOLEAN, epoch : Nat]

Requests ==
  [at : {"ready", "read", "audit", "done"}, op : AllOps, old : Rows, addr : Addrs, key : Pins]

TypeOK ==
  /\ row \in Rows
  /\ conn \in [Conns -> Connections]
  /\ adm \in [Admins -> Requests]
  /\ vouched \subseteq Addrs \X Keys
  /\ epoch \in Nat /\ lost \in Nat /\ traced \in Nat

Init ==
  /\ row = [addr |-> Home, pin |-> NoKey]
  /\ conn = [c \in Conns |->
       [at |-> "off", addr |-> Home, pin |-> NoKey, kind |-> "unseen", key |-> NoKey,
        pinned |-> FALSE, provisional |-> FALSE, next |-> 0, dead |-> FALSE, epoch |-> 0]]
  /\ adm = [x \in Admins |-> [at |-> "ready", op |-> "update", old |-> row, addr |-> Home,
                              key |-> NoKey]]
  /\ vouched = {} /\ epoch = 1 /\ lost = 0 /\ traced = 0

store == <<row, epoch, lost, traced>>

-----------------------------------------------------------------------------
(* A connection: RefForAccount, then Connect.                              *)

\* The session's endpoint reference: the address is read here.
Resolve(c) ==
  /\ conn[c].at = "off"
  /\ conn' = [conn EXCEPT ![c].at = "resolved", ![c].addr = row.addr]
  /\ UNCHANGED <<store, adm, vouched>>

\* Connect looks the pin up in a statement of its own.
Lookup(c) ==
  /\ conn[c].at = "resolved"
  /\ conn' = [conn EXCEPT ![c].at = "dialing", ![c].pin = row.pin]
  /\ UNCHANGED <<store, adm, vouched>>

\* hostKeyCallback on the first key exchange: the server presents k.
KeyExchange(c, k) ==
  /\ conn[c].at = "dialing"
  /\ conn' = IF conn[c].pin \in {NoKey, k}
               THEN [conn EXCEPT ![c].at = "auth", ![c].key = k,
                                 ![c].kind = IF conn[c].pin = NoKey THEN "new" ELSE "known"]
               ELSE [conn EXCEPT ![c].at = "refused"]
  /\ UNCHANGED <<store, adm, vouched>>

\* hostKeyCallback on a rekey that presents another key: the connection dies.
\* A signer that is waiting for its approval is not told.
Rekey(c) ==
  /\ conn[c].at \in {"auth", "asking", "pinning", "rereading", "signed", "up"} /\ ~conn[c].dead
  /\ conn' = IF conn[c].at \in {"auth", "signed", "up"}
               THEN [conn EXCEPT ![c].at = "refused", ![c].dead = TRUE]
               ELSE [conn EXCEPT ![c].dead = TRUE]
  /\ UNCHANGED <<store, adm, vouched>>

\* Mutant: the callback runs past the end of its signers.
NextKeyUnbounded(c) ==
  /\ conn[c].at = "auth" /\ ~conn[c].dead
  /\ conn' = [conn EXCEPT ![c].at = "asking", ![c].next = conn[c].next + 1,
                          ![c].provisional = (conn[c].kind = "new" /\ ~conn[c].pinned)]
  /\ UNCHANGED <<store, adm, vouched>>

\* keyAuth.callback hands out the next signer; Sign takes the snapshot that
\* tells whether its approval must also pin.
NextKey(c) ==
  /\ conn[c].at = "auth" /\ ~conn[c].dead /\ conn[c].next < Signers
  /\ conn' = [conn EXCEPT ![c].at = "asking", ![c].next = conn[c].next + 1,
                          ![c].provisional = (conn[c].kind = "new" /\ ~conn[c].pinned)]
  /\ UNCHANGED <<store, adm, vouched>>

\* Denied, expired or cancelled: the signer fails and authentication goes on.
Reject(c) ==
  /\ conn[c].at = "asking"
  /\ conn' = [conn EXCEPT ![c].at = "auth"]
  /\ UNCHANGED <<store, adm, vouched>>

\* The human, shown the key of a provisional connection, approves.
Approve(c) ==
  /\ conn[c].at = "asking"
  /\ IF conn[c].provisional
       THEN /\ conn' = [conn EXCEPT ![c].at = "pinning"]
            /\ vouched' = vouched \cup {<<conn[c].addr, conn[c].key>>}
       ELSE conn' = [conn EXCEPT ![c].at = "signed"] /\ UNCHANGED vouched
  /\ UNCHANGED <<store, adm>>

\* Mutant: the write is not bound to the address the key was observed at.
FreeAnyAddress(addr) == row.pin = NoKey

\* Mutant: the write replaces another pin.
FreeAnyPin(addr) == row.addr = addr

\* The WHERE clause of PinEndpointHostKey.
Free(addr) == row.pin = NoKey /\ row.addr = addr

\* pinAfterApproval: the compare-and-set of PinHostKey, then MarkPinned.
PinCAS(c) ==
  /\ conn[c].at = "pinning"
  /\ IF Free(conn[c].addr)
       THEN /\ row' = [row EXCEPT !.pin = conn[c].key]
            /\ conn' = [conn EXCEPT ![c].at = "signed", ![c].pinned = TRUE, ![c].epoch = epoch]
       ELSE conn' = [conn EXCEPT ![c].at = "rereading"] /\ UNCHANGED row
  /\ UNCHANGED <<epoch, lost, traced, adm, vouched>>

\* Mutant: any pin on the row counts as this connection's.
SamePinAny(c) == row.addr = conn[c].addr /\ row.pin # NoKey

\* PinHostKey's second statement: the same key won, or the pin failed.
SamePin(c) == row.addr = conn[c].addr /\ row.pin = conn[c].key

PinRead(c) ==
  /\ conn[c].at = "rereading"
  /\ conn' = IF SamePin(c)
               THEN [conn EXCEPT ![c].at = "signed", ![c].pinned = TRUE, ![c].epoch = epoch]
               ELSE [conn EXCEPT ![c].at = "auth"]
  /\ UNCHANGED <<store, adm, vouched>>

\* Mutant: the fail-closed check is dropped.
ServerAcceptsAny(c) ==
  /\ conn[c].at \in {"auth", "signed"} /\ ~conn[c].dead
  /\ conn' = [conn EXCEPT ![c].at = "up"]
  /\ UNCHANGED <<store, adm, vouched>>

\* The handshake ends: after a signature, or because the server accepts "none".
\* A provisional key nobody pinned fails closed.
ServerAccepts(c) ==
  /\ conn[c].at \in {"auth", "signed"} /\ ~conn[c].dead
  /\ conn' = [conn EXCEPT ![c].at =
                IF conn[c].kind = "new" /\ ~conn[c].pinned THEN "refused" ELSE "up"]
  /\ UNCHANGED <<store, adm, vouched>>

\* The server turns the signature down, or the connection is already dead.
ServerRejects(c) ==
  /\ conn[c].at = "signed"
  /\ conn' = [conn EXCEPT ![c].at = "auth"]
  /\ UNCHANGED <<store, adm, vouched>>

\* No key left, the context done, the deadline passed, the network gone, or
\* NewSession, RequestPty or Shell failing once the handshake is over.
Fail(c) ==
  /\ conn[c].at \in {"resolved", "dialing", "auth", "up"}
  /\ conn' = [conn EXCEPT ![c].at = "refused"]
  /\ UNCHANGED <<store, adm, vouched>>

-----------------------------------------------------------------------------
(* Requests on the endpoint.                                               *)

\* GetForAccount: the row the request goes on to merge with, audit or bind to.
Read(x, op, a, k) ==
  /\ adm[x].at = "ready" /\ op \in Ops
  /\ adm' = [adm EXCEPT ![x] = [at |-> "read", op |-> op, old |-> row, addr |-> a, key |-> k]]
  /\ UNCHANGED <<store, conn, vouched>>

Audit(x, needed) == adm' = [adm EXCEPT ![x].at = IF needed THEN "audit" ELSE "done"]

\* Endpoints.Update: the whole row is written back, with the address of the
\* patch or else the one that was read; the statement drops the pin when that
\* differs from the stored address. The audit decision uses what was read.
Update(x) ==
  LET a == adm[x].addr
      old == adm[x].old
      moves == row.addr # a
  IN /\ adm[x].at = "read" /\ adm[x].op = "update"
     /\ row' = [addr |-> a, pin |-> IF moves THEN NoKey ELSE row.pin]
     /\ epoch' = IF moves THEN epoch + 1 ELSE epoch
     /\ lost' = IF moves /\ row.pin # NoKey THEN lost + 1 ELSE lost
     /\ Audit(x, old.pin # NoKey /\ old.addr # a)
     /\ UNCHANGED <<conn, vouched, traced>>

\* deleteHostKey.
Clear(x) ==
  LET clears == row.pin # NoKey
  IN /\ adm[x].at = "read" /\ adm[x].op = "clear"
     /\ row' = [row EXCEPT !.pin = NoKey]
     /\ epoch' = IF clears THEN epoch + 1 ELSE epoch
     /\ Audit(x, clears /\ adm[x].old.pin # NoKey)
     /\ UNCHANGED <<conn, vouched, lost, traced>>

\* pinHostKey: the human enters a key for the address the request read. A
\* second statement only words the error.
ManualPin(x) ==
  /\ adm[x].at = "read" /\ adm[x].op = "pin"
  /\ vouched' = vouched \cup {<<adm[x].old.addr, adm[x].key>>}
  /\ row' = IF Free(adm[x].old.addr) THEN [row EXCEPT !.pin = adm[x].key] ELSE row
  /\ Audit(x, FALSE)
  /\ UNCHANGED <<conn, epoch, lost, traced>>

\* RecordHostKeyEvent.
AuditCleared(x) ==
  /\ adm[x].at = "audit"
  /\ adm' = [adm EXCEPT ![x].at = "done"]
  /\ traced' = IF adm[x].op = "update" THEN traced + 1 ELSE traced
  /\ UNCHANGED <<row, epoch, lost, conn, vouched>>

-----------------------------------------------------------------------------
Connection(c) ==
  \/ Resolve(c) \/ Lookup(c)
  \/ \E k \in Keys : KeyExchange(c, k)
  \/ Rekey(c) \/ NextKey(c) \/ Reject(c) \/ Approve(c)
  \/ PinCAS(c) \/ PinRead(c)
  \/ ServerAccepts(c) \/ ServerRejects(c) \/ Fail(c)

Request(x) ==
  \/ \E a \in Addrs : Read(x, "update", a, NoKey)
  \/ Read(x, "clear", Home, NoKey)
  \/ \E k \in Keys : Read(x, "pin", Home, k)
  \/ Update(x) \/ Clear(x) \/ ManualPin(x) \/ AuditCleared(x)

Next == (\E c \in Conns : Connection(c)) \/ (\E x \in Admins : Request(x))

Spec == Init /\ [][Next]_vars

-----------------------------------------------------------------------------
(* Properties.                                                             *)

\* The pin on the row is a key a human approved or entered for the address
\* the row has now, whatever moves, clears and pins raced the approval:
\* PinHostKey is bound to the address the key was observed at and Update
\* drops the pin of the old one (store/endpoints.go, queries/endpoints.sql).
PinVouched == row.pin # NoKey => <<row.addr, row.pin>> \in vouched

\* No session comes up on a key nobody vouched for: a first contact on a key
\* approved for the very address it dialled, a later one on a key that was
\* once vouched for on this endpoint (Connect's fail-closed check and
\* hostKeyCallback).
SessionVouched ==
  \A c \in Conns : conn[c].at = "up" =>
    /\ conn[c].kind = "new" => <<conn[c].addr, conn[c].key>> \in vouched
    /\ conn[c].kind = "known" => \E a \in Addrs : <<a, conn[c].key>> \in vouched

\* First contacts do not ride on one another's trust decision: two of them
\* that were confirmed with no clear and no move in between have the same key
\* and the same address (PinHostKey's re-read after a lost compare-and-set).
OneTrustPerEpoch ==
  \A c, d \in Conns :
    /\ conn[c].pinned /\ conn[d].pinned
    /\ conn[c].epoch = conn[d].epoch
    => conn[c].key = conn[d].key /\ conn[c].addr = conn[d].addr

\* A pin is never replaced in place: the row passes through "no pin" between
\* two keys (the host_key IS NULL guard of PinEndpointHostKey).
PinNeverReplaced ==
  [][row.pin # NoKey /\ row'.pin # row.pin => row'.pin = NoKey]_vars

\* Every pin an endpoint update drops has its host-key-cleared audit row once
\* the requests are over: "it must leave a trace" (agent/session.go). The
\* code decides from the row it read before the write, so this is violated.
PinLossTraced ==
  (\A x \in Admins : adm[x].at \in {"ready", "done"}) => traced >= lost

=============================================================================
