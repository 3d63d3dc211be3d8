---------------------------- MODULE HostKeysProof ----------------------------
(***************************************************************************)
(* Host-key trust for any number of connections, requests, addresses and   *)
(* keys: what is pinned or reaches a session was vouched for, first        *)
(* contacts of one epoch agree, and a pin is never replaced in place.      *)
(***************************************************************************)
EXTENDS HostKeys, TLAPS

Shaking == {"auth", "asking", "pinning", "rereading", "signed", "up"}

\* What is known of a connection r when the pairs in v are vouched for: a key
\* is there once the server presented one, a pin it looked up was vouched for
\* on some address, and it is pinned only with its own address and key.
Sound(r, v) ==
  /\ r.at \in {"off", "resolved", "dialing"} => r.kind = "unseen" /\ ~r.pinned
  /\ r.at \in Shaking => r.kind # "unseen"
  /\ r.kind # "unseen" => r.key \in Keys
  /\ r.kind = "known" => r.key = r.pin
  /\ r.pin # NoKey => \E a \in Addrs : <<a, r.pin>> \in v
  /\ r.at \in {"pinning", "rereading"} => <<r.addr, r.key>> \in v
  /\ r.pinned => <<r.addr, r.key>> \in v
  /\ r.at = "up" /\ r.kind = "new" => r.pinned

AllSound == \A c \in Conns : Sound(conn[c], vouched)

\* A first contact confirmed in the present epoch has the pin on the row.
Current ==
  \A c \in Conns : conn[c].pinned =>
    /\ conn[c].epoch <= epoch
    /\ conn[c].epoch = epoch => row.addr = conn[c].addr /\ row.pin = conn[c].key

\* A request to pin by hand carries a key.
Entered ==
  \A x \in Admins : adm[x].at = "read" /\ adm[x].op = "pin" => adm[x].key \in Keys

IInv == TypeOK /\ PinVouched /\ AllSound /\ Current /\ OneTrustPerEpoch /\ Entered

\* The initial state satisfies the inductive invariant.
LEMMA InitIInv == Init => IInv
  BY HostKeysAssumption
     DEF Init, IInv, TypeOK, PinVouched, AllSound, Sound, Current, OneTrustPerEpoch, Entered,
         Rows, Pins, Connections, Requests, AllOps, Shaking

\* A connection stays sound while more pairs are vouched for.
LEMMA SoundGrows ==
  ASSUME NEW r, NEW v, NEW w, v \subseteq w, Sound(r, v)
  PROVE  Sound(r, w)
  BY DEF Sound

\* A step of connection c that leaves the row alone and confirms nothing keeps
\* the invariant when it keeps c typed and sound.
LEMMA QuietStep ==
  ASSUME IInv, NEW c \in Conns, NEW r \in Connections,
         conn' = [conn EXCEPT ![c] = r],
         UNCHANGED <<store, adm>>,
         vouched \subseteq vouched', vouched' \subseteq Addrs \X Keys,
         Sound(r, vouched'),
         r.pinned => /\ conn[c].pinned /\ r.epoch = conn[c].epoch
                     /\ r.addr = conn[c].addr /\ r.key = conn[c].key
  PROVE  IInv'
<1>1. /\ conn \in [Conns -> Connections] /\ conn' \in [Conns -> Connections] /\ conn'[c] = r
      /\ \A d \in Conns : d # c => conn'[d] = conn[d]
  BY DEF IInv, TypeOK
<1>2. /\ row' = row /\ epoch' = epoch /\ lost' = lost /\ traced' = traced /\ adm' = adm
  BY DEF store
<1>3. TypeOK'
  BY <1>1, <1>2 DEF IInv, TypeOK
<1>4. PinVouched'
  BY <1>2 DEF IInv, PinVouched
<1>5. AllSound'
  <2> SUFFICES ASSUME NEW d \in Conns PROVE Sound(conn'[d], vouched')
    BY DEF AllSound
  <2>1. CASE d = c
    BY <2>1, <1>1
  <2>2. CASE d # c
    BY <2>2, <1>1, SoundGrows DEF IInv, AllSound
  <2>3. QED
    BY <2>1, <2>2
<1>6. \A d \in Conns : conn'[d].pinned =>
        /\ conn[d].pinned /\ conn'[d].epoch = conn[d].epoch
        /\ conn'[d].addr = conn[d].addr /\ conn'[d].key = conn[d].key
  BY <1>1
<1>7. Current'
  BY <1>2, <1>6 DEF IInv, Current
<1>8. OneTrustPerEpoch'
  BY <1>6 DEF IInv, OneTrustPerEpoch
<1>9. Entered'
  BY <1>2 DEF IInv, Entered
<1>10. QED
  BY <1>3, <1>4, <1>5, <1>7, <1>8, <1>9 DEF IInv

\* The steps of a connection that neither pin nor confirm keep the invariant.
LEMMA QuietIInv ==
  ASSUME IInv, NEW c \in Conns,
         \/ Resolve(c) \/ Lookup(c) \/ (\E k \in Keys : KeyExchange(c, k))
         \/ Rekey(c) \/ NextKey(c) \/ Reject(c) \/ Approve(c)
         \/ ServerAccepts(c) \/ ServerRejects(c) \/ Fail(c)
  PROVE  IInv'
<1> DEFINE r == conn[c]
<1>1. /\ conn \in [Conns -> Connections] /\ r \in Connections /\ Sound(r, vouched)
      /\ vouched \subseteq Addrs \X Keys /\ row.addr \in Addrs /\ row.pin \in Pins
  BY DEF IInv, TypeOK, AllSound, Rows
<1>2. CASE Resolve(c)
  <2> DEFINE q == [r EXCEPT !.at = "resolved", !.addr = row.addr]
  <2>1. conn' = [conn EXCEPT ![c] = q] /\ UNCHANGED <<store, adm, vouched>>
    BY <1>1, <1>2 DEF Resolve
  <2>2. q \in Connections /\ Sound(q, vouched) /\ ~q.pinned
    BY <1>1, <1>2 DEF Resolve, Connections, Sound, Shaking
  <2>3. QED
    BY <1>1, <2>1, <2>2, QuietStep
<1>3. CASE Lookup(c)
  <2> DEFINE q == [r EXCEPT !.at = "dialing", !.pin = row.pin]
  <2>1. conn' = [conn EXCEPT ![c] = q] /\ UNCHANGED <<store, adm, vouched>>
    BY <1>1, <1>3 DEF Lookup
  <2>2. q \in Connections /\ Sound(q, vouched) /\ ~q.pinned
    BY <1>1, <1>3 DEF Lookup, Connections, Sound, Shaking, IInv, PinVouched
  <2>3. QED
    BY <1>1, <2>1, <2>2, QuietStep
<1>4. ASSUME NEW k \in Keys, KeyExchange(c, k) PROVE IInv'
  <2> DEFINE q == IF r.pin \in {NoKey, k}
                    THEN [r EXCEPT !.at = "auth", !.key = k,
                                   !.kind = IF r.pin = NoKey THEN "new" ELSE "known"]
                    ELSE [r EXCEPT !.at = "refused"]
  <2>1. conn' = [conn EXCEPT ![c] = q] /\ UNCHANGED <<store, adm, vouched>>
    BY <1>1, <1>4 DEF KeyExchange
  <2>2. q \in Connections /\ Sound(q, vouched) /\ ~q.pinned
    BY <1>1, <1>4 DEF KeyExchange, Connections, Sound, Shaking, Pins
  <2>3. QED
    BY <1>1, <2>1, <2>2, QuietStep
<1>5. CASE Approve(c)
  <2> DEFINE q == [r EXCEPT !.at = IF r.provisional THEN "pinning" ELSE "signed"]
  <2>1. conn' = [conn EXCEPT ![c] = q] /\ UNCHANGED <<store, adm>>
    BY <1>1, <1>5 DEF Approve
  <2>2. /\ r.key \in Keys /\ r.addr \in Addrs
        /\ vouched' = IF r.provisional THEN vouched \cup {<<r.addr, r.key>>} ELSE vouched
    BY <1>1, <1>5 DEF Approve, Connections, Sound, Shaking
  <2>3. vouched \subseteq vouched' /\ vouched' \subseteq Addrs \X Keys
    BY <1>1, <2>2
  <2>4. Sound(r, vouched')
    BY <1>1, <2>3, SoundGrows
  <2>5. q \in Connections /\ Sound(q, vouched')
    BY <1>1, <1>5, <2>2, <2>4 DEF Approve, Connections, Sound, Shaking
  <2>6. QED
    BY <1>1, <2>1, <2>3, <2>5, QuietStep DEF Connections
<1>6. CASE Rekey(c)
  <2> DEFINE q == [r EXCEPT !.at = IF r.at \in {"auth", "signed", "up"} THEN "refused" ELSE r.at, !.dead = TRUE]
  <2>1. conn' = [conn EXCEPT ![c] = q] /\ UNCHANGED <<store, adm, vouched>>
    BY <1>1, <1>6 DEF Rekey, Connections
  <2>2. q \in Connections /\ Sound(q, vouched)
    BY <1>1, <1>6 DEF Rekey, Connections, Sound, Shaking
  <2>3. QED
    BY <1>1, <2>1, <2>2, QuietStep DEF Connections
<1>7. CASE NextKey(c)
  <2> DEFINE q == [r EXCEPT !.at = "asking", !.next = r.next + 1,
                         !.provisional = (r.kind = "new" /\ ~r.pinned)]
  <2>1. conn' = [conn EXCEPT ![c] = q] /\ UNCHANGED <<store, adm, vouched>>
    BY <1>1, <1>7 DEF NextKey, Connections
  <2>2. q \in Connections /\ Sound(q, vouched)
    BY <1>1, <1>7, HostKeysAssumption DEF NextKey, Connections, Sound, Shaking
  <2>3. QED
    BY <1>1, <2>1, <2>2, QuietStep DEF Connections
<1>8. CASE Reject(c)
  <2> DEFINE q == [r EXCEPT !.at = "auth"]
  <2>1. conn' = [conn EXCEPT ![c] = q] /\ UNCHANGED <<store, adm, vouched>>
    BY <1>1, <1>8 DEF Reject, Connections
  <2>2. q \in Connections /\ Sound(q, vouched)
    BY <1>1, <1>8 DEF Reject, Connections, Sound, Shaking
  <2>3. QED
    BY <1>1, <2>1, <2>2, QuietStep DEF Connections
<1>9. CASE ServerAccepts(c)
  <2> DEFINE q == [r EXCEPT !.at = IF r.kind = "new" /\ ~r.pinned THEN "refused" ELSE "up"]
  <2>1. conn' = [conn EXCEPT ![c] = q] /\ UNCHANGED <<store, adm, vouched>>
    BY <1>1, <1>9 DEF ServerAccepts, Connections
  <2>2. q \in Connections /\ Sound(q, vouched)
    BY <1>1, <1>9 DEF ServerAccepts, Connections, Sound, Shaking
  <2>3. QED
    BY <1>1, <2>1, <2>2, QuietStep DEF Connections
<1>10. CASE ServerRejects(c)
  <2> DEFINE q == [r EXCEPT !.at = "auth"]
  <2>1. conn' = [conn EXCEPT ![c] = q] /\ UNCHANGED <<store, adm, vouched>>
    BY <1>1, <1>10 DEF ServerRejects, Connections
  <2>2. q \in Connections /\ Sound(q, vouched)
    BY <1>1, <1>10 DEF ServerRejects, Connections, Sound, Shaking
  <2>3. QED
    BY <1>1, <2>1, <2>2, QuietStep DEF Connections
<1>11. CASE Fail(c)
  <2> DEFINE q == [r EXCEPT !.at = "refused"]
  <2>1. conn' = [conn EXCEPT ![c] = q] /\ UNCHANGED <<store, adm, vouched>>
    BY <1>1, <1>11 DEF Fail, Connections
  <2>2. q \in Connections /\ Sound(q, vouched)
    BY <1>1, <1>11 DEF Fail, Connections, Sound, Shaking
  <2>3. QED
    BY <1>1, <2>1, <2>2, QuietStep DEF Connections
<1>12. QED
  BY <1>2, <1>3, <1>4, <1>5, <1>6, <1>7, <1>8, <1>9, <1>10, <1>11

\* A step that confirms c: the row then has c's address and key, and whatever
\* was confirmed in this epoch before has them too.
LEMMA ConfirmStep ==
  ASSUME IInv, NEW c \in Conns, NEW r \in Connections,
         conn' = [conn EXCEPT ![c] = r],
         UNCHANGED <<adm, vouched, epoch, lost, traced>>,
         row' \in Rows, row'.addr = row.addr, row.pin # NoKey => row'.pin = row.pin,
         Sound(r, vouched), r.epoch = epoch, r.pinned,
         row'.addr = r.addr, row'.pin = r.key
  PROVE  IInv'
<1>1. /\ conn \in [Conns -> Connections] /\ conn' \in [Conns -> Connections] /\ conn'[c] = r
      /\ \A d \in Conns : d # c => conn'[d] = conn[d]
      /\ \A d \in Conns : Sound(conn[d], vouched)
      /\ vouched \subseteq Addrs \X Keys /\ epoch \in Nat
  BY DEF IInv, TypeOK, AllSound
<1>2. <<r.addr, r.key>> \in vouched
  BY DEF Sound
<1>3. TypeOK'
  BY <1>1 DEF IInv, TypeOK
<1>4. PinVouched'
  BY <1>2 DEF PinVouched
<1>5. AllSound'
  BY <1>1 DEF AllSound
<1>6. \A d \in Conns : conn[d].pinned /\ conn[d].epoch = epoch =>
        row'.addr = conn[d].addr /\ row'.pin = conn[d].key
  <2> SUFFICES ASSUME NEW d \in Conns, conn[d].pinned, conn[d].epoch = epoch
               PROVE  row'.addr = conn[d].addr /\ row'.pin = conn[d].key
    OBVIOUS
  <2>1. row.addr = conn[d].addr /\ row.pin = conn[d].key
    BY DEF IInv, Current
  <2>2. conn[d].key \in Keys
    BY <1>1 DEF Sound
  <2>3. QED
    BY <2>1, <2>2, HostKeysAssumption
<1>7. Current'
  BY <1>1, <1>6 DEF IInv, Current
<1>8. OneTrustPerEpoch'
  <2> SUFFICES ASSUME NEW d \in Conns, NEW e \in Conns, conn'[d].pinned, conn'[e].pinned,
                      conn'[d].epoch = conn'[e].epoch
               PROVE  conn'[d].key = conn'[e].key /\ conn'[d].addr = conn'[e].addr
    BY DEF OneTrustPerEpoch
  <2>1. CASE conn'[d].epoch = epoch
    BY <2>1, <1>1, <1>6
  <2>2. CASE conn'[d].epoch # epoch
    <3>1. d # c /\ e # c
      BY <2>2, <1>1
    <3>2. QED
      BY <3>1, <1>1 DEF IInv, OneTrustPerEpoch
  <2>3. QED
    BY <2>1, <2>2
<1>9. Entered'
  BY DEF IInv, Entered
<1>10. QED
  BY <1>3, <1>4, <1>5, <1>7, <1>8, <1>9 DEF IInv

\* The compare-and-set and the read after a lost one keep the invariant.
LEMMA PinIInv ==
  ASSUME IInv, NEW c \in Conns, PinCAS(c) \/ PinRead(c)
  PROVE  IInv'
<1> DEFINE r == conn[c]
           q == [r EXCEPT !.at = "signed", !.pinned = TRUE, !.epoch = epoch]
           rereading == [r EXCEPT !.at = "rereading"]
           auth == [r EXCEPT !.at = "auth"]
<1>1. /\ conn \in [Conns -> Connections] /\ r \in Connections /\ Sound(r, vouched)
      /\ vouched \subseteq Addrs \X Keys /\ row \in Rows /\ epoch \in Nat
  BY DEF IInv, TypeOK, AllSound
<1>2. <<r.addr, r.key>> \in vouched /\ r.addr \in Addrs /\ r.key \in Keys /\ r.kind # "unseen"
  BY <1>1 DEF PinCAS, PinRead, Sound, Shaking
<1>3. /\ q \in Connections /\ Sound(q, vouched) /\ q.epoch = epoch /\ q.pinned
      /\ q.addr = r.addr /\ q.key = r.key
  BY <1>1, <1>2 DEF Connections, Sound, Shaking
<1>4. CASE PinCAS(c) /\ Free(r.addr)
  <2>1. /\ conn' = [conn EXCEPT ![c] = q] /\ row' = [row EXCEPT !.pin = r.key]
        /\ row.pin = NoKey /\ row.addr = r.addr
        /\ UNCHANGED <<adm, vouched, epoch, lost, traced>>
    BY <1>1, <1>4 DEF PinCAS, Free
  <2>2. row' \in Rows /\ row'.addr = r.addr /\ row'.pin = r.key
    BY <2>1, <1>1, <1>2 DEF Rows, Pins
  <2>3. QED
    BY <1>3, <2>1, <2>2, ConfirmStep
<1>5. CASE PinCAS(c) /\ ~Free(r.addr)
  <2>1. conn' = [conn EXCEPT ![c] = rereading] /\ UNCHANGED <<store, adm, vouched>>
    BY <1>1, <1>5 DEF PinCAS, store
  <2>2. rereading \in Connections /\ Sound(rereading, vouched)
    BY <1>1, <1>2 DEF Connections, Sound, Shaking
  <2>3. QED
    BY <1>1, <2>1, <2>2, QuietStep DEF Connections
<1>6. CASE PinRead(c) /\ SamePin(c)
  <2>1. /\ conn' = [conn EXCEPT ![c] = q] /\ row.addr = r.addr /\ row.pin = r.key /\ row' = row
        /\ UNCHANGED <<adm, vouched, epoch, lost, traced>>
    BY <1>1, <1>6 DEF PinRead, SamePin, store
  <2>2. QED
    BY <1>1, <1>3, <2>1, ConfirmStep
<1>7. CASE PinRead(c) /\ ~SamePin(c)
  <2>1. conn' = [conn EXCEPT ![c] = auth] /\ UNCHANGED <<store, adm, vouched>>
    BY <1>1, <1>7 DEF PinRead
  <2>2. auth \in Connections /\ Sound(auth, vouched)
    BY <1>1, <1>2 DEF Connections, Sound, Shaking
  <2>3. QED
    BY <1>1, <2>1, <2>2, QuietStep DEF Connections
<1>8. QED
  BY <1>4, <1>5, <1>6, <1>7

\* A step of a request: either the row is as before, or it had no pin and keeps
\* its address, or a new epoch begins.
LEMMA RowStep ==
  ASSUME IInv, NEW x \in Admins, NEW q \in Requests,
         adm' = [adm EXCEPT ![x] = q],
         q.at = "read" /\ q.op = "pin" => q.key \in Keys,
         conn' = conn, row' \in Rows, epoch' \in Nat, lost' \in Nat, traced' \in Nat,
         vouched \subseteq vouched', vouched' \subseteq Addrs \X Keys,
         row'.pin # NoKey => <<row'.addr, row'.pin>> \in vouched',
         epoch' # epoch + 1 => epoch' = epoch /\ (row' = row \/ row.pin = NoKey)
  PROVE  IInv'
<1>1. /\ adm \in [Admins -> Requests] /\ epoch \in Nat /\ vouched \subseteq Addrs \X Keys
      /\ conn \in [Conns -> Connections]
  BY DEF IInv, TypeOK
<1>2. TypeOK'
  BY <1>1 DEF IInv, TypeOK
<1>3. PinVouched'
  BY DEF PinVouched
<1>4. AllSound'
  BY SoundGrows DEF IInv, AllSound
<1>5. Current'
  <2> SUFFICES ASSUME NEW c \in Conns, conn[c].pinned
               PROVE  /\ conn[c].epoch <= epoch'
                      /\ conn[c].epoch = epoch' =>
                           row'.addr = conn[c].addr /\ row'.pin = conn[c].key
    BY DEF Current
  <2>1. /\ conn[c].epoch <= epoch /\ conn[c].epoch \in Nat
        /\ conn[c].epoch = epoch => row.addr = conn[c].addr /\ row.pin = conn[c].key
    BY <1>1 DEF IInv, Current, Connections
  <2>2. conn[c].key \in Keys
    BY <1>1 DEF IInv, AllSound, Sound
  <2>3. CASE epoch' = epoch + 1
    BY <2>1, <2>3, <1>1
  <2>4. CASE epoch' # epoch + 1
    BY <2>1, <2>2, <2>4, HostKeysAssumption
  <2>5. QED
    BY <2>3, <2>4
<1>6. OneTrustPerEpoch'
  BY DEF IInv, OneTrustPerEpoch
<1>7. Entered'
  BY <1>1 DEF IInv, Entered
<1>8. QED
  BY <1>2, <1>3, <1>4, <1>5, <1>6, <1>7 DEF IInv

\* The steps of a request keep the invariant.
LEMMA RequestIInv ==
  ASSUME IInv, NEW x \in Admins, Request(x)
  PROVE  IInv'
<1> DEFINE r == adm[x]
<1>1. /\ adm \in [Admins -> Requests] /\ r \in Requests /\ row \in Rows
      /\ row.addr \in Addrs /\ row.pin \in Pins
      /\ vouched \subseteq Addrs \X Keys /\ epoch \in Nat /\ lost \in Nat /\ traced \in Nat
      /\ row.pin # NoKey => <<row.addr, row.pin>> \in vouched
      /\ r.at = "read" /\ r.op = "pin" => r.key \in Keys
  BY DEF IInv, TypeOK, PinVouched, Entered, Rows
<1>2. ASSUME NEW op \in AllOps, NEW a \in Addrs, NEW k \in Pins, op = "pin" => k \in Keys,
             Read(x, op, a, k)
      PROVE  IInv'
  <2> DEFINE q == [at |-> "read", op |-> op, old |-> row, addr |-> a, key |-> k]
  <2>1. q \in Requests /\ (q.op = "pin" => q.key \in Keys)
    BY <1>1, <1>2 DEF Requests
  <2>2. adm' = [adm EXCEPT ![x] = q] /\ UNCHANGED <<store, conn, vouched>>
    BY <1>2 DEF Read
  <2>3. QED
    BY <1>1, <2>1, <2>2, RowStep DEF store
<1> DEFINE ends(needed) == [r EXCEPT !.at = IF needed THEN "audit" ELSE "done"]
<1>3. \A needed : ends(needed) \in Requests /\ ends(needed).at # "read"
  BY <1>1 DEF Requests
<1>4. CASE Update(x)
  <2> DEFINE needed == r.old.pin # NoKey /\ r.old.addr # r.addr
             q == ends(needed)
  <2>1. /\ adm' = [adm EXCEPT ![x] = q] /\ UNCHANGED <<conn, vouched, traced>>
        /\ row' = [addr |-> r.addr, pin |-> IF row.addr # r.addr THEN NoKey ELSE row.pin]
        /\ epoch' = IF row.addr # r.addr THEN epoch + 1 ELSE epoch
        /\ lost' \in Nat /\ r.addr \in Addrs
    BY <1>1, <1>4 DEF Update, Audit, Requests
  <2>2. /\ row' \in Rows /\ (row'.pin # NoKey => <<row'.addr, row'.pin>> \in vouched)
        /\ epoch' \in Nat /\ lost' \in Nat /\ traced' \in Nat
        /\ epoch' # epoch + 1 => epoch' = epoch /\ row' = row
    BY <1>1, <2>1 DEF Rows, Pins
  <2>3. q \in Requests /\ q.at # "read"
    BY <1>3
  <2> HIDE DEF q
  <2>4. QED
    BY <1>1, <2>1, <2>2, <2>3, RowStep, Zenon
<1>5. CASE Clear(x)
  <2> DEFINE needed == row.pin # NoKey /\ r.old.pin # NoKey
             q == ends(needed)
  <2>1. /\ adm' = [adm EXCEPT ![x] = q] /\ UNCHANGED <<conn, vouched, lost, traced>>
        /\ row' = [row EXCEPT !.pin = NoKey]
        /\ epoch' = IF row.pin # NoKey THEN epoch + 1 ELSE epoch
    BY <1>1, <1>5 DEF Clear, Audit
  <2>2. /\ row' \in Rows /\ row'.pin = NoKey
        /\ epoch' \in Nat /\ (epoch' # epoch + 1 => epoch' = epoch /\ row.pin = NoKey)
    BY <1>1, <2>1 DEF Rows, Pins
  <2>3. q \in Requests /\ q.at # "read"
    BY <1>3
  <2> HIDE DEF q
  <2>4. QED
    BY <1>1, <2>1, <2>2, <2>3, RowStep, Zenon
<1>6. CASE ManualPin(x)
  <2>1. /\ adm' = [adm EXCEPT ![x] = ends(FALSE)] /\ UNCHANGED <<conn, epoch, lost, traced>>
        /\ vouched' = vouched \cup {<<r.old.addr, r.key>>}
        /\ row' = IF Free(r.old.addr) THEN [row EXCEPT !.pin = r.key] ELSE row
        /\ r.old.addr \in Addrs /\ r.key \in Keys
    BY <1>1, <1>6 DEF ManualPin, Audit, Requests, Rows
  <2>2. /\ row' \in Rows /\ (row'.pin # NoKey => <<row'.addr, row'.pin>> \in vouched')
        /\ row' = row \/ row.pin = NoKey
        /\ vouched \subseteq vouched' /\ vouched' \subseteq Addrs \X Keys
    BY <1>1, <2>1 DEF Rows, Pins, Free
  <2>3. QED
    BY <1>1, <1>3, <2>1, <2>2, RowStep
<1>7. CASE AuditCleared(x)
  <2>1. /\ adm' = [adm EXCEPT ![x] = ends(FALSE)] /\ UNCHANGED <<row, epoch, lost, conn, vouched>>
        /\ traced' \in Nat
    BY <1>1, <1>7 DEF AuditCleared
  <2>2. QED
    BY <1>1, <1>3, <2>1, RowStep
<1>8. QED
  BY <1>2, <1>4, <1>5, <1>6, <1>7, HostKeysAssumption DEF Request, AllOps, Pins

\* Every step keeps the invariant.
LEMMA NextIInv == IInv /\ [Next]_vars => IInv'
<1> SUFFICES ASSUME IInv, [Next]_vars PROVE IInv'
  OBVIOUS
<1>1. CASE UNCHANGED vars
  BY <1>1 DEF vars, IInv, TypeOK, PinVouched, AllSound, Current, OneTrustPerEpoch, Entered
<1>2. ASSUME NEW c \in Conns, Connection(c) PROVE IInv'
  BY <1>2, QuietIInv, PinIInv DEF Connection
<1>3. ASSUME NEW x \in Admins, Request(x) PROVE IInv'
  BY <1>3, RequestIInv
<1>4. QED
  BY <1>1, <1>2, <1>3 DEF Next

\* The invariant makes sessions vouched: a first contact that is up is pinned,
\* a later one is on the pin it looked up.
LEMMA UpVouched == IInv => SessionVouched
<1> SUFFICES ASSUME IInv, NEW c \in Conns, conn[c].at = "up"
             PROVE  /\ conn[c].kind = "new" => <<conn[c].addr, conn[c].key>> \in vouched
                    /\ conn[c].kind = "known" => \E a \in Addrs : <<a, conn[c].key>> \in vouched
  BY DEF SessionVouched
<1>1. Sound(conn[c], vouched)
  BY DEF IInv, AllSound
<1>2. QED
  BY <1>1, HostKeysAssumption DEF Sound

\* The pin on the row is vouched for at the row's address, no session is up on
\* a key nobody vouched for, and first contacts confirmed in one epoch agree:
\* Connect, PinHostKey and the endpoint handlers, for any number of each.
THEOREM HostKeysSafety ==
  Spec => [](TypeOK /\ PinVouched /\ SessionVouched /\ OneTrustPerEpoch)
<1>1. IInv => TypeOK /\ PinVouched /\ SessionVouched /\ OneTrustPerEpoch
  BY UpVouched DEF IInv
<1>2. QED
  BY <1>1, InitIInv, NextIInv, PTL DEF Spec

\* No step overwrites a pin by another: PinEndpointHostKey and the manual pin
\* write only where there is none, Update and Clear only remove.
THEOREM HostKeysNeverReplaced == Spec => PinNeverReplaced
<1> DEFINE Kept == row.pin # NoKey /\ row'.pin # row.pin => row'.pin = NoKey
<1>1. IInv /\ [Next]_vars => [Kept]_vars
  <2> SUFFICES ASSUME IInv, Next PROVE Kept
    OBVIOUS
  <2>1. row \in Rows
    BY DEF IInv, TypeOK
  <2>2. ASSUME NEW c \in Conns, Connection(c) PROVE Kept
    BY <2>1, <2>2 DEF Connection, Resolve, Lookup, KeyExchange, Rekey, NextKey, Reject, Approve,
       PinCAS, PinRead, ServerAccepts, ServerRejects, Fail, Free, store
  <2>3. ASSUME NEW x \in Admins, Request(x) PROVE Kept
    <3>1. CASE Update(x)
      BY <2>1, <3>1 DEF Update, Rows
    <3>2. CASE Clear(x)
      BY <2>1, <3>2 DEF Clear, Rows
    <3>3. CASE ManualPin(x)
      BY <2>1, <3>3 DEF ManualPin, Free
    <3>4. CASE UNCHANGED row
      BY <3>4
    <3>5. QED
      BY <2>3, <3>1, <3>2, <3>3, <3>4 DEF Request, Read, AuditCleared, store
  <2>4. QED
    BY <2>2, <2>3 DEF Next
<1>2. QED
  BY <1>1, InitIInv, NextIInv, PTL DEF Spec, PinNeverReplaced
=============================================================================
