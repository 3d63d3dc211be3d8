--------------------------- MODULE MCTerminalIdle ---------------------------
(***************************************************************************)
(* Sessions that are up when the idle janitor meets them: Create has       *)
(* returned, the pump runs and the open row is written. What Create can do *)
(* to a session is checked by the runs of module Terminal itself.          *)
(***************************************************************************)
EXTENDS Terminal

UpInit ==
  /\ registered = Sessions /\ destroyed = FALSE
  /\ status = [s \in Sessions |-> "open"] /\ reason = [s \in Sessions |-> ""]
  /\ adopted = Sessions /\ cancelled = {} /\ abandoned = {} /\ stale = {} /\ shut = {}
  /\ at = [t \in Threads |-> [s \in Sessions |->
             IF t = "create" THEN "done" ELSE IF t = "pump" THEN "recv" ELSE "off"]]
  /\ ev = [t \in Threads |-> [s \in Sessions |-> NoEvent]]
  /\ call = [k \in Callers |-> "ready"]
  /\ stream = [s \in Sessions |-> "live"]
  /\ sent = [s \in Sessions |-> 0] /\ taken = [s \in Sessions |-> 0]
  /\ buf = [s \in Sessions |-> 0] /\ removals = [s \in Sessions |-> 0]
  /\ heard = [s \in Sessions |-> <<[status |-> "open", prev |-> "opening", reason |-> ""]>>]
  /\ audit = [s \in Sessions |-> [status |-> "open", reason |-> ""]]

UpSpec == UpInit /\ [][Next]_vars /\ Fairness

=============================================================================
