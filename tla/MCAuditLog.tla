----------------------------- MODULE MCAuditLog -----------------------------
(* AuditLog for TLC: who may do what. *)
EXTENDS AuditLog

CONSTANTS p1, p2, p3

TwoProcs   == {p1, p2}
ThreeProcs == {p1, p2, p3}

(* Two append, a third verifies. *)
AppendAndVerify ==
  [p \in ThreeProcs |-> IF p = p3 THEN {"verify"} ELSE {"append"}]

(* One appends, the other does everything. *)
AppendBeside ==
  [p \in TwoProcs |-> IF p = p1 THEN {"append"} ELSE {"append", "rotate", "verify"}]

OneEach   == [p \in TwoProcs |-> IF p = p1 THEN {"append"} ELSE {"verify"}]

(* Somebody runs `dl audit rotate` and verifies while another appends. *)
RotateBeside ==
  [p \in TwoProcs |-> IF p = p1 THEN {"append"} ELSE {"rotate", "verify"}]
=============================================================================
