------------------------- MODULE MCCommandProtocol -------------------------
(* Instances of CommandProtocol for TLC. *)
EXTENDS CommandProtocol, TLC

CONSTANTS c1, c2, c3, c4, order, room, p1, p2

(* hashtextextended without a collision. *)
MCLockOf == [x \in Keys \cup Previews |-> x]
MCLockIds == Keys \cup Previews

(* Commands that lock the same two rows in opposite orders, a catalog       *)
(* command, which locks none, and one that locks a single row.              *)
MCLockSeq ==
    [c \in Commands |-> CASE c = c1 -> <<order, room>> [] c = c2 -> <<room, order>>
                           [] c = c4 -> <<order>> [] OTHER -> <<>>]
MCTarget == [c \in Commands |-> IF c = c2 THEN 0 ELSE 1]
MCEnvelopes == [p \in Previews |-> Commands]

(* A run starts with every row in the same state, which the first command   *)
(* may change or leave as it is.                                            *)
MCInit == Init /\ \A x \in Resources : dom[x] = 0

(* A run looks at receipts, with one command and any confirmation, or at    *)
(* rows, with two different commands that are confirmed as shown.  Beside a *)
(* request for a receipt that previews, resolves or confirms something      *)
(* else, the other one confirms what was shown.                             *)
Asked(p) ==
    {preview[q].cmd : q \in {q \in {p} : preview[q].status # "NONE"}} \cup
    {call[r].cmd : r \in {r \in Requests : call[r].op = "preview" /\ call[r].preview = p}}
Unmatched(r) ==
    call[r].op \in {"preview", "resolve"} \/ (call[r].op = "confirm" /\ call[r].body # "match")
Receipts ==
    /\ \A p \in Previews : Asked(p) \subseteq {c4}
    /\ Cardinality({r \in Requests : Unmatched(r)}) <= 1
Rows ==
    /\ \A p \in Previews : Asked(p) \subseteq {c1} \/ Asked(p) \subseteq {c2, c3}
    /\ \A p, q \in Previews : p # q /\ Asked(p) # {} => ~(Asked(p) \cup Asked(q) \subseteq {c2, c3})
    /\ \A p, q \in Previews : p # q /\ Asked(p) # {} => ~(Asked(p) = {c1} /\ Asked(q) = {c1})
    /\ \A r \in Requests : /\ call[r].op # "resolve"
                           /\ call[r].op = "confirm" => call[r].body = "match"
MCNext == Next /\ (Receipts' \/ Rows')
MCSpec == MCInit /\ [][MCNext]_vars

(* A run that starts after both Previews were created; no further ones.     *)
MCNoEnvelope == [p \in Previews |-> {}]
MCPreviewed ==
    /\ exec = [k \in Keys |-> NoExec]
    /\ dom = [x \in Resources |-> 0]
    /\ preview = [p \in Previews |->
                    LET c == IF p = p1 THEN c1 ELSE c2
                    IN  [status |-> "OPEN", cmd |-> c, shown |-> Effect(c, dom), due |-> FALSE]]
    /\ applied = [p \in Previews |-> 0]
    /\ pc = [r \in Requests |-> "idle"]
    /\ call = [r \in Requests |-> NoCall]
    /\ rows = [r \in Requests |-> 0]
    /\ snap = [r \in Requests |-> NoSnap]
    /\ ans = [r \in Requests |-> Error("NONE")]

Symmetry == Permutations(Requests) \cup Permutations(Keys) \cup Permutations(Previews)
=============================================================================
