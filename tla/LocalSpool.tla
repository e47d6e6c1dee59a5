----------------------------- MODULE LocalSpool -----------------------------
(***************************************************************************)
(* The table behind agent/src/pqc_agent/spool.py: one SQLite table per run *)
(* and node, written by the agent's main thread and read and acknowledged  *)
(* by its sender thread.  Rows are only ever added, and always at MAX+1,   *)
(* so the table is a sequence and a row's position is its sequence number. *)
(* Every operation runs in one transaction under the spool's lock.         *)
(***************************************************************************)
EXTENDS Naturals, Sequences, FiniteSets

CONSTANTS
  Mode,      \* the values of an agent's --mode, "unknown" among them
  NoMode     \* the mode of an event that is not NODE_METADATA

(***************************************************************************)
(* A row: whether its payload was serialised with the sequence number in   *)
(* it (append stores the payload before the number is known), the mode its *)
(* NODE_METADATA payload reports, and the acked column.                    *)
(***************************************************************************)
Row == [numbered : BOOLEAN, mode : Mode \cup {NoMode}, acked : BOOLEAN]

Sequences(rows) == 1 .. Len(rows)

\* append: insert at MAX(sequence) + 1 a payload that has no number yet.
AppendRow(rows, mode) ==
  Append(rows, [numbered |-> FALSE, mode |-> mode, acked |-> FALSE])

\* replace: overwrite the payload of a row with the numbered one.
ReplaceRow(rows, s) == [rows EXCEPT ![s].numbered = TRUE]

Unacked(rows) == {s \in Sequences(rows) : ~ rows[s].acked}

\* Mutant of Pending: the newest rows first.
PendingNewestFirst(rows, limit) ==
  {s \in Unacked(rows) : Cardinality({r \in Unacked(rows) : r > s}) < limit}

\* pending: the first `limit` rows, by sequence, that are not acknowledged.
Pending(rows, limit) ==
  {s \in Unacked(rows) : Cardinality({r \in Unacked(rows) : r < s}) < limit}

\* Mutants of Acknowledge: one row too many, one too few, or exactly the rows
\* of this ack, which forgets what a newer ack said.
AcknowledgeNext(rows, last, missing) ==
  [s \in Sequences(rows) |->
     [rows[s] EXCEPT !.acked = s \notin missing /\ (s <= last + 1 \/ @)]]

AcknowledgeBelow(rows, last, missing) ==
  [s \in Sequences(rows) |->
     [rows[s] EXCEPT !.acked = s \notin missing /\ (s < last \/ @)]]

AcknowledgeExactly(rows, last, missing) ==
  [s \in Sequences(rows) |->
     [rows[s] EXCEPT !.acked = s \notin missing /\ s <= last]]

\* A mutant that believes the cumulative number alone.
AcknowledgeCumulative(rows, last, missing) ==
  [s \in Sequences(rows) |-> [rows[s] EXCEPT !.acked = s <= last \/ @]]

\* acknowledge: everything up to `last` but the rows reported missing.
Acknowledge(rows, last, missing) ==
  [s \in Sequences(rows) |->
     [rows[s] EXCEPT !.acked = IF s \in missing THEN FALSE
                               ELSE s <= last \/ @]]

Acked(rows) == {s \in Sequences(rows) : rows[s].acked}
=============================================================================
