------------------------------ MODULE AppendLog ------------------------------
(***************************************************************************)
(* What the research notebook promises (the docstring of                   *)
(* src/vcstudio/project/research_notebook.py: "Records are an append-only  *)
(* hash chain"): one log that only grows, by whole records, each request   *)
(* recorded once under its key, and edits and deletions only of records    *)
(* that are still active.                                                  *)
(***************************************************************************)
EXTENDS Naturals, Sequences

CONSTANT Requests   \* [key, kind, target, blob]: what may be asked for

VARIABLE log

\* A record: the request and its revision.
RowOf(request, rev) ==
  [key |-> request.key, kind |-> request.kind, target |-> request.target,
   blob |-> request.blob, rev |-> rev]

\* Neither a tombstone nor replaced or deleted by a later record.
Active(rows) ==
  {i \in 1..Len(rows) :
     /\ rows[i].kind # "tombstone"
     /\ \A j \in 1..Len(rows) : rows[j].target # i}

\* A replacement keeps the type of the record it replaces.
Allowed(rows, request) ==
  request.target # 0 =>
    /\ request.target \in Active(rows)
    /\ request.kind \in {"tombstone", rows[request.target].kind}

Used(rows, key) == \E i \in 1..Len(rows) : rows[i].key = key

Init == log = <<>>

Write(request) ==
  /\ ~Used(log, request.key)
  /\ Allowed(log, request)
  /\ log' = Append(log, RowOf(request, Len(log) + 1))

Next == \E request \in Requests : Write(request)

Spec == Init /\ [][Next]_log

=============================================================================
