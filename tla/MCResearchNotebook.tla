------------------------- MODULE MCResearchNotebook -------------------------
(* Small instances of ResearchNotebook for TLC. *)
EXTENDS ResearchNotebook

CONSTANTS k1, k2, k3, b1, b2

Ask(key, kind, target, blob) ==
  [key |-> key, kind |-> kind, target |-> target, blob |-> blob]

\* A note, a note with an attachment that may replace the first record, the
\* deletion of the first record, and another request under a key in use with an
\* attachment the store may have no room for.
FourRequests == {Ask(k1, "note", 0, NoBlob), Ask(k2, "note", 1, b1),
                 Ask(k3, "tombstone", 1, NoBlob), Ask(k1, "review", 0, b2)}

=============================================================================
