----------------------------- MODULE MCStateStore -----------------------------
(* Small instances of StateStore. *)
EXTENDS StateStore

CONSTANTS initial, good, bad

MCDocs == {initial, good, bad}
MCValidDocs == {initial, good}

===============================================================================
