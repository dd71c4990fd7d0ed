------------------------------ MODULE GapFill ------------------------------
(***************************************************************************)
(* What crypto-backfill promises, without saying how: it is asked to fill  *)
(* a window, adds rows the table wants in that window and has no row for,  *)
(* and at last gives a verdict.  A good verdict means that nothing wanted  *)
(* is missing.  It says nothing of queries, chunks and read-backs; another *)
(* writer adds rows of its own at any time.                                *)
(***************************************************************************)
EXTENDS Naturals

CONSTANTS
    Rows,
    KeyOf,     \* the dedup key of each row
    Existing,  \* rows of the table in the beginning
    Live,      \* rows of the other writer
    Windows,
    Wanted     \* of each window, the rows that may be copied into the table

VARIABLES
    copies,   \* copies of each row in the table
    window,   \* what the tool is, or was last, asked to fill
    verdict   \* "none" until it has said how it went: "ok", "err"

gapVars == <<copies, window, verdict>>

KeysIn(S) == {KeyOf[r] : r \in S}
Present == {r \in Rows : copies[r] > 0}

GapInit ==
    /\ copies = [r \in Rows |-> IF r \in Existing THEN 1 ELSE 0]
    /\ window \in Windows
    /\ verdict = "none"

Ask(w) ==
    /\ window' = w
    /\ verdict' = "none"
    /\ UNCHANGED copies

(* One commit: of new keys only, each once, all of S or none of it. *)
Add(S) ==
    /\ KeysIn(S) \intersect KeysIn(Present) = {}
    /\ \A r, n \in S : KeyOf[r] = KeyOf[n] => r = n
    /\ copies' = [r \in Rows |-> IF r \in S THEN 1 ELSE copies[r]]
    /\ UNCHANGED window

(* Before its verdict, the tool adds rows of the window; it may fail with    *)
(* what it adds.                                                             *)
Fill(S) ==
    /\ verdict = "none"
    /\ Add(S)
    /\ verdict' \in {"none", "err"}

Report ==
    /\ verdict = "none"
    /\ \/ verdict' = "err"
       \/ verdict' = "ok" /\ KeysIn(Wanted[window]) \subseteq KeysIn(Present)
    /\ UNCHANGED <<copies, window>>

AddLive(S) ==
    /\ Add(S)
    /\ UNCHANGED verdict

GapNext ==
    \/ \E w \in Windows : Ask(w)
    \/ \E S \in SUBSET Wanted[window] : Fill(S)
    \/ \E S \in SUBSET Live : AddLive(S)
    \/ Report

GapSpec == GapInit /\ [][GapNext]_gapVars

=============================================================================
