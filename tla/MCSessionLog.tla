---------------------------- MODULE MCSessionLog ----------------------------
(* Instance of SessionLog for TLC. *)
EXTENDS SessionLog

Nothing == [k \in Kinds |-> 0]

\* a log that is never trimmed: an edit, a fault and a crash
Untrimmed == [Nothing EXCEPT !["message"] = 2, !["placeholder"] = 1,
                 !["edit"] = 1, !["fault"] = 1, !["crash"] = 1]

\* two seals, the second over the first, with a rewind and a fault
Resealed == [Nothing EXCEPT !["message"] = 2, !["boundary"] = 2,
                !["rewind"] = 1, !["trim"] = 2, !["fault"] = 1]

\* a write that fails behind a sealed prefix
TornBehind == [Nothing EXCEPT !["message"] = 3, !["boundary"] = 1,
                  !["trim"] = 1, !["fault"] = 1]

\* an edit of a sealed message, or of one behind the seal
EditedBehind == [Nothing EXCEPT !["message"] = 3, !["boundary"] = 1,
                    !["trim"] = 1, !["edit"] = 1]

\* an edit of a sealed message and a rewind that reads it back
EditedReread == [Nothing EXCEPT !["message"] = 2, !["boundary"] = 1,
                    !["trim"] = 1, !["edit"] = 1, !["rewind"] = 1]

LogBudgets == {Untrimmed, Resealed, TornBehind, EditedBehind, EditedReread}
=============================================================================
