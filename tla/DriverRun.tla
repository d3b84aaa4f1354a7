------------------------------ MODULE DriverRun -----------------------------
(***************************************************************************)
(* What a benchmark program is to the script that starts it: it works for  *)
(* a while, then either reports its times and what became of the message,  *)
(* or gives up without a report.  There are three ways to report:          *)
(*   "printed"  the verdict is printed with the times, the exit status is  *)
(*              0 whatever the verdict;                                    *)
(*   "status"   the times are printed only if the message came back, or    *)
(*              else the exit status is 1;                                 *)
(*   "none"     the times are printed, and nothing is verified.            *)
(***************************************************************************)
VARIABLES
  verdict,       (* One of the three.                                       *)
  intact,        (* Whether what was decrypted is the message.              *)
  status,        (* "running", the exit status, or "killed".                *)
  printed        (* The report.                                             *)

vars == <<verdict, intact, status, printed>>

Init ==
  /\ verdict \in {"printed", "status", "none"}
  /\ intact \in BOOLEAN
  /\ status = "running" /\ printed = "nothing"

Work ==
  /\ status = "running"
  /\ intact' \in BOOLEAN
  /\ UNCHANGED <<verdict, status, printed>>

Report ==
  /\ status = "running"
  /\ \/ /\ verdict = "printed" /\ status' = "0"
        /\ printed' = IF intact THEN "PASSED" ELSE "FAILED"
     \/ verdict = "status" /\ intact /\ status' = "0" /\ printed' = "times"
     \/ verdict = "status" /\ ~intact /\ status' = "1" /\ UNCHANGED printed
     \/ verdict = "none" /\ status' = "0" /\ printed' = "times"
  /\ UNCHANGED <<verdict, intact>>

Abort ==
  /\ status = "running"
  /\ status' \in {"1", "2", "killed"}
  /\ UNCHANGED <<verdict, intact, printed>>

Next == Work \/ Report \/ Abort

(* A program comes to an end.                                              *)
Spec == Init /\ [][Next]_vars /\ WF_vars(Report \/ Abort)
=============================================================================
