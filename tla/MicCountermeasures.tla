------------------------- MODULE MicCountermeasures -------------------------
(***************************************************************************)
(* TKIP countermeasures (8192cd_security.c): the first MIC failure starts  *)
(* a timer, a second one while it runs starts the timer during which       *)
(* associations are refused.  Time is abstracted: a timer that is pending  *)
(* may run out.  Its handler tests that the driver is open and then clears *)
(* the flag; frames, and with them MIC failures, may come in between.      *)
(***************************************************************************)

VARIABLES
  mic,      \* the two timers (pending or not) and their flags
  handler   \* the timer whose handler is between its test and its end

micVars == <<mic, handler>>

MicTypeOK ==
  /\ mic \in [MIC_check_timer : BOOLEAN, MIC_timer_on : BOOLEAN,
              assoc_reject_timer : BOOLEAN, assoc_reject_on : BOOLEAN]
  /\ handler \in {"none", "MIC_check", "assoc_reject"}

NoTimers ==
  [MIC_check_timer |-> FALSE, MIC_timer_on |-> FALSE,
   assoc_reject_timer |-> FALSE, assoc_reject_on |-> FALSE]

MicInit == mic = NoTimers /\ handler = "none"

\* DOT11_Indicate_MIC_Failure when no failure is on record
FirstFailure ==
  /\ ~mic.MIC_timer_on
  /\ mic' = [mic EXCEPT !.MIC_check_timer = TRUE, !.MIC_timer_on = TRUE]
  /\ UNCHANGED handler

Countermeasures ==
  [mic EXCEPT !.MIC_check_timer = FALSE, !.MIC_timer_on = FALSE,
              !.assoc_reject_timer = TRUE, !.assoc_reject_on = TRUE]

\* DOT11_Indicate_MIC_Failure when one is: what precedes the loop over stations
SecondFailure ==
  /\ mic.MIC_timer_on
  /\ mic' = Countermeasures
  /\ UNCHANGED handler

MicTimerUp ==
  /\ handler = "none" /\ mic.MIC_check_timer
  /\ mic' = [mic EXCEPT !.MIC_check_timer = FALSE]
  /\ handler' = "MIC_check"

RejectTimerUp ==
  /\ handler = "none" /\ mic.assoc_reject_timer
  /\ mic' = [mic EXCEPT !.assoc_reject_timer = FALSE]
  /\ handler' = "assoc_reject"

HandlerDone ==
  /\ handler # "none"
  /\ mic' = IF handler = "MIC_check" THEN [mic EXCEPT !.MIC_timer_on = FALSE]
            ELSE [mic EXCEPT !.assoc_reject_on = FALSE]
  /\ handler' = "none"
=============================================================================
