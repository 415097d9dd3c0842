----------------------------- MODULE PageStates -----------------------------
(***************************************************************************)
(* The page state machine of app/queue/state.py: the transition table and  *)
(* the sets and functions the source derives from it.  Constant level, so  *)
(* every module that moves a page shares one table, as the code does.      *)
(***************************************************************************)

PageState == {"PENDING", "LAYOUT_RUNNING", "LAYOUT_DONE", "VLM_RUNNING",
              "DONE", "FALLBACK_DONE", "FAILED"}

(* The single source of truth: the states each state may move to.  PENDING *)
(* and LAYOUT_DONE are the checkpoints a *_RUNNING page can be rolled back *)
(* to; the last three states have no successor.                            *)
TRANSITIONS ==
    [s \in PageState |->
        CASE s = "PENDING"        -> {"LAYOUT_RUNNING", "FAILED"}
          [] s = "LAYOUT_RUNNING" -> {"LAYOUT_DONE", "PENDING", "FAILED"}
          [] s = "LAYOUT_DONE"    -> {"VLM_RUNNING", "FALLBACK_DONE"}
          [] s = "VLM_RUNNING"    -> {"DONE", "LAYOUT_DONE", "FALLBACK_DONE", "FAILED"}
          [] OTHER                -> {}]

TERMINAL_STATES == {s \in PageState : TRANSITIONS[s] = {}}

RUNNING_STATES == {"LAYOUT_RUNNING", "VLM_RUNNING"}

(* Mutant: every rollback goes back to the start.                          *)
ReclaimToStart == [s \in RUNNING_STATES |-> "PENDING"]

(* Where release_claim puts a page whose worker gave it up mid-stage.      *)
RECLAIM_TARGET ==
    [s \in RUNNING_STATES |->
        IF s = "LAYOUT_RUNNING" THEN "PENDING" ELSE "LAYOUT_DONE"]

(* The default allowed_from of PageStateStore.transition.                  *)
PREDECESSORS == [t \in PageState |-> {s \in PageState : t \in TRANSITIONS[s]}]

(* The target force_terminal picks from the state it observed: degrade     *)
(* where the table permits it, fail otherwise.                             *)
ForcedTarget(s) ==
    IF "FALLBACK_DONE" \in TRANSITIONS[s] THEN "FALLBACK_DONE" ELSE "FAILED"

(* The states of a page whose layout result has been committed.  FAILED is *)
(* in neither group: it is reached with and without a layout.              *)
LayoutCommitted == {"LAYOUT_DONE", "VLM_RUNNING", "DONE", "FALLBACK_DONE"}

=============================================================================
