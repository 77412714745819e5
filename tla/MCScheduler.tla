----------------------------- MODULE MCScheduler -----------------------------
(* Timelines for TLC, after the built-in scenarios.  An offset of one tick     *)
(* stands for every positive delay.                                            *)
EXTENDS Scheduler

CONSTANTS p1, w1, r1

Step(type, to, source, offset) ==
  [type |-> type, to |-> to, source |-> source, offset |-> offset]

(* success-immediate with its redirect.                                        *)
Success == << Step("transition", "succeeded", 0, 0), Step("webhook", "none", 0, 0),
              Step("browser", "none", 0, 1) >>

(* pending first, settled later.                                               *)
PendingThenSuccess ==
  << Step("transition", "pending", 0, 0), Step("webhook", "none", 0, 0),
     Step("transition", "succeeded", 0, 1), Step("webhook", "none", 0, 1) >>

(* duplicate and corrupted callbacks.                                          *)
DuplicateAndCorrupt ==
  << Step("transition", "failed", 0, 0), Step("webhook", "none", 0, 0),
     Step("repeat", "none", 2, 1), Step("corrupt", "none", 2, 1) >>

(* a callback that shows a snapshot the transaction is not in; one omitted.    *)
SnapshotRegression ==
  << Step("transition", "succeeded", 0, 0), Step("snapshot", "pending", 0, 0),
     Step("webhook", "none", 2, 1), Step("omit", "none", 0, 1) >>

OneTimeline == {PendingThenSuccess}
ImmediateTimeline == {Success}
AllTimelines == {Success, PendingThenSuccess, DuplicateAndCorrupt, SnapshotRegression}
ASSUME ShapesLawful == LawfulTimelines

(* Rows and deliveries in a bounded run are fewer than these bounds.           *)
AllJobsComplete == JobsComplete(8)
AllCallbacksSurvive == CallbacksSurvive(4)
AllReplaysAttempted == ReplaysAttempted(4)
=============================================================================
