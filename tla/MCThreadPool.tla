---------------------------- MODULE MCThreadPool ----------------------------
(* Small instances of ThreadPool for TLC; the .cfg file chooses whether    *)
(* tasks enqueue tasks.                                                    *)
EXTENDS ThreadPool

CONSTANTS w1, w2, t1, t2, t3

TwoWorkers == {w1, w2}
ThreeTasks == {t1, t2, t3}

=============================================================================
