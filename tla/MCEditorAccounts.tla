-------------------------- MODULE MCEditorAccounts --------------------------
(* Instances of EditorAccounts for TLC.                                    *)
EXTENDS EditorAccounts, TLC

CONSTANTS u1, u2, b1, w1, w2, n1, n2, d1

TwoUsers == {u1, u2}
OneUser == {u1}
OneOfTwo == {u2}
NoUser == {}
OneBrowser == {b1}
OneWorker == {w1}
TwoWorkers == {w1, w2}
TwoNames == {n1, n2}
OneDisplayName == {d1}
=============================================================================
