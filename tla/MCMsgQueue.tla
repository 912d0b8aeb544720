----------------------------- MODULE MCMsgQueue -----------------------------
(* MsgQueue for TLC; the instance is in MsgQueue_ring.cfg.                  *)
EXTENDS MsgQueue

\* A limit below the MSG_QUEUE_MAX + 4 of ipc_get_message, so that blocking is
\* reached next to the other operations.
MCShortMissLimit == 2

MCIndexes == {0, 1, MSG_QUEUE_MAX}
=============================================================================
