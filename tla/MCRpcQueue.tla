----------------------------- MODULE MCRpcQueue -----------------------------
(* Small instances of RpcQueue for TLC. *)
EXTENDS RpcQueue, TLC

CONSTANTS c1, c2

OneClient == {c1}
TwoClients == {c1, c2}
Symmetry == Permutations(TwoClients)

MoveOffsets == {-1, 0, 1}

EndMethods == {"stop", "complete", "error"}

\* The calls of the runs: pausing and restarting, the calls on downloads
\* that start at once and on their results, a result that is forgotten, the bulk calls.
RaceCalls == {"add", "pause", "unpause", "changeOption", "changeOptionRejected"}
DirectCalls == {"add", "pause", "remove", "changeOption", "changeOptionRejected",
                "removeDownloadResult", "purgeDownloadResults"}
ResultCalls == {"add", "remove", "changeOption", "removeDownloadResult"}
BulkCalls == {"add", "addAt", "pauseAll", "unpauseAll", "changePosition",
              "changeUri", "purgeDownloadResults"}
=============================================================================
