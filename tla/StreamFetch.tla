---------------------------- MODULE StreamFetch ----------------------------
(***************************************************************************)
(* What the segment downloader of src/download.rs promises to a session    *)
(* that asks it for one stream: either the download fails, or it hands     *)
(* over the files of the stream in merge order - all of them when the      *)
(* segment count is checked.  A session may be repeated; it may also stop  *)
(* at any moment, which to the one who repeats it is a failure.            *)
(***************************************************************************)
EXTENDS Integers, Sequences

CONSTANTS
    Items,      \* the init segment (0) and the media segments (1, 2, ...)
    CheckCount  \* DownloadOptions.check_segments_count

VARIABLES
    result,     \* what the last download came to
    delivered   \* the items of StreamDownloadResult.files

Results == {"idle", "running", "ok", "failed"}

InOrder(s) == \A m, n \in DOMAIN s : m < n => s[m] < s[n]

Complete(s) == CheckCount => \A i \in Items : \E n \in DOMAIN s : s[n] = i

Init == result = "idle" /\ delivered = <<>>

Begin ==
    /\ result # "running"
    /\ result' = "running" /\ delivered' = <<>>

Deliver ==
    /\ result = "running"
    /\ result' = "ok"
    /\ delivered' \in Seq(Items)
    /\ InOrder(delivered') /\ Complete(delivered')

Fail ==
    /\ result = "running"
    /\ result' = "failed"
    /\ UNCHANGED delivered

Next == Begin \/ Deliver \/ Fail

Spec == Init /\ [][Next]_<<result, delivered>>
=============================================================================
