-------------------------- MODULE MCSegmentDownload ------------------------
(* A small instance of SegmentDownload for TLC.  Which engine decrypts is     *)
(* chosen once for a temporary directory: mp4decrypt, Engine in the           *)
(* configuration, or one of those that write beside the segment.              *)
EXTENDS SegmentDownload

VARIABLE engine     \* what decrypts in the sessions over this directory

External == INSTANCE SegmentDownload WITH Engine <- "other"
InProcess == INSTANCE SegmentDownload WITH Engine <- "mp4forge"

MCInit == Init /\ engine \in {Engine, "other", "mp4forge"}

MCNext ==
    /\ \/ engine = Engine /\ Next
       \/ engine = "other" /\ External!Next
       \/ engine = "mp4forge" /\ InProcess!Next
    /\ UNCHANGED engine

\* The hook of the engine that was chosen; nothing else depends on the engine.
ChosenHook(i) ==
    \/ engine = Engine /\ Hook(i)
    \/ engine = "other" /\ External!Hook(i)
    \/ engine = "mp4forge" /\ InProcess!Hook(i)

MCSpec ==
    /\ MCInit /\ [][MCNext]_<<vars, engine>>
    /\ \A i \in Items : WF_vars(Look(i)) /\ WF_vars(AttemptFails(i))
                        /\ WF_vars(Rewrite(i)) /\ WF_vars(ChosenHook(i))
    /\ WF_vars(CloseBatch) /\ WF_vars(Finish)
=============================================================================
