---------------------------- MODULE SegmentRange ----------------------------
(* A custom range over the segments of a stream, and the removal of ads: the    *)
(* pure part of src/selection.rs that StreamSelection and SubtitleTimes use.    *)
(* A range is [by, from, to]: by "index", "time" or "none" (the whole stream).   *)
EXTENDS Integers, SequencesExt

Flat(parts) == FlattenSeq(parts)
Total(q) == FoldLeft(LAMBDA sum, g : sum + g.duration, 0, q)
\* duration_before_index: by index, not by place.
Before(all, index) == Total(SelectSeq(all, LAMBDA g : g.index < index))

InRange(range, all, g) ==
  CASE range.by = "index" -> range.from <= g.index /\ g.index <= range.to
    [] range.by = "time" -> range.from <= Before(all, g.index) /\ Before(all, g.index) <= range.to
    [] OTHER -> TRUE
\* apply_custom_range leaves the empty parts.
Clipped(parts, range) ==
  [p \in DOMAIN parts |-> SelectSeq(parts[p], LAMBDA g : InRange(range, Flat(parts), g))]
\* skipped_duration: what lies before the first segment of a part within that part. A
\* part of which nothing is left adds nothing.
Skipped(parts, range) ==
  FoldLeft(LAMBDA sum, p :
    LET rest == Clipped(parts, range)[p]
    IN sum + IF range.by = "none" \/ rest = <<>> THEN 0 ELSE Before(parts[p], Head(rest).index),
    0, [p \in DOMAIN parts |-> p])

\* A part goes with its ad.
WithoutAdParts(parts, ads) ==
  SelectSeq(parts, LAMBDA part : \A g \in ToSet(part) : g.url \notin ads)
\* clean_ad_segments removes the parts that become empty, without any keyword none.
WithoutAds(parts, ads) ==
  IF ads = {} THEN parts
  ELSE SelectSeq([p \in DOMAIN parts |-> SelectSeq(parts[p], LAMBDA g : g.url \notin ads)],
                 LAMBDA part : part # <<>>)
=============================================================================
