-------------------------- MODULE StreamSelection --------------------------
(* From the parsed manifest to the streams that are downloaded: select_streams  *)
(* of src/session.rs with src/selection.rs and the order of src/manifest.rs,     *)
(* then the playlists, the custom range, the ads and the checks of execute_      *)
(* request. A stream has id, type ("basic" for one without a type), group, lang,  *)
(* rate, channels, range, audio and subtitle (groups it names), parts (<<>> until *)
(* its playlist is loaded), later (the parts its playlist will have), skipped,    *)
(* live, ext and method (of its encryption).                                     *)
EXTENDS SegmentRange, FiniteSetsExt

CONSTANTS Offers,   \* lists of streams that a manifest may have
          Requests  \* what may be asked for: keep and drop (by type: a sequence of
                    \* filters), selector, ids, range, ads, asVod, mp4forge

VARIABLES offer, request,
          step,  \* what the session does next, "selected" or "error"
          left,  \* the streams after the drop filters
          chosen \* selected

vars == <<offer, request, step, left, chosen>>

None == -1
Types == {"video", "audio", "sub"}
Basic(s) == s.type \in {"basic", "video"}
Group(q, type) == SelectSeq(q, LAMBDA s : IF type = "video" THEN Basic(s) ELSE s.type = type)

---------------------------------------------------------------------------
(* Order and filters                                                       *)

\* media_rank, compare_streams_compatible and a stable sort.
Rank(s) == CASE s.type = "basic" -> 0 [] s.type = "audio" -> 1 [] s.type = "video" -> 2
             [] s.type = "sub" -> 3 [] s.type = "cc" -> 4
KeyByRateUp(s) == <<Rank(s), s.rate, -s.channels>>
Key(s) == <<Rank(s), -s.rate, -s.channels>>
Less(a, b) == \E k \in 1..3 : a[k] < b[k] /\ \A j \in 1..(k - 1) : a[j] = b[j]
Ordered(q) ==
  LET first(i, j) == Less(Key(q[i]), Key(q[j])) \/ (Key(q[i]) = Key(q[j]) /\ i < j)
  IN [k \in DOMAIN q |-> q[CHOOSE i \in DOMAIN q : Cardinality({j \in DOMAIN q : first(j, i)}) = k - 1]]

Count(s) == Len(Flat(s.parts))
\* filter_keep: a pattern fits no stream without the value; then the segment counts
\* only count when the playlist of every stream that fits is loaded; then the rates. A
\* filter has field (one stands for all patterns), value, least and most rate, counts
\* (the least number of segments, exclusive, None for any) and choice. The greatest
\* number of segments, the playlist's duration and the role, which filter alike, are
\* left out.
Fits(f, s) == f.field # "" => s[f.field] = f.value
Rated(f, s) == /\ f.least = None \/ f.least <= s.rate
               /\ f.most = None \/ (s.rate # None /\ s.rate <= f.most)
Counted(f, q) == IF f.counts # None /\ \A k \in DOMAIN q : Count(q[k]) > 0
                 THEN SelectSeq(q, LAMBDA s : Count(s) > f.counts) ELSE q
\* apply_for_choice: best, worst and a number of them; an unknown word takes one.
MinOf(a, b) == IF a < b THEN a ELSE b
Choice(choice, q) ==
  CASE choice.which = "all" -> q
    [] choice.which = "best" -> SubSeq(q, 1, MinOf(choice.number, Len(q)))
    [] choice.which = "worst" -> SubSeq(q, Len(q) - MinOf(choice.number, Len(q)) + 1, Len(q))
    [] OTHER -> SubSeq(q, 1, MinOf(1, Len(q)))
Keep(f, q) == Choice(f.choice, SelectSeq(Counted(f, SelectSeq(q, LAMBDA s : Fits(f, s))),
                                         LAMBDA s : Rated(f, s)))
KeepAll(filters, q) == FlattenSeq([k \in DOMAIN filters |-> Keep(filters[k], q)])

\* filter_drop also drops what looks the same as a stream that fits: the video label
\* has no language, and rates are compared in thousands.
DropLabel(s) ==
  <<s.method, s.type, s.group, IF s.rate = None THEN None ELSE s.rate \div 1000, Count(s), Total(Flat(s.parts)),
    IF Basic(s) THEN s.range ELSE IF s.type = "audio" THEN <<s.lang, s.channels>> ELSE s.lang>>
Drop(f, q) ==
  LET gone == {DropLabel(s) : s \in ToSet(Keep(f, q))}
  IN SelectSeq(q, LAMBDA s : DropLabel(s) \notin gone)
DropAll(filters, q) == FoldLeft(LAMBDA rest, f : Drop(f, rest), q, filters)

---------------------------------------------------------------------------
(* Selectors                                                               *)

Label(s) == <<s.type, s.group, s.lang, s.rate, s.channels, s.range, Count(s), Total(Flat(s.parts))>>
\* The first of those with the same key.
FirstBy(q, KeyOf(_)) == FoldLeft(LAMBDA done, s :
  IF \E k \in DOMAIN done : KeyOf(done[k]) = KeyOf(s) THEN done ELSE Append(done, s), <<>>, q)
Unique(q) == FirstBy(q, Label)
Lang(s) == s.lang
Auto(q) ==
  IF Len(q) <= 1 THEN q
  ELSE LET basic == Ordered(Group(q, "video"))
       IN Unique(SubSeq(basic, 1, MinOf(1, Len(basic)))
                 \o FirstBy(Ordered(Group(q, "audio")), Lang) \o Ordered(Group(q, "sub")))

\* interactive_default_streams
FirstWhere(q, Is(_)) == SubSeq(SelectSeq(q, Is), 1, MinOf(1, Len(SelectSeq(q, Is))))
Fallback(q) ==
  LET by(type) == FirstWhere(q, LAMBDA s : s.type = type)
  IN IF by("basic") # <<>> THEN by("basic") ELSE IF by("audio") # <<>> THEN by("audio") ELSE by("sub")
Defaults(q) ==
  IF Len(q) <= 1 THEN q
  ELSE LET first == Head(q)
           named(type, group) == IF group = "" THEN <<>>
             ELSE FirstWhere(q, LAMBDA s : s.type = type /\ s.group = group)
       IN Unique(<<first>> \o named("audio", first.audio) \o named("sub", first.subtitle) \o Fallback(q))

HasKeepFilters == \E type \in Types : request.keep[type] # <<>>
Kept(q) == KeepAll(request.keep["video"], Group(q, "video"))
           \o KeepAll(request.keep["audio"], Group(q, "audio"))
           \o KeepAll(request.keep["sub"], Group(q, "sub"))
Named(s) == s.id \in request.ids \/ s.group \in request.ids

---------------------------------------------------------------------------
(* The session                                                             *)

Init == /\ offer \in Offers /\ request \in Requests
        /\ step = "validate" /\ left = <<>> /\ chosen = <<>>
Goto(s) == step' = s /\ UNCHANGED <<offer, request>>

\* validate_source_option_shape: at most one filter of every kind.
TooManyFilters == \E type \in Types : Len(request.keep[type]) > 1 \/ Len(request.drop[type]) > 1
Validate == /\ step = "validate" /\ UNCHANGED <<left, chosen>>
            /\ Goto(IF TooManyFilters THEN "error" ELSE "drop")

DropFilters ==
  /\ step = "drop" /\ Goto("choose") /\ UNCHANGED chosen
  /\ LET q == Ordered(offer)
     IN left' = DropAll(request.drop["video"], Group(q, "video"))
                \o DropAll(request.drop["audio"], Group(q, "audio"))
                \o DropAll(request.drop["sub"], Group(q, "sub"))

Choose(selector, q) == /\ step = "choose" /\ request.selector = selector
                       /\ chosen' = q /\ Goto("fetch") /\ UNCHANGED left
ByFilter == HasKeepFilters /\ Choose("interactive", Kept(left))
\* Without a terminal the defaults are taken; with one any of the streams.
ByDefault == ~HasKeepFilters /\ Choose("interactive", Defaults(left))
ByPrompt == /\ ~HasKeepFilters /\ Len(left) > 1 /\ request.selector = "interactive"
            /\ step = "choose" /\ UNCHANGED left
            /\ \E S \in SUBSET DOMAIN left :
                 /\ chosen' = LET picked == SelectSeq([k \in DOMAIN left |-> k], LAMBDA k : k \in S)
                               IN [k \in DOMAIN picked |-> left[picked[k]]]
                 /\ Goto(IF S = {} THEN "error" ELSE "fetch")
ByAuto == Choose("auto", Auto(left))
BySubtitles == Choose("subtitles", Group(left, "sub"))
ByIds == Choose("ids", SelectSeq(left, Named))

\* Playlists are loaded only now; until then a stream of a master playlist has none.
Fetch ==
  /\ step = "fetch" /\ Goto("range") /\ UNCHANGED left
  /\ chosen' = [k \in DOMAIN chosen |-> IF chosen[k].parts # <<>> THEN chosen[k]
                                        ELSE [chosen[k] EXCEPT !.parts = @ \o chosen[k].later]]

SelectedIsLive == \E s \in ToSet(chosen) : s.live
\* A range is not applied to a live recording.
ApplyRange ==
  /\ step = "range" /\ Goto("ads") /\ UNCHANGED left
  /\ chosen' = IF SelectedIsLive /\ ~request.asVod THEN chosen
       ELSE [k \in DOMAIN chosen |->
               [chosen[k] EXCEPT !.parts = Clipped(@, request.range),
                                 !.skipped = Skipped(chosen[k].parts, request.range)]]
CleanAds ==
  /\ step = "ads" /\ Goto("check") /\ UNCHANGED left
  /\ chosen' = [k \in DOMAIN chosen |-> [chosen[k] EXCEPT !.parts = WithoutAds(@, request.ads)]]

\* validate_mp4forge_decrypt_before_download, validate_explicit_mp4forge_before_download
DecryptRefused(s) == /\ "decrypt" \in request.mp4forge /\ s.method \in {"cenc", "other"}
                     /\ s.type = "sub" \/ s.ext # "mp4" \/ s.method = "other"
FormatRefused == {"mux", "format"} \subseteq request.mp4forge
MuxRefused(s) == /\ "mux" \in request.mp4forge /\ "fallback" \notin request.mp4forge
                 /\ ~(s.type = "sub" /\ "skip" \in request.mp4forge)
                 /\ s.type = "sub" \/ s.ext # "mp4"
Check ==
  /\ step = "check" /\ UNCHANGED <<left, chosen>>
  /\ Goto(IF chosen = <<>> \/ FormatRefused \/ \E s \in ToSet(chosen) : DecryptRefused(s) \/ MuxRefused(s)
          THEN "error" ELSE "selected")

Next == \/ Validate \/ DropFilters \/ ByFilter \/ ByDefault \/ ByPrompt \/ ByAuto \/ BySubtitles
        \/ ByIds \/ Fetch \/ ApplyRange \/ CleanAds \/ Check
Spec == Init /\ [][Next]_vars

---------------------------------------------------------------------------
(* Properties                                                              *)

\* A stream is downloaded once: two filters that both fit it, a default that is also
\* a fallback, or an id that is also a group do not make two tasks of it.
SelectedOnce ==
  \A j, k \in DOMAIN chosen : chosen[j].id = chosen[k].id => j = k

\* Without filters and questions the best video, the best audio of every language and
\* every subtitle are taken, whatever the order and the duplicates of the manifest.
AutoTakesBest ==
  step = "fetch" /\ request.selector = "auto" /\ Len(left) > 1 =>
    LET all == ToSet(left) taken == ToSet(chosen)
    IN /\ \A s \in all : Basic(s) => \E t \in taken : Basic(t) /\ ~Less(Key(s), Key(t))
       /\ Cardinality({t \in taken : Basic(t)}) <= 1
       /\ \A s \in all : s.type = "audio" =>
            \E t \in taken : t.type = "audio" /\ t.lang = s.lang /\ s.rate <= t.rate
       /\ \A t, u \in taken : t.type = "audio" /\ u.type = "audio" /\ t.lang = u.lang => t = u
       /\ \A s \in all : s.type = "sub" => \E t \in taken : Label(s) = Label(t)

\* Every selected stream keeps the segments that begin within the range, by the time
\* of the whole stream and without its ads, so that all streams cover the same time.
StartOf(all, g) == Total(SubSeq(all, 1, (CHOOSE k \in DOMAIN all : all[k] = g) - 1))
WindowKept ==
  step \in {"check", "selected"} /\ ~SelectedIsLive => \A k \in DOMAIN chosen :
    LET s == CHOOSE t \in ToSet(offer) : t.id = chosen[k].id
        all == Flat(IF s.parts # <<>> THEN s.parts ELSE s.later)
        within(g) == CASE request.range.by = "time" -> /\ request.range.from <= StartOf(all, g)
                                                       /\ StartOf(all, g) <= request.range.to
                       [] request.range.by = "index" -> g.index \in request.range.from..request.range.to
                       [] OTHER -> TRUE
    IN Flat(chosen[k].parts) = SelectSeq(all, LAMBDA g : within(g) /\ g.url \notin request.ads)
=============================================================================
