------------------------ MODULE LiveRecorderProofs ------------------------
(***************************************************************************)
(* Proved of a live recording, for any number of streams, any window and   *)
(* any segment length: the counters agree with each other whenever the     *)
(* recorder rests, a limit is overrun by less than one playlist, what was  *)
(* recorded is not taken back, and a recording is a run of segments that   *)
(* all streams begin with the same one.                                    *)
(***************************************************************************)
EXTENDS LiveRecorder, WellFoundedInduction, SequenceTheorems, TLAPS

Whole == Seconds([k \in 1 .. Window |-> 0])

\* Every playlist lists at most Window segments.
WindowInv == \A s \in Streams :
    /\ window[s] \in Int \X Int
    /\ window[s][1] <= window[s][2] /\ window[s][2] - window[s][1] < Window

Fields == DOMAIN NewState

\* The counters of a stream in the middle of a batch: what was found is what was
\* recorded and the batch in hand, and a stream below the limit has not reached it.
WellCounted(x, q, p) ==
    /\ DOMAIN x = Fields
    /\ Len(q) \in Nat /\ Seconds(q) \in Nat
    /\ x.refreshed \in Nat /\ x.refreshedSegs \in Nat
    /\ x.recorded \in Nat /\ x.recordedSegs \in Nat
    /\ p \in {"load", "wait", "done"} =>
        x.recorded = x.refreshed /\ x.recordedSegs = x.refreshedSegs
    /\ p \in {"fetch", "write"} =>
        /\ x.recorded + Seconds(q) = x.refreshed
        /\ x.recordedSegs + Len(q) = x.refreshedSegs
    /\ x.limit \in BOOLEAN
    /\ ~x.limit => x.refreshed < Limit
    /\ x.limit => x.refreshed < Limit + Whole

CountInv == \A s \in Streams : WellCounted(st[s], batch[s], phase)

Inv == WindowInv /\ CountInv /\ phase \in Phases
-----------------------------------------------------------------------------
(***************************************************************************)
(* Sequences and seconds.                                                  *)
(***************************************************************************)

\* A set of naturals that is not empty has a least element.
LEMMA Least ==
    ASSUME NEW S \in SUBSET Nat, S # {}
    PROVE  Min(S) \in S /\ \A k \in S : Min(S) <= k
<1> DEFINE R == {ss \in Nat \X Nat : ss[1] < ss[2]}
<1>1. IsWellFoundedOn(R, Nat)
    BY NatLessThanWellFounded, Zenon DEF OpToRel
<1> HIDE DEF R
<1>2. PICK x \in S : \A y \in S : ~ (<<y, x>> \in R)
    BY <1>1, WFMin
<1>3. ASSUME NEW y \in S PROVE x <= y
    <2>1. x \in Nat /\ y \in Nat
        OBVIOUS
    <2>2. y < x => <<y, x>> \in R
        BY <2>1 DEF R
    <2> QED
        BY <1>2, <2>1, <2>2
<1> QED
    BY <1>3 DEF Min

\* What is left of a sequence from some place on.
LEMMA SuffixLength ==
    ASSUME NEW S, NEW q \in Seq(S), NEW m \in Nat \ {0}
    PROVE  /\ SubSeq(q, m, Len(q)) \in Seq(S)
           /\ Len(SubSeq(q, m, Len(q))) \in Nat
           /\ Len(SubSeq(q, m, Len(q))) <= Len(q)
<1>1. Len(q) \in Nat /\ \A i \in m .. Len(q) : q[i] \in S
    BY LenProperties, ElementOfSeq
<1>2. /\ SubSeq(q, m, Len(q)) \in Seq(S)
      /\ Len(SubSeq(q, m, Len(q))) = IF m <= Len(q) THEN Len(q) - m + 1 ELSE 0
    BY <1>1, SubSeqProperties
<1> QED
    BY <1>1, <1>2

\* What is new in a playlist is a sequence that is no longer than the playlist.
LEMMA UnseenLength ==
    ASSUME NEW S, NEW x, NEW segs \in Seq(S)
    PROVE  /\ Unseen(x, segs) \in Seq(S)
           /\ Len(Unseen(x, segs)) <= Len(segs)
<1> DEFINE hits == {k \in DOMAIN segs : IsLast(x, segs[k])}
<1>1. CASE hits # {}
    <2>1. hits \in SUBSET Nat /\ DOMAIN segs = 1 .. Len(segs) /\ Len(segs) \in Nat
        BY LenProperties
    <2>2. Min(hits) \in 1 .. Len(segs)
        BY <1>1, <2>1, Least
    <2>3. Unseen(x, segs) = SubSeq(segs, Min(hits) + 1, Len(segs))
        BY <1>1 DEF Unseen
    <2> HIDE DEF hits
    <2> QED
        BY <2>1, <2>2, <2>3, SuffixLength
<1>2. CASE hits = {}
    BY <1>2, LenProperties DEF Unseen
<1> QED
    BY <1>1, <1>2

LEMMA NewLength ==
    ASSUME NEW S, NEW x, NEW segs \in Seq(S)
    PROVE  /\ Len(NewSegments(x, segs)) \in Nat
           /\ Len(NewSegments(x, segs)) <= Len(segs)
<1> DEFINE u == Unseen(x, segs)
<1>1. u \in Seq(S) /\ Len(u) <= Len(segs)
    BY UnseenLength
<1>2. DOMAIN Renumbered(x, u) = 1 .. Len(u) /\ Len(u) \in Nat
    BY <1>1, LenProperties DEF Renumbered
<1>3. Renumbered(x, u) \in Seq({Renumbered(x, u)[k] : k \in 1 .. Len(u)})
    BY <1>2 DEF Renumbered
<1>4. Len(Renumbered(x, u)) = Len(u)
    BY <1>2, <1>3, LenProperties
<1> QED
    BY <1>1, <1>2, <1>4, LenProperties DEF NewSegments

\* A longer batch does not last shorter.
LEMMA SecondsMonotonic ==
    ASSUME NEW q, Len(q) \in Nat
    PROVE  /\ Seconds(q) \in Nat
           /\ Len(q) <= Window => Seconds(q) <= Whole
<1>1. Len([k \in 1 .. Window |-> 0]) = Window
    BY LiveAssumption
<1>2. Len(q) * HalfSeconds \in Nat /\ Window * HalfSeconds \in Nat
    BY LiveAssumption
<1>3. ASSUME Len(q) <= Window PROVE Len(q) * HalfSeconds <= Window * HalfSeconds
    BY <1>3, LiveAssumption
<1>4. \A a, b \in Nat : a \div 2 \in Nat /\ (a <= b => a \div 2 <= b \div 2)
    OBVIOUS
<1>5. Seconds(q) = (Len(q) * HalfSeconds) \div 2 /\ Whole = (Window * HalfSeconds) \div 2
    BY <1>1 DEF Seconds, Whole
<1> QED
    BY <1>2, <1>3, <1>4, <1>5

LEMMA NoSeconds == Seconds(<<>>) = 0 /\ Len(<<>>) = 0
<1>1. Len(<<>>) = 0
    OBVIOUS
<1>2. 0 * HalfSeconds = 0 /\ 0 \div 2 = 0
    BY LiveAssumption
<1> QED
    BY <1>1, <1>2 DEF Seconds

(***************************************************************************)
(* No list that is filtered is longer than a playlist.                     *)
(***************************************************************************)

LEMMA PlaylistLength ==
    ASSUME WindowInv, NEW s \in Streams
    PROVE  \E S : Playlist(s) \in Seq(S) /\ Len(Playlist(s)) <= Window
<1> DEFINE n == window[s][2] - window[s][1] + 1
           S == {Playlist(s)[k] : k \in 1 .. n}
<1>1. n \in Nat /\ n <= Window
    BY LiveAssumption DEF WindowInv
<1>2. DOMAIN Playlist(s) = 1 .. n /\ Playlist(s) = [k \in 1 .. n |-> Playlist(s)[k]]
    BY DEF Playlist
<1> HIDE DEF n
<1>3. Playlist(s) \in Seq(S)
    BY <1>1, <1>2
<1>4. Len(Playlist(s)) = n
    BY <1>1, <1>2, <1>3, LenProperties
<1> QED
    BY <1>1, <1>3, <1>4

LEMMA SyncedLength ==
    ASSUME WindowInv, NEW s \in Streams
    PROVE  \E S : Synced(s) \in Seq(S) /\ Len(Synced(s)) \in Nat /\ Len(Synced(s)) <= Window
<1> DEFINE p == Playlist(s)
           late == {k \in DOMAIN p : Key(p[k]) >= SyncStart}
<1>1. PICK S : p \in Seq(S) /\ Len(p) <= Window
    BY PlaylistLength
<1>2. DOMAIN p = 1 .. Len(p) /\ Len(p) \in Nat
    BY <1>1, LenProperties
<1>3. CASE late = {}
    <2>1. Synced(s) = <<>>
        BY <1>3 DEF Synced
    <2> QED
        BY <2>1, LiveAssumption
<1>4. CASE late # {}
    <2>1. late \in SUBSET Nat
        BY <1>2
    <2>2. Min(late) \in 1 .. Len(p)
        BY <1>2, <1>4, <2>1, Least
    <2>3. Synced(s) = SubSeq(p, Min(late), Len(p))
        BY <1>4 DEF Synced
    <2> HIDE DEF late, p
    <2>4. Min(late) \in Nat \ {0}
        BY <1>2, <2>2
    <2>5. Synced(s) \in Seq(S) /\ Len(Synced(s)) \in Nat /\ Len(Synced(s)) <= Len(p)
        BY <1>1, <2>3, <2>4, SuffixLength
    <2>6. Len(Synced(s)) <= Window
        BY <1>1, <1>2, <2>5, LiveAssumption
    <2> QED
        BY <2>5, <2>6
<1> QED
    BY <1>3, <1>4

LEMMA StartWindowLength ==
    ASSUME WindowInv, NEW s \in Streams
    PROVE  \E S : StartWindow(s) \in Seq(S) /\ Len(StartWindow(s)) <= Window
<1> DEFINE q == Synced(s)
           counts == {Len(Synced(r)) : r \in Streams}
<1>1. PICK S : q \in Seq(S) /\ Len(q) \in Nat /\ Len(q) <= Window
    BY SyncedLength
<1>2. counts \in SUBSET Nat /\ counts # {}
    BY SyncedLength, LiveAssumption DEF Streams
<1>3. Min(counts) \in Nat
    BY <1>2, Least
<1>4. SkipCount \in Nat
    <2> HIDE DEF counts
    <2>1. \/ SkipCount = 0
          \/ SkipCount = Min(counts) - TakeCount + 1 /\ ~ (SkipCount < 0)
        BY DEF SkipCount, counts
    <2> QED
        BY <1>3, <2>1, LiveAssumption
<1>5. StartWindow(s) = SubSeq(q, SkipCount + 1, Len(q))
    BY DEF StartWindow
<1> HIDE DEF q
<1>6. StartWindow(s) \in Seq(S) /\ Len(StartWindow(s)) \in Nat /\ Len(StartWindow(s)) <= Len(q)
    BY <1>1, <1>4, <1>5, SuffixLength
<1> QED
    BY <1>1, <1>6, LiveAssumption

-----------------------------------------------------------------------------
(***************************************************************************)
(* One refresh of one stream.                                              *)
(***************************************************************************)

\* A list that is filtered by TakeIn: what is new in it fits a playlist.
Fits(list) == \A s \in Streams : \A x :
    Len(NewSegments(x, list[s])) \in Nat /\ Len(NewSegments(x, list[s])) <= Window

LEMMA PlaylistsFit ==
    ASSUME WindowInv
    PROVE  Fits([s \in Streams |-> Playlist(s)])
<1> SUFFICES ASSUME NEW s \in Streams, NEW x
             PROVE  /\ Len(NewSegments(x, Playlist(s))) \in Nat
                    /\ Len(NewSegments(x, Playlist(s))) <= Window
    BY DEF Fits
<1>1. PICK S : Playlist(s) \in Seq(S) /\ Len(Playlist(s)) <= Window
    BY PlaylistLength
<1>2. Len(Playlist(s)) \in Nat
    BY <1>1, LenProperties
<1> QED
    BY <1>1, <1>2, NewLength, LiveAssumption

LEMMA StartWindowsFit ==
    ASSUME WindowInv
    PROVE  Fits([s \in Streams |-> StartWindow(s)])
<1> SUFFICES ASSUME NEW s \in Streams, NEW x
             PROVE  /\ Len(NewSegments(x, StartWindow(s))) \in Nat
                    /\ Len(NewSegments(x, StartWindow(s))) <= Window
    BY DEF Fits
<1>1. PICK S : StartWindow(s) \in Seq(S) /\ Len(StartWindow(s)) <= Window
    BY StartWindowLength
<1>2. Len(StartWindow(s)) \in Nat
    BY <1>1, LenProperties
<1> QED
    BY <1>1, <1>2, NewLength, LiveAssumption

\* What a refresh does to the counters.
LEMMA RefreshCounts ==
    ASSUME NEW x, NEW new, DOMAIN x = Fields, x.limit \in BOOLEAN
    PROVE  LET y == AfterRefresh(x, new)
           IN  /\ DOMAIN y = Fields
               /\ y.refreshed = x.refreshed + Seconds(new)
               /\ y.refreshedSegs = x.refreshedSegs + Len(new)
               /\ y.recorded = x.recorded /\ y.recordedSegs = x.recordedSegs
               /\ y.limit \in BOOLEAN
               /\ y.limit <=> x.limit \/ x.refreshed + Seconds(new) >= Limit
BY DEF AfterRefresh, Fields, NewState

\* The recorder is at rest: nothing was found that was not recorded.
Rested == \A s \in Streams :
    st[s].recorded = st[s].refreshed /\ st[s].recordedSegs = st[s].refreshedSegs

LEMMA TakeInCounts ==
    ASSUME CountInv, Rested, NEW list, Fits(list), TakeIn(list), NEW s \in Streams
    PROVE  WellCounted(st'[s], batch'[s], "fetch")
<1> USE DEF WellCounted
<1> DEFINE x == st[s]
           new == NewSegments(x, list[s])
<1>1. /\ DOMAIN x = Fields /\ x.limit \in BOOLEAN
      /\ x.refreshed \in Nat /\ x.refreshedSegs \in Nat
      /\ x.recorded = x.refreshed /\ x.recordedSegs = x.refreshedSegs
      /\ (~x.limit => x.refreshed < Limit) /\ (x.limit => x.refreshed < Limit + Whole)
    BY DEF CountInv, Rested
<1>2. CASE x.limit
    <2>1. st'[s] = x /\ batch'[s] = <<>>
        BY <1>2 DEF TakeIn
    <2> HIDE DEF x
    <2>2. x.refreshed < Limit + Whole
        BY <1>1, <1>2, Zenon
    <2>3. /\ x.recorded + Seconds(<<>>) = x.refreshed
          /\ x.recordedSegs + Len(<<>>) = x.refreshedSegs
          /\ x.recorded \in Nat /\ x.recordedSegs \in Nat
          /\ Len(<<>>) \in Nat /\ Seconds(<<>>) \in Nat
        BY <1>1, NoSeconds
    <2> QED
        BY <1>1, <1>2, <2>1, <2>2, <2>3, Zenon
<1>3. CASE ~x.limit
    <2>1. st'[s] = AfterRefresh(x, new) /\ batch'[s] = new
        BY <1>3 DEF TakeIn
    <2>2. Len(new) \in Nat /\ Len(new) <= Window
        BY DEF Fits
    <2> HIDE DEF new, x
    <2>3. Seconds(new) \in Nat /\ Seconds(new) <= Whole /\ Whole \in Nat
        <3>1. Len([k \in 1 .. Window |-> 0]) = Window
            BY LiveAssumption
        <3>2. Whole \in Nat
            BY <3>1, SecondsMonotonic, LiveAssumption DEF Whole
        <3> QED
            BY <2>2, <3>2, SecondsMonotonic
    <2>4. /\ DOMAIN st'[s] = Fields
          /\ st'[s].refreshed = x.refreshed + Seconds(new)
          /\ st'[s].refreshedSegs = x.refreshedSegs + Len(new)
          /\ st'[s].recorded = x.recorded /\ st'[s].recordedSegs = x.recordedSegs
          /\ st'[s].limit \in BOOLEAN
          /\ st'[s].limit <=> x.limit \/ x.refreshed + Seconds(new) >= Limit
        <3> DEFINE y == AfterRefresh(x, new)
        <3>1. /\ DOMAIN y = Fields
              /\ y.refreshed = x.refreshed + Seconds(new)
              /\ y.refreshedSegs = x.refreshedSegs + Len(new)
              /\ y.recorded = x.recorded /\ y.recordedSegs = x.recordedSegs
              /\ y.limit \in BOOLEAN
              /\ y.limit <=> x.limit \/ x.refreshed + Seconds(new) >= Limit
            BY <1>1, RefreshCounts
        <3> HIDE DEF y
        <3>2. st'[s] = y
            BY <2>1 DEF y
        <3> QED
            BY <3>1, <3>2, Zenon
    <2>5. ~st'[s].limit => ~(x.refreshed + Seconds(new) >= Limit)
        BY <2>4, Zenon
    <2>6. x.refreshed < Limit
        BY <1>1, <1>3, Zenon
    <2>7. /\ x.refreshed + Seconds(new) \in Nat /\ x.refreshedSegs + Len(new) \in Nat
          /\ x.recorded + Seconds(new) = x.refreshed + Seconds(new)
          /\ x.recordedSegs + Len(new) = x.refreshedSegs + Len(new)
          /\ x.refreshed + Seconds(new) < Limit + Whole
          /\ ~(x.refreshed + Seconds(new) >= Limit) => x.refreshed + Seconds(new) < Limit
        BY <1>1, <2>2, <2>3, <2>6, LiveAssumption
    <2> QED
        BY <1>1, <2>1, <2>2, <2>3, <2>4, <2>5, <2>7, Zenon
<1> QED
    BY <1>2, <1>3, <1>1

-----------------------------------------------------------------------------
(***************************************************************************)
(* The invariant.                                                          *)
(***************************************************************************)

LEMMA Moves ==
    ASSUME NEW x, NEW q, NEW p, WellCounted(x, q, p)
    PROVE  /\ WellCounted(x, q, "failed")
           /\ p = "fetch" => WellCounted(x, q, "write")
           /\ p = "wait" => WellCounted(x, q, "wait")
BY Zenon DEF WellCounted

LEMMA InvInit == Init => Inv
<1> SUFFICES ASSUME Init PROVE Inv
    OBVIOUS
<1>1. WindowInv
    BY LiveAssumption DEF Init, WindowInv
<1>2. ASSUME NEW s \in Streams PROVE WellCounted(st[s], batch[s], phase)
    <2>1. st[s] = NewState /\ batch[s] = <<>> /\ phase = "load"
        BY DEF Init
    <2>2. /\ NewState.refreshed = 0 /\ NewState.refreshedSegs = 0
          /\ NewState.recorded = 0 /\ NewState.recordedSegs = 0
          /\ NewState.limit = FALSE /\ DOMAIN NewState = Fields
        BY DEF NewState, Fields
    <2>3. /\ 0 \in Nat /\ 0 < Limit /\ Seconds(<<>>) \in Nat /\ Len(<<>>) \in Nat
          /\ "load" \notin {"fetch", "write"}
        BY NoSeconds, LiveAssumption
    <2> QED
        BY <2>1, <2>2, <2>3, Zenon DEF WellCounted
<1> QED
    BY <1>1, <1>2 DEF Inv, CountInv, Init, Phases

LEMMA WindowStep == Inv /\ [Next]_vars => WindowInv'
<1> SUFFICES ASSUME Inv, [Next]_vars PROVE WindowInv'
    OBVIOUS
<1>1. CASE UNCHANGED window
    BY <1>1 DEF Inv, WindowInv
<1>2. ASSUME NEW s \in Streams, Publish(s) PROVE WindowInv'
    BY <1>2, LiveAssumption DEF Inv, WindowInv, Publish
<1> QED
    BY <1>1, <1>2 DEF Next, Record, Load, Deliver, FetchFails, Write, WriteFails, Refresh,
        RefreshFails, NoticeCancel, Cancel, vars

LEMMA CountStep == Inv /\ [Next]_vars => CountInv' /\ (phase \in Phases)'
<1> SUFFICES ASSUME Inv, [Next]_vars PROVE CountInv' /\ phase' \in Phases
    OBVIOUS
<1> USE DEF Inv
<1>1. CASE Load
    <2>1. Rested
        BY <1>1 DEF CountInv, WellCounted, Load, Rested
    <2> DEFINE list == [s \in Streams |-> StartWindow(s)]
    <2>2. TakeIn(list) /\ Fits(list) /\ phase' = "fetch"
        BY <1>1, StartWindowsFit DEF Load
    <2> QED
        BY <2>1, <2>2, TakeInCounts DEF CountInv, Phases
<1>2. CASE Deliver
    BY <1>2, Moves DEF Deliver, CountInv, Phases
<1>3. CASE FetchFails \/ WriteFails \/ NoticeCancel
    BY <1>3, Moves DEF FetchFails, WriteFails, NoticeCancel, CountInv, Phases
<1>4. CASE RefreshFails
    <2>1. st' = st /\ batch' = batch /\ phase' \in {"failed", "wait"} /\ phase = "wait"
        BY <1>4 DEF RefreshFails
    <2> QED
        BY <2>1, Moves DEF CountInv, Phases
<1>5. CASE Write
    <2>1. phase = "write" /\ phase' \in {"done", "wait"}
        BY <1>5 DEF Write
    <2>2. ASSUME NEW s \in Streams PROVE WellCounted(st'[s], batch'[s], phase')
        <3> DEFINE x == st[s]
                   q == batch[s]
        <3>1. batch'[s] = <<>> /\ st'[s] = Counted(x, q)
            BY <1>5 DEF Write
        <3> HIDE DEF x, q
        <3>2. WellCounted(x, q, "write")
            BY <2>1 DEF CountInv, x, q
        <3> DEFINE y == Counted(x, q)
        <3>3. /\ DOMAIN y = Fields /\ y.limit = x.limit
              /\ y.refreshed = x.refreshed /\ y.refreshedSegs = x.refreshedSegs
              /\ y.recorded = x.recorded + Seconds(q)
              /\ y.recordedSegs = x.recordedSegs + Len(q)
            BY <3>2 DEF Counted, WellCounted, Fields, NewState
        <3> HIDE DEF y
        <3>4. /\ y.recorded \in Nat /\ y.recordedSegs \in Nat
              /\ y.recorded = y.refreshed /\ y.recordedSegs = y.refreshedSegs
              /\ Len(<<>>) \in Nat /\ Seconds(<<>>) \in Nat
            BY <3>2, <3>3, NoSeconds DEF WellCounted
        <3>5. ~ (phase' \in {"fetch", "write"})
            BY <2>1
        <3>6. st'[s] = y
            BY <3>1 DEF y
        <3> QED
            BY <3>1, <3>2, <3>3, <3>4, <3>5, <3>6, Zenon DEF WellCounted
    <2> QED
        BY <2>1, <2>2 DEF CountInv, Phases
<1>6. CASE Refresh
    <2>1. Rested
        BY <1>6 DEF CountInv, WellCounted, Refresh, Rested
    <2> DEFINE list == [s \in Streams |-> Playlist(s)]
    <2>2. TakeIn(list) /\ Fits(list)
        BY <1>6, PlaylistsFit DEF Refresh
    <2>3. \A s \in Streams : WellCounted(st'[s], batch'[s], "fetch")
        BY <2>1, <2>2, TakeInCounts
    <2>4. CASE phase' = "fetch"
        BY <2>3, <2>4 DEF CountInv, Phases
    <2>5. CASE phase' = "wait" /\ \A s \in Streams : batch'[s] = <<>>
        <3>1. ASSUME NEW s \in Streams PROVE WellCounted(st'[s], batch'[s], "wait")
            <4> DEFINE y == st'[s]
            <4>1. WellCounted(y, <<>>, "fetch") /\ batch'[s] = <<>>
                BY <2>3, <2>5
            <4> HIDE DEF y
            <4>2. y.recorded = y.refreshed /\ y.recordedSegs = y.refreshedSegs
                BY <4>1, NoSeconds DEF WellCounted
            <4>3. WellCounted(y, <<>>, "wait")
                BY <4>1, <4>2, Zenon DEF WellCounted
            <4> QED
                BY <4>1, <4>3 DEF y
        <3> QED
            BY <2>5, <3>1 DEF CountInv, Phases
    <2> QED
        BY <1>6, <2>4, <2>5 DEF Refresh
<1>7. CASE Cancel \/ (\E s \in Streams : Publish(s)) \/ UNCHANGED vars
    BY <1>7 DEF Cancel, Publish, vars, CountInv
<1> QED
    BY <1>1, <1>2, <1>3, <1>4, <1>5, <1>6, <1>7 DEF Next, Record

LEMMA InvHolds == Spec => []Inv
<1>1. Inv /\ [Next]_vars => Inv'
    BY WindowStep, CountStep DEF Inv
<1> QED
    BY InvInit, <1>1, PTL DEF Spec

\* While a live recording waits, and when it has ended, the recorded seconds and segments
\* are those that were found (filter_new_live_segments and add_recorded_duration agree).
THEOREM CountersCorrect == Spec => []CountersAgree
<1>1. Inv => CountersAgree
    BY DEF Inv, CountInv, WellCounted, CountersAgree
<1> QED
    BY <1>1, InvHolds, PTL

\* A stream is never recorded further beyond the limit than one playlist lasts.
THEOREM OverrunBounded == Spec => []OverrunIsBounded
<1>1. Inv => OverrunIsBounded
    BY Zenon DEF Inv, CountInv, WellCounted, OverrunIsBounded, Whole
<1> QED
    BY <1>1, InvHolds, PTL

\* Whatever the streams find and whenever, the limit is noticed within one playlist, by
\* counters that agree at rest (add_recorded_duration, the end of a refresh).
THEOREM LimitCounted == Spec => []LimitIsCounted
<1>1. OverrunIsBounded /\ CountersAgree => LimitIsCounted
    BY DEF LimitIsCounted
<1> QED
    BY <1>1, OverrunBounded, CountersCorrect, PTL

-----------------------------------------------------------------------------
(***************************************************************************)
(* That nothing recorded is taken back.                                    *)
(***************************************************************************)

IsSeq(q) == q \in Seq(Range(q))

\* Only then are files removed during a recording.
Moving == setup.merge /\ ~setup.keep

\* What the download of a batch left: every file is in what it delivered.
Written(s) ==
    /\ IsSeq(got[s])
    /\ Moving => \A i \in DOMAIN temp[s] :
                    batch[s] # <<>> /\ \E n \in DOMAIN got[s] : got[s][n] = temp[s][i]

\* Files are removed when they were appended: none is left over from an earlier batch.
FilesInv ==
    /\ setup \in Setups
    /\ \A s \in Streams : IsSeq(output[s])
    /\ phase \in {"load", "fetch", "wait", "done"} /\ Moving => \A s \in Streams : DOMAIN temp[s] = {}
    /\ phase = "write" => \A s \in Streams : Written(s)

LEMMA Listed ==
    ASSUME NEW q, NEW k \in Nat, DOMAIN q = 1 .. k, q = [n \in 1 .. k |-> q[n]]
    PROVE  IsSeq(q)
<1>1. q \in [1 .. k -> Range(q)]
    BY DEF Range
<1>2. q \in UNION {[1 .. n -> Range(q)] : n \in Nat}
    BY <1>1
<1> QED
    BY <1>2, SeqDef, Zenon DEF IsSeq

LEMMA Sequence == ASSUME NEW V, NEW q \in Seq(V) PROVE IsSeq(q)
<1>1. Len(q) \in Nat /\ DOMAIN q = 1 .. Len(q) /\ q \in [1 .. Len(q) -> V]
    BY LenProperties
<1>2. q = [n \in 1 .. Len(q) |-> q[n]]
    BY <1>1
<1> QED
    BY <1>1, <1>2, Listed

\* What is appended to a file, and what was there, is in it.
HasBoth(c, a, b) ==
    /\ IsSeq(c)
    /\ \A n \in DOMAIN a : \E m \in DOMAIN c : c[m] = a[n]
    /\ \A n \in DOMAIN b : \E m \in DOMAIN c : c[m] = b[n]

LEMMA Joined == ASSUME NEW a, NEW b, IsSeq(a), IsSeq(b) PROVE HasBoth(a \o b, a, b)
<1> DEFINE V == Range(a) \cup Range(b)
<1>1. a \in Seq(V) /\ b \in Seq(V)
    BY DEF IsSeq, Range
<1> HIDE DEF V
<1>2. /\ a \o b \in Seq(V) /\ Len(a \o b) = Len(a) + Len(b) /\ Len(a) \in Nat /\ Len(b) \in Nat
      /\ \A n \in 1 .. Len(a) + Len(b) :
            (a \o b)[n] = IF n <= Len(a) THEN a[n] ELSE b[n - Len(a)]
    BY <1>1, ConcatProperties
<1>3. DOMAIN a = 1 .. Len(a) /\ DOMAIN b = 1 .. Len(b) /\ DOMAIN (a \o b) = 1 .. Len(a) + Len(b)
    BY <1>1, <1>2, LenProperties
<1>4. IsSeq(a \o b)
    BY <1>2, Sequence
<1>5. ASSUME NEW n \in DOMAIN b PROVE \E m \in DOMAIN (a \o b) : (a \o b)[m] = b[n]
    <2>1. Len(a) + n \in 1 .. Len(a) + Len(b) /\ ~(Len(a) + n <= Len(a)) /\ Len(a) + n - Len(a) = n
        BY <1>2, <1>3
    <2> QED
        BY <1>2, <1>3, <2>1
<1>6. ASSUME NEW n \in DOMAIN a PROVE \E m \in DOMAIN (a \o b) : (a \o b)[m] = a[n]
    <2>1. n \in 1 .. Len(a) + Len(b) /\ n <= Len(a)
        BY <1>2, <1>3
    <2> QED
        BY <1>2, <1>3, <2>1
<1> QED
    BY <1>4, <1>5, <1>6, Zenon DEF HasBoth

LEMMA Empty == IsSeq(<<>>) /\ DOMAIN <<>> = {} /\ DOMAIN NoFiles = {}
BY DEF IsSeq, NoFiles

\* A file that is there stays; the others are those of the batch.
LEMMA FilesFrom ==
    ASSUME NEW s \in Streams, NEW P
    PROVE  LET files == FilesAfter(s, P)
           IN  /\ DOMAIN files = DOMAIN temp[s] \cup {batch[s][k].idx : k \in P}
               /\ \A i \in DOMAIN temp[s] : files[i] = temp[s][i]
BY DEF FilesAfter

LEMMA FilesArrive ==
    ASSUME NEW part, Arrive(part), NEW s \in Streams
    PROVE  \A i \in DOMAIN temp[s] : i \in DOMAIN temp'[s] /\ temp'[s][i] = temp[s][i]
BY FilesFrom DEF Arrive

LEMMA DeliverWrites ==
    ASSUME FilesInv, Deliver, NEW s \in Streams
    PROVE  /\ Written(s)'
           /\ \A i \in DOMAIN temp[s] : i \in DOMAIN temp'[s] /\ temp'[s][i] = temp[s][i]
<1>1. PICK part \in [Streams -> Parts] :
        /\ Range(part[s]) \subseteq DOMAIN batch[s]
        /\ temp'[s] = FilesAfter(s, Range(part[s]))
        /\ got'[s] = IF batch[s] = <<>> THEN <<>> ELSE Contents(s, part[s])
    BY DEF Deliver, Arrive
<1>2. batch' = batch /\ setup' = setup /\ phase = "fetch" /\ (Moving => DOMAIN temp[s] = {})
    BY DEF Deliver, FilesInv
<1> DEFINE files == FilesAfter(s, Range(part[s]))
           init == IF setup.init THEN <<InitSegment>> ELSE <<>>
           list == [n \in DOMAIN part[s] |-> files[batch[s][part[s][n]].idx]]
<1>3. /\ DOMAIN files = DOMAIN temp[s] \cup {batch[s][k].idx : k \in Range(part[s])}
      /\ \A i \in DOMAIN temp[s] : files[i] = temp[s][i]
    BY FilesFrom
<1>4. Contents(s, part[s]) = init \o list
    BY DEF Contents
<1> HIDE DEF files
<1>5. IsSeq(list) /\ IsSeq(init) /\ DOMAIN list = DOMAIN part[s]
    <2>1. PICK k \in 0 .. Window : DOMAIN part[s] = 1 .. k
        BY DEF Parts
    <2>2. IsSeq(list)
        BY <2>1, Listed
    <2>3. IsSeq(<<InitSegment>>)
        BY DEF IsSeq, Range
    <2> QED
        BY <2>2, <2>3, Empty
<1> DEFINE file(n) == list[n] = files[batch[s][part[s][n]].idx]
<1>8. \A n \in DOMAIN part[s] : file(n)
    OBVIOUS
<1> HIDE DEF list, init, file
<1>9. HasBoth(init \o list, init, list)
    BY <1>5, Joined, Zenon
<1>6. IsSeq(got'[s])
    BY <1>1, <1>4, <1>9, Empty, Zenon DEF HasBoth
<1>7. ASSUME Moving, NEW i \in DOMAIN temp'[s]
      PROVE  batch[s] # <<>> /\ \E n \in DOMAIN got'[s] : got'[s][n] = temp'[s][i]
    <2>1. temp'[s] = files
        BY <1>1 DEF files
    <2>2. PICK n \in DOMAIN part[s] : i = batch[s][part[s][n]].idx
        BY <1>2, <1>3, <1>7, <2>1 DEF Range
    <2>3. part[s][n] \in DOMAIN batch[s]
        BY <1>1 DEF Range
    <2>4. batch[s] # <<>>
        BY <2>3, Empty
    <2>5. n \in DOMAIN list /\ list[n] = temp'[s][i]
        BY <1>5, <1>8, <2>1, <2>2 DEF file
    <2>6. got'[s] = init \o list
        BY <1>1, <1>4, <2>4
    <2> QED
        BY <1>9, <2>4, <2>5, <2>6 DEF HasBoth
<1> QED
    BY <1>1, <1>2, <1>3, <1>6, <1>7 DEF Written, Moving, files

\* What a download delivered is appended before its files are removed.
LEMMA WriteAppends ==
    ASSUME FilesInv, Write \/ WriteFails, NEW s \in Streams, \A x \in Setups : x.merge \/ x.keep
    PROVE  /\ IsSeq(output'[s])
           /\ \A n \in DOMAIN output[s] : \E m \in DOMAIN output'[s] : output'[s][m] = output[s][n]
           /\ \/ temp'[s] = temp[s]
              \/ \A i \in DOMAIN temp[s] : \E m \in DOMAIN output'[s] : output'[s][m] = temp[s][i]
<1>1. phase = "write" /\ Written(s) /\ IsSeq(output[s]) /\ IsSeq(got[s])
    BY DEF FilesInv, Write, WriteFails, Written
<1>2. setup.merge \/ setup.keep
    BY DEF FilesInv
<1>3. CASE temp'[s] # temp[s]
    <2>1. Moving /\ output'[s] = output[s] \o got[s]
        BY <1>2, <1>3 DEF Write, WriteFails, Cleaned, Moving
    <2>2. HasBoth(output'[s], output[s], got[s])
        BY <1>1, <2>1, Joined, Zenon
    <2> QED
        <3>1. ASSUME NEW i \in DOMAIN temp[s]
              PROVE  \E m \in DOMAIN output'[s] : output'[s][m] = temp[s][i]
            <4>1. PICK n \in DOMAIN got[s] : got[s][n] = temp[s][i]
                BY <1>1, <2>1 DEF Written
            <4>2. PICK m \in DOMAIN output'[s] : output'[s][m] = got[s][n]
                BY <2>2, Zenon DEF HasBoth
            <4> QED
                BY <4>1, <4>2
        <3> QED
            BY <2>2, <3>1, Zenon DEF HasBoth
<1>4. CASE temp'[s] = temp[s]
    <2>1. \/ output'[s] = output[s]
          \/ output'[s] = output[s] \o got[s]
          \/ \E n \in 0 .. Window + 1 : n <= Len(got[s]) /\ output'[s] = output[s] \o SubSeq(got[s], 1, n)
        BY DEF Write, WriteFails
    <2>2. ASSUME NEW n \in 0 .. Window + 1, n <= Len(got[s]) PROVE IsSeq(SubSeq(got[s], 1, n))
        <3>1. got[s] \in Seq(Range(got[s])) /\ n \in Nat
            BY <1>1, LiveAssumption DEF IsSeq
        <3>2. SubSeq(got[s], 1, n) \in Seq(Range(got[s]))
            BY <2>2, <3>1
        <3> QED
            BY <3>2, Sequence
    <2>3. PICK b : IsSeq(b) /\ (output'[s] = output[s] \/ output'[s] = output[s] \o b)
        BY <1>1, <2>1, <2>2
    <2>4. HasBoth(output[s] \o b, output[s], b)
        BY <1>1, <2>3, Joined, Zenon
    <2> QED
        BY <1>1, <1>4, <2>3, <2>4 DEF HasBoth
<1> QED
    BY <1>3, <1>4

LEMMA FilesStep ==
    ASSUME FilesInv, [Next]_vars, \A x \in Setups : x.merge \/ x.keep
    PROVE  FilesInv' /\ \A s \in Streams : Held(s) \subseteq Held(s)'
<1>1. CASE Deliver
    <2>1. /\ setup' = setup /\ output' = output /\ phase' = "write"
        BY <1>1 DEF Deliver
    <2>2. FilesInv'
        BY <1>1, <2>1, DeliverWrites DEF FilesInv
    <2> QED
        BY <1>1, <2>1, <2>2, DeliverWrites DEF Held
<1>2. CASE Write
    <2>1. setup' = setup /\ phase = "write" /\ phase' \in {"done", "wait"}
        BY <1>2 DEF Write
    <2>2. ASSUME NEW s \in Streams, Moving PROVE DOMAIN temp'[s] = {}
        <3>1. temp'[s] = NoFiles \/ (temp'[s] = temp[s] /\ batch[s] = <<>>)
            BY <1>2, <2>2 DEF Write, Cleaned, Moving
        <3>2. Written(s)
            BY <2>1 DEF FilesInv
        <3> QED
            BY <2>2, <3>1, <3>2, Empty DEF Written
    <2>3. FilesInv'
        BY <1>2, <2>1, <2>2, WriteAppends DEF FilesInv, Moving
    <2> QED
        BY <1>2, <2>3, WriteAppends DEF Held
<1>3. CASE WriteFails
    <2>1. setup' = setup /\ phase' = "failed"
        BY <1>3 DEF WriteFails
    <2>2. FilesInv'
        BY <1>3, <2>1, WriteAppends DEF FilesInv
    <2> QED
        BY <1>3, <2>2, WriteAppends DEF Held
<1>4. CASE UNCHANGED <<phase, setup, output, temp, batch, got>>
    BY <1>4 DEF FilesInv, Written, Moving, Held
<1>5. CASE /\ UNCHANGED <<setup, output, temp>> /\ phase' # "write"
           /\ phase' = "failed" \/ phase \in {"load", "wait"}
    BY <1>5 DEF FilesInv, Moving, Held
<1>6. CASE FetchFails
    <2>1. UNCHANGED <<setup, output>> /\ phase' = "failed"
        BY <1>6 DEF FetchFails
    <2>2. PICK part \in [Streams -> Parts] : Arrive(part)
        BY <1>6 DEF FetchFails
    <2> QED
        BY <2>1, <2>2, FilesArrive DEF FilesInv, Held
<1> QED
    BY <1>1, <1>2, <1>3, <1>4, <1>5, <1>6 DEF Next, Record, Load, Refresh, RefreshFails,
        NoticeCancel, Cancel, Publish, vars

\* What was recorded stays, in the output or as a file, whatever fails and whenever: the
\* files of a batch are deleted only when all of it is in the output, and no file of
\* another batch is among them.  (Without live_real_time_merge and without
\* live_keep_segments the code does delete what was not merged: the hypothesis.)
THEOREM NothingIsTakenBack ==
    ASSUME \A x \in Setups : x.merge \/ x.keep
    PROVE  Spec => NothingTakenBack
<1>1. Init => FilesInv
    BY Empty DEF Init, FilesInv
<1>2. FilesInv /\ [Next]_vars => FilesInv' /\ \A s \in Streams : Held(s) \subseteq Held(s)'
    BY FilesStep
<1>3. FilesInv /\ [Next]_vars => [\A s \in Streams : Held(s) \subseteq Held(s)']_vars
    BY <1>2
<1>4. FilesInv /\ [Next]_vars => FilesInv'
    BY <1>2
<1> QED
    BY <1>1, <1>3, <1>4, PTL DEF Spec, NothingTakenBack

-----------------------------------------------------------------------------
(***************************************************************************)
(* That a recording is a run of segments.                                  *)
(***************************************************************************)

\* The last n segments up to number m.
UpTo(m, n) == [k \in 1 .. n |-> Numbered(m - n + k)]

Low(s) == window[s][1]
High(s) == window[s][2]

\* A playlist that does not begin with the first segment is full.
ServerInv == DOMAIN window = Streams /\ \A s \in Streams :
    /\ Low(s) \in Nat \ {0} /\ High(s) \in Nat
    /\ Low(s) <= High(s) /\ High(s) - Low(s) < Window
    /\ Low(s) = 1 \/ High(s) - Low(s) = Window - 1
    /\ \A t \in Streams : High(s) - High(t) <= Skew

\* The last segment taken in, and the last one before the batch in hand.
Taken(s) == st[s].maxIndex
Earlier(s) == Taken(s) - Len(batch[s])

\* A state of a stream knows the last segment by its name and its date.
Knows(x) ==
    /\ x.maxIndex \in Nat
    /\ x.maxIndex = 0 => x.lastName = None /\ x.lastDate = 0
    /\ x.maxIndex # 0 => /\ x.lastName = Name(Numbered(x.maxIndex))
                         /\ x.lastDate = Date(Numbered(x.maxIndex))

BatchInv == \A s \in Streams :
    /\ DOMAIN st[s] = Fields /\ Knows(st[s])
    /\ Len(batch[s]) \in 0 .. Taken(s)
    /\ batch[s] = UpTo(Taken(s), Len(batch[s]))

NamesInv == \A s \in Streams : \A i \in DOMAIN temp[s] : i \in Nat \ {0} /\ temp[s][i] = i

\* The segments of a file ascend, after lo and up to hi.
Between(q, lo, hi) ==
    /\ q \in Seq(Nat)
    /\ \A n \in DOMAIN q : q[n] # 0 => lo < q[n] /\ q[n] <= hi
    /\ \A m, n \in DOMAIN q : m < n /\ q[m] # 0 /\ q[n] # 0 => q[m] < q[n]

OrderInv == \A s \in Streams :
    /\ phase # "failed" => Between(output[s], 0, Earlier(s))
    /\ phase = "failed" => Between(output[s], 0, Taken(s))
    /\ phase = "write" => Between(got[s], Earlier(s), Taken(s))

\* Nothing is taken in before the first window.
FreshInv == phase = "load" => \A s \in Streams :
    st[s] = NewState /\ batch[s] = <<>> /\ output[s] = <<>> /\ temp[s] = NoFiles

RestInv == phase \in {"wait", "done"} => \A s \in Streams : batch[s] = <<>>

Segments(q) == Range(q) \ {0}

\* From a on to any of C, all are in C.
Spans(C, a) == \A q \in C : q \in Nat /\ a <= q /\ a .. q \subseteq C

\* What there is of stream s begins with segment a, and none is missing.
Since(s, a) ==
    /\ a <= Earlier(s) + 1 /\ a <= Taken(s)
    /\ setup.check /\ setup.merge =>
        /\ phase # "failed" => Segments(output[s]) = a .. Earlier(s)
        /\ phase = "write" => Segments(got[s]) = Earlier(s) + 1 .. Taken(s)
        /\ phase = "failed" => Spans(Segments(output[s]), a)
    /\ setup.check /\ ~setup.merge =>
        /\ phase \in {"fetch", "wait", "done"} => DOMAIN temp[s] = a .. Earlier(s)
        /\ phase = "write" => DOMAIN temp[s] = a .. Taken(s)
        /\ phase = "failed" => /\ a .. Earlier(s) \subseteq DOMAIN temp[s]
                               /\ DOMAIN temp[s] \subseteq a .. Taken(s)

SinceInv == phase # "load" => \E a \in Nat \ {0} : \A s \in Streams : Since(s, a)

RunInv == /\ setup \in Setups /\ phase \in Phases
          /\ ServerInv /\ BatchInv /\ NamesInv /\ OrderInv /\ FreshInv /\ RestInv /\ SinceInv

(***************************************************************************)
(* What tells the segments of a comparable source apart.                   *)
(***************************************************************************)

LEMMA DatesAscend ==
    ASSUME HalfSeconds >= 2, NEW p \in Nat, NEW q \in Nat, p < q
    PROVE  (p * HalfSeconds) \div 2 < (q * HalfSeconds) \div 2
<1>1. p * HalfSeconds \in Nat /\ q * HalfSeconds \in Nat
    BY LiveAssumption
<1>2. (q - p) * HalfSeconds >= HalfSeconds
    BY LiveAssumption
<1>3. q * HalfSeconds = p * HalfSeconds + (q - p) * HalfSeconds
    BY LiveAssumption
<1>4. p * HalfSeconds + 2 <= q * HalfSeconds
    BY <1>1, <1>2, <1>3, LiveAssumption
<1>5. \A a, b \in Nat : a + 2 <= b => a \div 2 < b \div 2
    OBVIOUS
<1> QED
    BY <1>1, <1>4, <1>5

LEMMA DatesTell ==
    ASSUME Comparable, setup \in Setups, NEW p \in Nat, NEW q \in Nat, p < q
    PROVE  /\ Name(Numbered(p)) \in Nat /\ Name(Numbered(p)) # Name(Numbered(q))
           /\ Key(Numbered(p)) \in Nat /\ Key(Numbered(p)) < Key(Numbered(q))
           /\ Date(Numbered(p)) \in Nat
           /\ setup.dated => Date(Numbered(p)) # 0 /\ Date(Numbered(p)) < Date(Numbered(q))
<1>1. setup.dated => (p * HalfSeconds) \div 2 < (q * HalfSeconds) \div 2
    BY DatesAscend DEF Comparable
<1>2. p * HalfSeconds \in Nat /\ q * HalfSeconds \in Nat
    BY LiveAssumption
<1>3. (p * HalfSeconds) \div 2 \in Nat /\ (q * HalfSeconds) \div 2 \in Nat
    BY <1>2
<1>4. /\ Date(Numbered(p)) = IF setup.dated THEN (p * HalfSeconds) \div 2 + 1 ELSE 0
      /\ Date(Numbered(q)) = IF setup.dated THEN (q * HalfSeconds) \div 2 + 1 ELSE 0
    BY DEF Date, Numbered
<1>5. setup.dated => /\ Date(Numbered(p)) \in Nat \ {0} /\ Date(Numbered(q)) \in Nat
                     /\ Date(Numbered(p)) < Date(Numbered(q))
    BY <1>1, <1>3, <1>4
<1>6. Date(Numbered(p)) \in Nat
    BY <1>3, <1>4
<1>7. Numbered(p).idx = p /\ Numbered(p).seq = p /\ Numbered(q).idx = q /\ Numbered(q).seq = q
    BY DEF Numbered
<1>8. /\ Name(Numbered(p)) = IF ~setup.hls THEN p ELSE IF setup.dated THEN Date(Numbered(p)) ELSE p
      /\ Name(Numbered(q)) = IF ~setup.hls THEN q ELSE IF setup.dated THEN Date(Numbered(q)) ELSE q
      /\ Key(Numbered(p)) = IF setup.dated THEN Date(Numbered(p)) ELSE p
      /\ Key(Numbered(q)) = IF setup.dated THEN Date(Numbered(q)) ELSE q
    BY <1>7 DEF Name, Key
<1> QED
    BY <1>5, <1>6, <1>8

\* A state recognises the last segment and no other.
LEMMA OnlyLast ==
    ASSUME Comparable, setup \in Setups, NEW x, Knows(x), NEW q \in Nat \ {0}
    PROVE  IsLast(x, Numbered(q)) <=> q = x.maxIndex
<1> DEFINE m == x.maxIndex
<1>1. m \in Nat
    BY DEF Knows
<1>2. CASE m = 0
    <2>1. x.lastName = None /\ x.lastDate = 0
        BY <1>2 DEF Knows
    <2>2. Name(Numbered(q)) \in Nat
        BY DatesTell
    <2> QED
        BY <1>2, <2>1, <2>2 DEF IsLast, None
<1>3. CASE m # 0
    <2>1. x.lastName = Name(Numbered(m)) /\ x.lastDate = Date(Numbered(m))
        BY <1>3 DEF Knows
    <2> HIDE DEF m
    <2>2. q # m => /\ Name(Numbered(q)) # Name(Numbered(m))
                   /\ setup.dated => Date(Numbered(q)) # Date(Numbered(m))
        <3>1. CASE q < m
            BY <1>1, <3>1, DatesTell
        <3>2. CASE m < q
            BY <1>1, <3>2, DatesTell
        <3> QED
            BY <1>1, <3>1, <3>2
    <2>3. IsLast(x, Numbered(q)) <=> q = m
        BY <2>1, <2>2 DEF IsLast
    <2> QED
        BY <2>3 DEF m
<1> QED
    BY <1>2, <1>3

(***************************************************************************)
(* Runs of segments.                                                       *)
(***************************************************************************)

LEMMA RunOf ==
    ASSUME NEW m \in Nat, NEW n \in 0 .. m
    PROVE  /\ UpTo(m, n) \in Seq([idx : Nat, seq : Nat])
           /\ Len(UpTo(m, n)) = n /\ DOMAIN UpTo(m, n) = 1 .. n
           /\ \A k \in 1 .. n : /\ UpTo(m, n)[k] = Numbered(m - n + k)
                                /\ m - n + k \in Nat \ {0}
<1> DEFINE V == [idx : Nat, seq : Nat]
<1>1. \A k \in 1 .. n : m - n + k \in Nat \ {0} /\ Numbered(m - n + k) \in V
    BY DEF Numbered
<1> HIDE DEF V
<1>2. UpTo(m, n) \in [1 .. n -> V] /\ DOMAIN UpTo(m, n) = 1 .. n
    BY <1>1 DEF UpTo
<1>3. UpTo(m, n) \in Seq(V)
    BY <1>2
<1>4. Len(UpTo(m, n)) = n
    BY <1>2, <1>3, LenProperties
<1> QED
    BY <1>1, <1>2, <1>3, <1>4 DEF UpTo, V

LEMMA RunEnd ==
    ASSUME NEW m \in Nat, NEW n \in 0 .. m, NEW j \in 0 .. n
    PROVE  SubSeq(UpTo(m, n), j + 1, n) = UpTo(m, n - j)
<1> DEFINE q == UpTo(m, n)
           r == SubSeq(q, j + 1, n)
<1>1. /\ q \in Seq([idx : Nat, seq : Nat]) /\ Len(q) = n
      /\ \A k \in 1 .. n : q[k] = Numbered(m - n + k)
    BY RunOf
<1> HIDE DEF q
<1>2. \A i \in j + 1 .. n : q[i] \in [idx : Nat, seq : Nat]
    <2>1. \A k \in Nat : Numbered(k) \in [idx : Nat, seq : Nat]
        BY DEF Numbered
    <2>2. \A i \in j + 1 .. n : i \in 1 .. n /\ m - n + i \in Nat
        OBVIOUS
    <2> QED
        BY <1>1, <2>1, <2>2
<1>3. /\ r \in Seq([idx : Nat, seq : Nat])
      /\ Len(r) = IF j + 1 <= n THEN n - (j + 1) + 1 ELSE 0
      /\ \A i \in 1 .. n - (j + 1) + 1 : r[i] = q[j + 1 + i - 1]
    BY <1>2, SubSeqProperties
<1> HIDE DEF r
<1>4. Len(r) = n - j
    BY <1>3
<1>5. DOMAIN r = 1 .. n - j /\ r = [k \in 1 .. n - j |-> r[k]]
    BY <1>3, <1>4, LenProperties
<1>6. ASSUME NEW k \in 1 .. n - j PROVE r[k] = Numbered(m - (n - j) + k)
    <2>1. r[k] = q[j + k] /\ j + k \in 1 .. n
        <3>1. k \in 1 .. n - (j + 1) + 1 /\ j + 1 + k - 1 = j + k /\ j + k \in 1 .. n
            OBVIOUS
        <3> QED
            BY <1>3, <3>1
    <2>2. q[j + k] = Numbered(m - n + (j + k)) /\ m - n + (j + k) = m - (n - j) + k
        BY <1>1, <2>1
    <2> QED
        BY <2>1, <2>2
<1>7. r = UpTo(m, n - j)
    BY <1>5, <1>6 DEF UpTo
<1> QED
    BY <1>7 DEF r, q

LEMMA NoRun == ASSUME NEW m \in Nat PROVE UpTo(m, 0) = <<>>
BY DEF UpTo

\* What is new in a playlist is its end, after the last segment taken in, if it is there.
LEMMA UnseenIsEnd ==
    ASSUME Comparable, setup \in Setups, NEW x, Knows(x), NEW h \in Nat, NEW n \in 0 .. h
    PROVE  \E j \in 0 .. n : /\ Unseen(x, UpTo(h, n)) = UpTo(h, j)
                             /\ x.maxIndex = 0 => j = n
                             /\ x.maxIndex # 0 /\ j # 0 => h - j = x.maxIndex
<1> DEFINE m == x.maxIndex
           q == UpTo(h, n)
           hits == {k \in DOMAIN q : IsLast(x, q[k])}
<1>1. m \in Nat
    BY DEF Knows
<1>2. /\ q \in Seq([idx : Nat, seq : Nat]) /\ Len(q) = n /\ DOMAIN q = 1 .. n
      /\ \A k \in 1 .. n : q[k] = Numbered(h - n + k) /\ h - n + k \in Nat \ {0}
    BY RunOf
<1>3. \A k \in 1 .. n : k \in hits <=> h - n + k = m
    BY <1>2, OnlyLast
<1>4. CASE hits = {} /\ m = 0
    <2>1. x.lastName = None /\ x.lastDate = 0
        BY <1>4 DEF Knows
    <2>2. Unseen(x, q) = q
        BY <1>4, <2>1 DEF Unseen
    <2> QED
        BY <1>4, <2>2
<1>5. CASE hits = {} /\ m # 0
    <2>1. x.lastName # None
        <3>1. x.lastName = Name(Numbered(m))
            BY <1>5 DEF Knows
        <3> HIDE DEF m
        <3>2. Name(Numbered(m)) \in Nat
            BY <1>1, DatesTell, m < m + 1
        <3> QED
            BY <3>1, <3>2 DEF None
    <2>2. Unseen(x, q) = <<>>
        BY <1>5, <2>1 DEF Unseen
    <2> QED
        BY <1>5, <2>2, NoRun
<1>6. CASE hits # {}
    <2>1. PICK k \in 1 .. n : k \in hits
        BY <1>2, <1>6
    <2>2. hits = {m - h + n} /\ k = m - h + n
        BY <1>1, <1>2, <1>3, <2>1
    <2>3. Min(hits) = m - h + n
        BY <2>2 DEF Min
    <2>4. Unseen(x, q) = SubSeq(q, Min(hits) + 1, Len(q))
        BY <1>6 DEF Unseen
    <2> HIDE DEF hits, q, m
    <2>5. Unseen(x, q) = SubSeq(q, k + 1, n)
        BY <1>2, <2>2, <2>3, <2>4
    <2>6. Unseen(x, q) = UpTo(h, n - k)
        <3>1. k \in 0 .. n
            OBVIOUS
        <3> QED
            BY <2>5, <3>1, RunEnd, Zenon DEF q
    <2>7. n - k \in 0 .. n /\ h - (n - k) = m /\ m # 0
        BY <1>1, <2>1, <2>2
    <2> QED
        BY <2>6, <2>7 DEF q, m
<1> QED
    BY <1>4, <1>5, <1>6

\* A stream is given the segments after the last one, under their own numbers.
LEMMA NewIsEnd ==
    ASSUME Comparable, setup \in Setups, NEW x, Knows(x), NEW h \in Nat, NEW n \in 0 .. h
    PROVE  \E j \in 0 .. n : /\ NewSegments(x, UpTo(h, n)) = UpTo(h, j)
                             /\ x.maxIndex = 0 => j = n
                             /\ x.maxIndex # 0 /\ j # 0 => h - j = x.maxIndex
<1> DEFINE m == x.maxIndex
<1>1. m \in Nat
    BY DEF Knows
<1>2. PICK j \in 0 .. n : /\ Unseen(x, UpTo(h, n)) = UpTo(h, j)
                          /\ m = 0 => j = n
                          /\ m # 0 /\ j # 0 => h - j = m
    BY UnseenIsEnd
<1> DEFINE q == UpTo(h, j)
           least == IF q = <<>> THEN m ELSE Min({q[k].idx : k \in DOMAIN q})
           offset == IF least < m THEN m - least + 1 ELSE 0
<1>3. /\ Len(q) = j /\ DOMAIN q = 1 .. j
      /\ \A k \in 1 .. j : q[k] = Numbered(h - j + k) /\ h - j + k \in Nat \ {0}
    <2>1. j \in 0 .. h
        OBVIOUS
    <2> QED
        BY <2>1, RunOf
<1>4. offset = 0
    <2>1. CASE q = <<>>
        BY <1>1, <2>1
    <2>2. CASE q # <<>>
        <3> DEFINE I == {q[k].idx : k \in DOMAIN q}
        <3>1. j # 0
            BY <1>3, <2>2, NoRun
        <3>2. \A k \in 1 .. j : q[k].idx = h - j + k
            BY <1>3 DEF Numbered
        <3>3. I \in SUBSET Nat /\ I # {}
            BY <1>3, <3>1, <3>2
        <3> HIDE DEF I
        <3>4. Min(I) \in I
            BY <3>3, Least
        <3>5. PICK k \in 1 .. j : Min(I) = h - j + k
            BY <1>3, <3>2, <3>4 DEF I
        <3>6. ~(Min(I) < m)
            BY <1>1, <1>2, <3>1, <3>5
        <3>7. least = Min(I)
            BY <2>2 DEF I
        <3> HIDE DEF m, least
        <3> QED
            BY <3>6, <3>7
    <2> QED
        BY <2>1, <2>2
<1>5. NewSegments(x, UpTo(h, n)) = [k \in DOMAIN q |-> [q[k] EXCEPT !.idx = q[k].idx + offset]]
    BY <1>2 DEF NewSegments, Renumbered
<1> HIDE DEF offset
<1>6. ASSUME NEW k \in 1 .. j
      PROVE  [q[k] EXCEPT !.idx = q[k].idx + offset] = Numbered(h - j + k)
    <2>1. q[k] = Numbered(h - j + k) /\ h - j + k \in Nat
        BY <1>3
    <2>2. \A i \in Nat : [Numbered(i) EXCEPT !.idx = Numbered(i).idx + 0] = Numbered(i)
        BY DEF Numbered
    <2> HIDE DEF q
    <2> QED
        BY <1>4, <2>1, <2>2
<1>7. NewSegments(x, UpTo(h, n)) = [k \in 1 .. j |-> Numbered(h - j + k)]
    BY <1>3, <1>5, <1>6
<1> QED
    BY <1>2, <1>7 DEF UpTo

LEMMA Greatest ==
    ASSUME NEW S, NEW h \in S, \A i \in S : i \in Nat /\ h >= i
    PROVE  Max(S) = h
<1>1. Max(S) \in S /\ \A i \in S : Max(S) >= i
    BY DEF Max
<1> QED
    BY <1>1

\* After that the state knows the last segment of the playlist.
LEMMA KnowsMore ==
    ASSUME NEW x, DOMAIN x = Fields, Knows(x), NEW h \in Nat, NEW j \in 0 .. h
    PROVE  LET y == AfterRefresh(x, UpTo(h, j))
           IN  /\ DOMAIN y = Fields /\ Knows(y)
               /\ y.maxIndex = IF j = 0 THEN x.maxIndex ELSE h
<1> DEFINE q == UpTo(h, j)
           y == AfterRefresh(x, q)
<1>1. /\ Len(q) = j /\ DOMAIN q = 1 .. j
      /\ \A k \in 1 .. j : q[k] = Numbered(h - j + k) /\ h - j + k \in Nat \ {0}
    BY RunOf
<1>2. CASE j = 0
    <2>1. q = <<>>
        BY <1>2, NoRun
    <2> HIDE DEF q
    <2>2. /\ DOMAIN y = Fields
          /\ y.maxIndex = x.maxIndex /\ y.lastName = x.lastName /\ y.lastDate = x.lastDate
        BY <2>1 DEF AfterRefresh, Fields, NewState
    <2> HIDE DEF y
    <2>3. Knows(y)
        BY <2>2 DEF Knows
    <2> QED
        BY <1>2, <2>2, <2>3 DEF y, q
<1>3. CASE j # 0
    <2> DEFINE I == {q[k].idx : k \in DOMAIN q}
    <2>1. \A k \in 1 .. j : q[k].idx = h - j + k
        BY <1>1 DEF Numbered
    <2>2. h \in I /\ \A i \in I : i \in Nat /\ h >= i
        <3>1. j \in 1 .. j /\ h - j + j = h
            BY <1>3
        <3> QED
            BY <1>1, <2>1, <3>1
    <2> HIDE DEF I
    <2>3. Max(I) = h
        BY <2>2, Greatest
    <2>4. q # <<>> /\ q[Len(q)] = Numbered(h)
        <3>1. j \in 1 .. j /\ h - j + j = h
            BY <1>3
        <3> QED
            BY <1>1, <3>1
    <2> HIDE DEF q
    <2>5. /\ DOMAIN y = Fields
          /\ y.maxIndex = Max(I) /\ y.lastName = Name(q[Len(q)]) /\ y.lastDate = Date(q[Len(q)])
        BY <2>4 DEF AfterRefresh, Fields, NewState, I
    <2> HIDE DEF y
    <2>6. h # 0
        BY <1>3
    <2>7. Knows(y)
        BY <2>3, <2>4, <2>5, <2>6 DEF Knows
    <2> QED
        BY <1>3, <2>3, <2>5, <2>7 DEF y, q
<1> QED
    BY <1>2, <1>3

\* The batch a stream is given follows on what it had.
LEMMA TakeInFollows ==
    ASSUME Comparable, setup \in Setups, BatchInv, NEW list, TakeIn(list), NEW s \in Streams,
           batch[s] = <<>>, NEW h \in Nat, NEW n \in 0 .. h, list[s] = UpTo(h, n)
    PROVE  /\ DOMAIN st'[s] = Fields /\ Knows(st'[s])
           /\ Len(batch'[s]) \in 0 .. st'[s].maxIndex
           /\ batch'[s] = UpTo(st'[s].maxIndex, Len(batch'[s]))
           /\ st'[s].maxIndex - Len(batch'[s]) >= Taken(s)
           /\ Taken(s) # 0 => st'[s].maxIndex - Len(batch'[s]) = Taken(s)
           /\ Taken(s) = 0 /\ ~st[s].limit /\ n # 0 =>
                st'[s].maxIndex = h /\ Len(batch'[s]) = n
<1> DEFINE x == st[s]
           m == x.maxIndex
<1>1. DOMAIN x = Fields /\ Knows(x) /\ m \in Nat /\ Taken(s) = m
    BY DEF BatchInv, Knows, Taken
<1>2. CASE x.limit
    <2>1. st'[s] = x /\ batch'[s] = <<>>
        BY <1>2 DEF TakeIn
    <2>2. Len(<<>>) = 0 /\ UpTo(m, 0) = <<>>
        BY <1>1, NoRun
    <2> HIDE DEF x
    <2>3. /\ DOMAIN st'[s] = Fields /\ Knows(st'[s])
          /\ st'[s].maxIndex = m /\ Len(batch'[s]) = 0 /\ batch'[s] = UpTo(m, 0)
        BY <1>1, <2>1, <2>2
    <2> HIDE DEF m
    <2> QED
        BY <1>1, <1>2, <2>3 DEF x
<1>3. CASE ~x.limit
    <2>1. PICK j \in 0 .. n : /\ NewSegments(x, UpTo(h, n)) = UpTo(h, j)
                              /\ m = 0 => j = n
                              /\ m # 0 /\ j # 0 => h - j = m
        BY <1>1, NewIsEnd
    <2>2. st'[s] = AfterRefresh(x, UpTo(h, j)) /\ batch'[s] = UpTo(h, j)
        BY <1>3, <2>1 DEF TakeIn
    <2> HIDE DEF x
    <2>3. /\ DOMAIN st'[s] = Fields /\ Knows(st'[s])
          /\ st'[s].maxIndex = IF j = 0 THEN m ELSE h
        <3>1. j \in 0 .. h
            OBVIOUS
        <3> QED
            <4> DEFINE y == AfterRefresh(x, UpTo(h, j))
            <4>1. DOMAIN y = Fields /\ Knows(y) /\ y.maxIndex = IF j = 0 THEN m ELSE h
                BY <1>1, <3>1, KnowsMore
            <4>2. st'[s] = y
                BY <2>2
            <4> HIDE DEF y, m
            <4> QED
                BY <4>1, <4>2
    <2>4. Len(batch'[s]) = j
        <3>1. j \in 0 .. h
            OBVIOUS
        <3> QED
            BY <2>2, <3>1, RunOf
    <2>5. batch'[s] = UpTo(st'[s].maxIndex, j)
        BY <1>1, <2>2, <2>3, NoRun
    <2> HIDE DEF m
    <2> QED
        BY <1>1, <2>1, <2>3, <2>4, <2>5
<1> QED
    BY <1>2, <1>3

(***************************************************************************)
(* Where the streams start.                                                *)
(***************************************************************************)

LEMMA PlaylistIsRun ==
    ASSUME Comparable, setup \in Setups, ServerInv, NEW s \in Streams
    PROVE  /\ High(s) - Low(s) + 1 \in 1 .. High(s)
           /\ Playlist(s) = UpTo(High(s), High(s) - Low(s) + 1)
<1>1. ~setup.position
    BY DEF Comparable
<1>2. Low(s) \in Nat \ {0} /\ High(s) \in Nat /\ Low(s) <= High(s)
    BY DEF ServerInv
<1>3. \A k \in 1 .. High(s) - Low(s) + 1 :
        Low(s) + k - 1 = High(s) - (High(s) - Low(s) + 1) + k
    BY <1>2
<1>4. Playlist(s) = [k \in 1 .. High(s) - Low(s) + 1 |->
                        [idx |-> Low(s) + k - 1, seq |-> Low(s) + k - 1]]
    BY <1>1 DEF Playlist, Low, High
<1>5. Playlist(s) = UpTo(High(s), High(s) - Low(s) + 1)
    BY <1>3, <1>4 DEF UpTo, Numbered
<1> QED
    BY <1>2, <1>5

\* One of the playlists begins last.
LEMMA LatestStart ==
    ASSUME Comparable, ServerInv
    PROVE  \E t \in Streams : \A s \in Streams : Low(s) <= Low(t)
<1>1. 1 \in Streams
    BY LiveAssumption DEF Streams
<1>2. PICK top \in Nat : \A s \in Streams : High(s) <= top
    <2>1. \A s \in Streams : High(s) \in Nat /\ High(s) - High(1) <= Skew
        BY <1>1 DEF ServerInv
    <2>2. High(1) + Skew \in Nat /\ \A s \in Streams : High(s) <= High(1) + Skew
        BY <1>1, <2>1, LiveAssumption DEF Comparable
    <2> QED
        BY <2>2
<1> DEFINE gaps == {top - Low(s) : s \in Streams}
<1>3. \A s \in Streams : Low(s) \in Nat /\ top - Low(s) \in Nat
    BY <1>2 DEF ServerInv
<1>4. gaps \in SUBSET Nat /\ gaps # {}
    BY <1>1, <1>3
<1>5. PICK t \in Streams : \A g \in gaps : top - Low(t) <= g
    <2> HIDE DEF gaps
    <2>1. Min(gaps) \in gaps /\ \A g \in gaps : Min(gaps) <= g
        BY <1>4, Least
    <2> QED
        BY <2>1 DEF gaps
<1>6. ASSUME NEW s \in Streams PROVE Low(s) <= Low(t)
    <2>1. top - Low(t) <= top - Low(s)
        BY <1>5
    <2> QED
        BY <1>3, <2>1
<1> QED
    BY <1>6

\* The keys of comparable segments are ordered as their numbers.
LEMMA KeysAscend ==
    ASSUME Comparable, setup \in Setups, NEW p \in Nat, NEW q \in Nat
    PROVE  /\ Key(Numbered(p)) \in Nat
           /\ Key(Numbered(p)) >= Key(Numbered(q)) <=> p >= q
<1>1. Key(Numbered(p)) \in Nat /\ Key(Numbered(q)) \in Nat
    <2>1. p < p + 1 /\ q < q + 1 /\ p + 1 \in Nat /\ q + 1 \in Nat
        OBVIOUS
    <2> QED
        BY <2>1, DatesTell
<1>2. (p < q => Key(Numbered(p)) < Key(Numbered(q))) /\ (q < p => Key(Numbered(q)) < Key(Numbered(p)))
    BY DatesTell
<1> QED
    BY <1>1, <1>2

\* The streams are synchronised to the segment that the latest playlist begins with.
LEMMA SyncedIsRun ==
    ASSUME Comparable, setup \in Setups, ServerInv
    PROVE  \E a \in Nat \ {0} : \A s \in Streams :
                a <= High(s) /\ Synced(s) = UpTo(High(s), High(s) - a + 1)
<1>1. PICK t \in Streams : \A s \in Streams : Low(s) <= Low(t)
    BY LatestStart
<1> DEFINE a == Low(t)
           keys == {Key(Playlist(s)[1]) : s \in Streams}
<1>2. \A s \in Streams : /\ Low(s) \in Nat \ {0} /\ High(s) \in Nat
                         /\ Low(s) <= High(s) /\ Low(s) <= a /\ a <= High(s)
    BY <1>1, LiveAssumption DEF ServerInv, Comparable
<1>3. \A s \in Streams : /\ Playlist(s) = UpTo(High(s), High(s) - Low(s) + 1)
                         /\ High(s) - Low(s) + 1 \in 1 .. High(s)
    BY PlaylistIsRun
<1>4. \A s \in Streams : Playlist(s)[1] = Numbered(Low(s))
    <2>1. ASSUME NEW m \in Nat, NEW n \in 1 .. m PROVE UpTo(m, n)[1] = Numbered(m - n + 1)
        BY DEF UpTo
    <2> HIDE DEF a
    <2>2. \A s \in Streams : High(s) - (High(s) - Low(s) + 1) + 1 = Low(s)
        BY <1>2
    <2> QED
        BY <1>2, <1>3, <2>1, <2>2
<1>5. SyncStart = Key(Numbered(a))
    <2>1. \A s \in Streams : Key(Numbered(Low(s))) \in Nat
                             /\ Key(Numbered(a)) >= Key(Numbered(Low(s)))
        BY <1>2, KeysAscend
    <2>2. Key(Numbered(a)) \in keys /\ \A i \in keys : i \in Nat /\ Key(Numbered(a)) >= i
        BY <1>4, <2>1
    <2> HIDE DEF keys, a
    <2>3. Max(keys) = Key(Numbered(a))
        BY <2>2, Greatest
    <2> QED
        BY <2>3 DEF SyncStart, keys
<1> HIDE DEF keys
<1>6. ASSUME NEW s \in Streams PROVE Synced(s) = UpTo(High(s), High(s) - a + 1)
    <2> DEFINE h == High(s)
               n == h - Low(s) + 1
               p == Playlist(s)
               late == {k \in DOMAIN p : Key(p[k]) >= SyncStart}
    <2>1. h \in Nat /\ n \in 1 .. h /\ p = UpTo(h, n) /\ a \in Nat /\ Low(s) \in Nat
        BY <1>2, <1>3
    <2>2. Len(p) = n /\ DOMAIN p = 1 .. n
          /\ \A k \in 1 .. n : p[k] = Numbered(h - n + k) /\ h - n + k \in Nat
        <3> HIDE DEF h, n, p
        <3>1. n \in 0 .. h
            BY <2>1
        <3> QED
            BY <2>1, <3>1, RunOf
    <2>3. \A k \in 1 .. n : Key(p[k]) >= SyncStart <=> h - n + k >= a
        BY <1>5, <2>1, <2>2, KeysAscend
    <2>4. late = {k \in 1 .. n : h - n + k >= a}
        BY <2>2, <2>3
    <2> DEFINE c == a - Low(s) + 1
    <2>5. c \in 1 .. n /\ h - n + c = a
        BY <1>2, <2>1
    <2> HIDE DEF p, a
    <2>6. c \in late /\ \A k \in late : c <= k /\ k \in Nat
        BY <2>1, <2>4, <2>5
    <2> HIDE DEF late, c
    <2>7. Min(late) = c
        <3>1. Min(late) \in late /\ \A k \in late : Min(late) <= k
            BY <2>6, Least
        <3> QED
            BY <2>6, <3>1
    <2>8. Synced(s) = SubSeq(p, c, n)
        BY <2>2, <2>6, <2>7 DEF Synced, late, p
    <2> HIDE DEF h, n
    <2>9. SubSeq(UpTo(h, n), c - 1 + 1, n) = UpTo(h, n - (c - 1))
        <3>1. c - 1 \in 0 .. n /\ n \in 0 .. h /\ h \in Nat
            BY <2>1, <2>5
        <3> QED
            BY <3>1, RunEnd
    <2>10. c - 1 + 1 = c /\ n - (c - 1) = h - a + 1
        BY <2>1, <2>5 DEF n, c
    <2> QED
        BY <2>1, <2>8, <2>9, <2>10 DEF h
<1> QED
    BY <1>2, <1>6

\* Every stream starts with the same segment.
LEMMA StartIsRun ==
    ASSUME Comparable, setup \in Setups, ServerInv
    PROVE  \E a \in Nat \ {0} : \A s \in Streams :
                a <= High(s) /\ StartWindow(s) = UpTo(High(s), High(s) - a + 1)
<1>1. PICK b \in Nat \ {0} : \A s \in Streams :
            b <= High(s) /\ Synced(s) = UpTo(High(s), High(s) - b + 1)
    BY SyncedIsRun
<1> DEFINE counts == {Len(Synced(s)) : s \in Streams}
<1>2. \A s \in Streams : High(s) \in Nat /\ b <= High(s) /\ Len(Synced(s)) = High(s) - b + 1
    <2>1. \A s \in Streams : High(s) \in Nat
        BY DEF ServerInv
    <2>2. ASSUME NEW s \in Streams PROVE Len(Synced(s)) = High(s) - b + 1
        <3>1. High(s) - b + 1 \in 0 .. High(s) /\ High(s) \in Nat
            BY <1>1, <2>1
        <3> QED
            BY <1>1, <3>1, RunOf
    <2> QED
        BY <1>1, <2>1, <2>2
<1>3. counts \in SUBSET Nat /\ counts # {}
    BY <1>2, LiveAssumption DEF Streams
<1>4. SkipCount \in Nat /\ \A s \in Streams : SkipCount <= High(s) - b
    <2>1. Min(counts) \in Nat /\ \A s \in Streams : Min(counts) <= Len(Synced(s))
        <3> HIDE DEF counts
        <3>1. Min(counts) \in counts /\ \A c \in counts : Min(counts) <= c
            BY <1>3, Least
        <3> QED
            BY <1>3, <3>1 DEF counts
    <2> HIDE DEF counts
    <2>2. \/ SkipCount = 0
          \/ SkipCount = Min(counts) - TakeCount + 1 /\ ~(SkipCount < 0)
        BY DEF SkipCount, counts
    <2>3. SkipCount \in Nat
        BY <2>1, <2>2, LiveAssumption
    <2>4. ASSUME NEW s \in Streams PROVE SkipCount <= High(s) - b
        BY <1>2, <2>1, <2>2, LiveAssumption DEF Comparable
    <2> QED
        BY <2>3, <2>4
<1> DEFINE a == b + SkipCount
<1>5. ASSUME NEW s \in Streams
      PROVE  a <= High(s) /\ StartWindow(s) = UpTo(High(s), High(s) - a + 1)
    <2> DEFINE n == High(s) - b + 1
    <2>1. n \in 0 .. High(s) /\ SkipCount \in 0 .. n /\ n - SkipCount = High(s) - a + 1
        BY <1>2, <1>4
    <2>2. StartWindow(s) = SubSeq(UpTo(High(s), n), SkipCount + 1, n)
        BY <1>1, <1>2 DEF StartWindow
    <2> HIDE DEF n
    <2>3. StartWindow(s) = UpTo(High(s), n - SkipCount)
        BY <1>2, <2>1, <2>2, RunEnd
    <2> QED
        BY <1>2, <1>4, <2>1, <2>3
<1>6. a \in Nat \ {0}
    BY <1>4
<1> QED
    BY <1>5, <1>6

(***************************************************************************)
(* Files that are appended to each other.                                  *)
(***************************************************************************)

LEMMA Wider ==
    ASSUME NEW q, NEW lo \in Nat, NEW hi \in Nat, NEW top \in Nat, Between(q, lo, hi), hi <= top
    PROVE  Between(q, lo, top)
<1>1. \A n \in DOMAIN q : q[n] \in Nat
    BY LenProperties, ElementOfSeq DEF Between
<1> QED
    BY <1>1 DEF Between

LEMMA NothingBetween ==
    ASSUME NEW lo \in Nat, NEW hi \in Nat
    PROVE  Between(<<>>, lo, hi) /\ Segments(<<>>) = {}
BY Empty DEF Between, Segments, Range

LEMMA Appended ==
    ASSUME NEW q, NEW r, NEW lo \in Nat, NEW mid \in Nat, NEW hi \in Nat, lo <= mid, mid <= hi,
           Between(q, lo, mid), Between(r, mid, hi)
    PROVE  Between(q \o r, lo, hi) /\ Segments(q \o r) = Segments(q) \cup Segments(r)
<1> DEFINE c == q \o r
<1>1. q \in Seq(Nat) /\ r \in Seq(Nat)
    BY DEF Between
<1>2. /\ c \in Seq(Nat) /\ Len(c) = Len(q) + Len(r)
      /\ \A n \in 1 .. Len(q) + Len(r) : c[n] = IF n <= Len(q) THEN q[n] ELSE r[n - Len(q)]
    BY <1>1, ConcatProperties
<1>3. /\ Len(q) \in Nat /\ Len(r) \in Nat
      /\ DOMAIN q = 1 .. Len(q) /\ DOMAIN r = 1 .. Len(r) /\ DOMAIN c = 1 .. Len(q) + Len(r)
    BY <1>1, <1>2, LenProperties
<1> HIDE DEF c
<1>4. /\ \A n \in DOMAIN q : q[n] \in Nat
      /\ \A n \in DOMAIN r : r[n] \in Nat
    BY <1>1, <1>3, ElementOfSeq
<1>5. \A n \in DOMAIN c : \/ n \in DOMAIN q /\ c[n] = q[n]
                          \/ n > Len(q) /\ n - Len(q) \in DOMAIN r /\ c[n] = r[n - Len(q)]
    BY <1>2, <1>3
<1>6. ASSUME NEW n \in DOMAIN c, c[n] # 0 PROVE lo < c[n] /\ c[n] <= hi
    BY <1>4, <1>5, <1>6 DEF Between
<1>7. ASSUME NEW m \in DOMAIN c, NEW n \in DOMAIN c, m < n, c[m] # 0, c[n] # 0
      PROVE  c[m] < c[n]
    <2>1. CASE n \in DOMAIN q /\ c[n] = q[n]
        <3>1. m \in DOMAIN q /\ c[m] = q[m]
            BY <1>2, <1>3, <1>7, <2>1
        <3> QED
            BY <1>7, <2>1, <3>1 DEF Between
    <2>2. CASE n > Len(q) /\ n - Len(q) \in DOMAIN r /\ c[n] = r[n - Len(q)]
        <3>1. mid < c[n]
            BY <1>7, <2>2 DEF Between
        <3>2. CASE m \in DOMAIN q /\ c[m] = q[m]
            <4>1. c[m] <= mid
                BY <1>7, <3>2 DEF Between
            <4> QED
                BY <1>4, <2>2, <3>1, <3>2, <4>1
        <3>3. CASE m > Len(q) /\ m - Len(q) \in DOMAIN r /\ c[m] = r[m - Len(q)]
            <4>1. m - Len(q) < n - Len(q)
                BY <1>3, <1>7
            <4> QED
                BY <1>7, <2>2, <3>3, <4>1 DEF Between
        <3> QED
            BY <1>5, <3>2, <3>3
    <2> QED
        BY <1>5, <2>1, <2>2
<1>8. Between(c, lo, hi)
    BY <1>2, <1>6, <1>7 DEF Between, c
<1>9. Range(c) = Range(q) \cup Range(r)
    <2>1. ASSUME NEW n \in DOMAIN q PROVE n \in DOMAIN c /\ c[n] = q[n]
        BY <1>2, <1>3
    <2>2. ASSUME NEW n \in DOMAIN r PROVE Len(q) + n \in DOMAIN c /\ c[Len(q) + n] = r[n]
        <3>1. Len(q) + n \in 1 .. Len(q) + Len(r) /\ ~(Len(q) + n <= Len(q)) /\ Len(q) + n - Len(q) = n
            BY <1>3
        <3> QED
            BY <1>2, <1>3, <3>1
    <2> QED
        BY <1>5, <2>1, <2>2 DEF Range
<1> QED
    BY <1>8, <1>9 DEF Segments, c

\* Of a file that is not appended to its end, the first segments are there.
LEMMA Cut ==
    ASSUME NEW q, NEW lo \in Nat, NEW hi \in Nat, Between(q, lo, hi), NEW n \in Nat, n <= Len(q)
    PROVE  LET r == SubSeq(q, 1, n)
           IN  /\ Between(r, lo, hi) /\ Segments(r) \subseteq Segments(q)
               /\ \A p \in Segments(q), e \in Segments(r) : p <= e => p \in Segments(r)
<1> DEFINE r == SubSeq(q, 1, n)
<1>1. q \in Seq(Nat) /\ Len(q) \in Nat /\ DOMAIN q = 1 .. Len(q)
    BY LenProperties DEF Between
<1>2. \A i \in 1 .. n : q[i] \in Nat
    BY <1>1, ElementOfSeq
<1>3. /\ r \in Seq(Nat) /\ Len(r) = n
      /\ \A i \in 1 .. n : r[i] = q[i]
    <2>1. /\ r \in Seq(Nat) /\ Len(r) = IF 1 <= n THEN n - 1 + 1 ELSE 0
          /\ \A i \in 1 .. n - 1 + 1 : r[i] = q[1 + i - 1]
        BY <1>1, <1>2, SubSeqProperties
    <2> HIDE DEF r
    <2> QED
        BY <2>1
<1>4. DOMAIN r = 1 .. n
    BY <1>3, LenProperties
<1> HIDE DEF r
<1>5. Between(r, lo, hi)
    BY <1>1, <1>3, <1>4 DEF Between
<1>6. Segments(r) \subseteq Segments(q)
    BY <1>1, <1>3, <1>4 DEF Segments, Range
<1>7. ASSUME NEW p \in Segments(q), NEW e \in Segments(r), p <= e PROVE p \in Segments(r)
    <2>1. PICK i \in 1 .. Len(q) : q[i] = p /\ p # 0
        BY <1>1 DEF Segments, Range
    <2>2. PICK j \in 1 .. n : q[j] = e /\ e # 0
        BY <1>3, <1>4 DEF Segments, Range
    <2>3. p \in Nat /\ e \in Nat
        BY <1>1, <1>2, <2>1, <2>2, ElementOfSeq
    <2>4. j < i => q[j] < q[i]
        BY <1>1, <2>1, <2>2 DEF Between
    <2>5. i \in 1 .. n
        BY <1>1, <1>7, <2>1, <2>2, <2>3, <2>4
    <2> QED
        BY <1>3, <1>4, <2>1, <2>5 DEF Segments, Range
<1> QED
    BY <1>5, <1>6, <1>7 DEF r

(***************************************************************************)
(* What a download delivers.                                               *)
(***************************************************************************)

\* The numbers of the segments at the places P of the batch of stream s.
Numbers(s, P) == {Earlier(s) + k : k \in P}

LEMMA BatchIsRun ==
    ASSUME BatchInv, NEW s \in Streams
    PROVE  /\ Taken(s) \in Nat /\ Earlier(s) \in Nat /\ Len(batch[s]) \in Nat
           /\ Earlier(s) + Len(batch[s]) = Taken(s)
           /\ DOMAIN batch[s] = 1 .. Len(batch[s])
           /\ \A k \in DOMAIN batch[s] :
                /\ batch[s][k].idx = Earlier(s) + k /\ batch[s][k].seq = Earlier(s) + k
                /\ k \in Nat \ {0} /\ Earlier(s) + k <= Taken(s)
<1>1. /\ Taken(s) \in Nat /\ Len(batch[s]) \in 0 .. Taken(s)
      /\ batch[s] = UpTo(Taken(s), Len(batch[s]))
    BY DEF BatchInv, Knows, Taken
<1>2. /\ DOMAIN batch[s] = 1 .. Len(batch[s])
      /\ \A k \in 1 .. Len(batch[s]) : batch[s][k] = Numbered(Taken(s) - Len(batch[s]) + k)
    BY <1>1, RunOf
<1>3. \A q \in Nat : Numbered(q).idx = q /\ Numbered(q).seq = q
    BY DEF Numbered
<1>4. /\ Earlier(s) = Taken(s) - Len(batch[s])
      /\ \A k \in 1 .. Len(batch[s]) : Taken(s) - Len(batch[s]) + k \in Nat
    BY <1>1 DEF Earlier
<1> HIDE DEF Earlier, Taken
<1>5. /\ Earlier(s) \in Nat /\ Earlier(s) + Len(batch[s]) = Taken(s)
      /\ \A k \in 1 .. Len(batch[s]) : k \in Nat \ {0} /\ Earlier(s) + k <= Taken(s)
    BY <1>1, <1>4
<1> QED
    BY <1>1, <1>2, <1>3, <1>4, <1>5

LEMMA FilesNamed ==
    ASSUME BatchInv, NamesInv, NEW s \in Streams, NEW P \in SUBSET DOMAIN batch[s]
    PROVE  LET files == FilesAfter(s, P)
           IN  /\ DOMAIN files = DOMAIN temp[s] \cup Numbers(s, P)
               /\ \A i \in DOMAIN files : i \in Nat \ {0} /\ files[i] = i
<1> DEFINE named == [i \in {batch[s][k].idx : k \in P} |->
                        batch[s][CHOOSE k \in P : batch[s][k].idx = i].seq]
           files == FilesAfter(s, P)
<1>1. /\ Earlier(s) \in Nat /\ DOMAIN batch[s] \subseteq Nat \ {0}
      /\ \A k \in P : batch[s][k].idx = Earlier(s) + k /\ batch[s][k].seq = Earlier(s) + k
    BY BatchIsRun
<1>2. DOMAIN named = Numbers(s, P)
    BY <1>1 DEF Numbers
<1>3. ASSUME NEW i \in DOMAIN named PROVE named[i] = i
    <2> DEFINE k == CHOOSE k \in P : batch[s][k].idx = i
    <2>1. \E j \in P : batch[s][j].idx = i
        OBVIOUS
    <2>2. k \in P /\ batch[s][k].idx = i
        BY <2>1
    <2>3. named[i] = batch[s][k].seq
        OBVIOUS
    <2> HIDE DEF k, named
    <2> QED
        BY <1>1, <2>2, <2>3
<1>4. files = [i \in DOMAIN temp[s] \cup DOMAIN named |->
                IF i \in DOMAIN temp[s] THEN temp[s][i] ELSE named[i]]
    BY DEF FilesAfter
<1>5. \A i \in Numbers(s, P) : i \in Nat \ {0}
    BY <1>1 DEF Numbers
<1>6. \A i \in DOMAIN temp[s] : i \in Nat \ {0} /\ temp[s][i] = i
    BY DEF NamesInv
<1> HIDE DEF named, files
<1> QED
    BY <1>2, <1>3, <1>4, <1>5, <1>6 DEF files

LEMMA ContentsAscend ==
    ASSUME BatchInv, NamesInv, NEW s \in Streams,
           NEW part \in Parts, Range(part) \subseteq DOMAIN batch[s]
    PROVE  /\ Between(Contents(s, part), Earlier(s), Taken(s))
           /\ Segments(Contents(s, part)) = Numbers(s, Range(part))
<1> DEFINE files == FilesAfter(s, Range(part))
           init == IF setup.init THEN <<InitSegment>> ELSE <<>>
           list == [n \in DOMAIN part |-> files[batch[s][part[n]].idx]]
<1>1. PICK k \in Nat : DOMAIN part = 1 .. k
    BY LiveAssumption DEF Parts
<1>2. \A m, n \in DOMAIN part : m < n => part[m] < part[n]
    BY DEF Parts
<1>3. /\ DOMAIN files = DOMAIN temp[s] \cup Numbers(s, Range(part))
      /\ \A i \in DOMAIN files : i \in Nat \ {0} /\ files[i] = i
    BY FilesNamed
<1>4. /\ Earlier(s) \in Nat /\ Taken(s) \in Nat
      /\ \A j \in DOMAIN batch[s] : /\ batch[s][j].idx = Earlier(s) + j
                                    /\ j \in Nat \ {0} /\ Earlier(s) + j <= Taken(s)
    BY BatchIsRun
<1> HIDE DEF files
<1>5. ASSUME NEW n \in DOMAIN part
      PROVE  /\ part[n] \in Nat \ {0} /\ list[n] = Earlier(s) + part[n]
             /\ Earlier(s) + part[n] <= Taken(s)
    <2>1. part[n] \in Range(part) /\ part[n] \in DOMAIN batch[s]
        BY DEF Range
    <2>2. Earlier(s) + part[n] \in DOMAIN files
        BY <1>3, <2>1 DEF Numbers
    <2> QED
        BY <1>3, <1>4, <2>1, <2>2
<1>6. DOMAIN list = 1 .. k /\ list = [n \in 1 .. k |-> list[n]]
    BY <1>1
<1> HIDE DEF list
<1>7. list \in Seq(Nat)
    <2>1. list \in [1 .. k -> Nat]
        BY <1>1, <1>4, <1>5, <1>6
    <2> QED
        BY <2>1
<1>8. Between(list, Earlier(s), Taken(s))
    BY <1>1, <1>2, <1>4, <1>5, <1>6, <1>7 DEF Between
<1>9. Segments(list) = Numbers(s, Range(part))
    BY <1>1, <1>4, <1>5, <1>6 DEF Segments, Numbers, Range
<1>10. Between(init, Earlier(s), Earlier(s)) /\ Segments(init) = {}
    <2>1. Between(<<InitSegment>>, Earlier(s), Earlier(s)) /\ Segments(<<InitSegment>>) = {}
        BY DEF Between, Segments, Range, InitSegment
    <2> QED
        BY <1>4, <2>1, NothingBetween
<1> HIDE DEF init
<1>11. Contents(s, part) = init \o list
    BY DEF Contents, init, list, files
<1>12. Earlier(s) <= Taken(s)
    BY BatchIsRun
<1>13. Earlier(s) <= Earlier(s)
    BY <1>4
<1>14. /\ Between(init \o list, Earlier(s), Taken(s))
       /\ Segments(init \o list) = Segments(init) \cup Segments(list)
    BY <1>4, <1>8, <1>10, <1>12, <1>13, Appended, Zenon
<1> QED
    BY <1>9, <1>10, <1>11, <1>14

\* One stream's part of a download.
LEMMA StreamDelivers ==
    ASSUME BatchInv, NamesInv, Deliver, NEW s \in Streams
    PROVE  /\ Between(got'[s], Earlier(s), Taken(s))
           /\ \A i \in DOMAIN temp'[s] : i \in Nat \ {0} /\ temp'[s][i] = i
           /\ setup.check =>
                /\ Segments(got'[s]) = Earlier(s) + 1 .. Taken(s)
                /\ DOMAIN temp'[s] = DOMAIN temp[s] \cup Earlier(s) + 1 .. Taken(s)
<1>1. PICK part \in [Streams -> Parts] :
        /\ Range(part[s]) \subseteq DOMAIN batch[s]
        /\ setup.check => Range(part[s]) = DOMAIN batch[s]
        /\ temp'[s] = FilesAfter(s, Range(part[s]))
        /\ got'[s] = IF batch[s] = <<>> THEN <<>> ELSE Contents(s, part[s])
    BY DEF Deliver, Arrive
<1> DEFINE P == Range(part[s])
<1>2. /\ Taken(s) \in Nat /\ Earlier(s) \in Nat /\ Len(batch[s]) \in Nat
      /\ Earlier(s) + Len(batch[s]) = Taken(s)
      /\ DOMAIN batch[s] = 1 .. Len(batch[s])
    BY BatchIsRun
<1>3. /\ DOMAIN temp'[s] = DOMAIN temp[s] \cup Numbers(s, P)
      /\ \A i \in DOMAIN temp'[s] : i \in Nat \ {0} /\ temp'[s][i] = i
    <2> DEFINE files == FilesAfter(s, P)
    <2>1. P \in SUBSET DOMAIN batch[s]
        BY <1>1
    <2> HIDE DEF P
    <2>2. /\ DOMAIN files = DOMAIN temp[s] \cup Numbers(s, P)
          /\ \A i \in DOMAIN files : i \in Nat \ {0} /\ files[i] = i
        BY <2>1, FilesNamed
    <2>3. temp'[s] = files
        BY <1>1 DEF P
    <2> HIDE DEF files
    <2> QED
        BY <2>2, <2>3
<1>4. setup.check => Numbers(s, P) = Earlier(s) + 1 .. Taken(s)
    <2>1. ASSUME setup.check PROVE Numbers(s, P) = Earlier(s) + 1 .. Taken(s)
        <3>1. Numbers(s, P) = {Earlier(s) + k : k \in 1 .. Len(batch[s])}
            BY <1>1, <1>2, <2>1 DEF Numbers
        <3>2. ASSUME NEW q \in Earlier(s) + 1 .. Taken(s)
              PROVE  q - Earlier(s) \in 1 .. Len(batch[s]) /\ Earlier(s) + (q - Earlier(s)) = q
            BY <1>2
        <3>3. \A k \in 1 .. Len(batch[s]) : Earlier(s) + k \in Earlier(s) + 1 .. Taken(s)
            BY <1>2
        <3> QED
            BY <3>1, <3>2, <3>3
    <2> QED
        BY <2>1
<1>5. CASE batch[s] = <<>>
    <2>1. P = {} /\ Numbers(s, P) = {}
        BY <1>1, <1>5, Empty DEF Numbers
    <2>2. Between(got'[s], Earlier(s), Taken(s)) /\ Segments(got'[s]) = {}
        BY <1>1, <1>2, <1>5, NothingBetween
    <2> QED
        BY <1>3, <1>4, <2>1, <2>2
<1>6. CASE batch[s] # <<>>
    <2>1. got'[s] = Contents(s, part[s]) /\ part[s] \in Parts /\ P \subseteq DOMAIN batch[s]
        BY <1>1, <1>6
    <2>2. Between(got'[s], Earlier(s), Taken(s)) /\ Segments(got'[s]) = Numbers(s, P)
        BY <2>1, ContentsAscend
    <2> QED
        BY <1>3, <1>4, <2>2
<1> QED
    BY <1>5, <1>6

(***************************************************************************)
(* The invariant of the run, step by step.                                 *)
(***************************************************************************)

LEMMA RunInit ==
    ASSUME Init
    PROVE  RunInv
<1>1. \A s \in Streams : /\ st[s] = NewState /\ batch[s] = <<>> /\ output[s] = <<>>
                         /\ temp[s] = NoFiles
    BY DEF Init
<1>2. setup \in Setups /\ phase = "load"
    BY DEF Init
<1>3. ServerInv
    BY LiveAssumption DEF Init, ServerInv, Low, High
<1>4. \A s \in Streams : Taken(s) = 0 /\ Len(batch[s]) = 0 /\ Earlier(s) = 0
    BY <1>1 DEF Taken, Earlier, NewState
<1>5. BatchInv
    <2>1. ASSUME NEW s \in Streams
          PROVE  /\ DOMAIN st[s] = Fields /\ Knows(st[s]) /\ batch[s] = UpTo(0, 0)
        BY <1>1, NoRun DEF Knows, NewState, Fields
    <2> QED
        BY <1>4, <2>1 DEF BatchInv
<1>6. NamesInv
    BY <1>1, Empty DEF NamesInv
<1>7. OrderInv
    BY <1>1, <1>2, <1>4, NothingBetween DEF OrderInv
<1> QED
    BY <1>1, <1>2, <1>3, <1>5, <1>6, <1>7 DEF RunInv, Phases, FreshInv, RestInv, SinceInv

LEMMA ServerStep == Comparable /\ RunInv /\ [Next]_vars => ServerInv'
<1> SUFFICES ASSUME Comparable, RunInv, [Next]_vars PROVE ServerInv'
    OBVIOUS
<1>1. ServerInv
    BY DEF RunInv
<1>2. CASE UNCHANGED window
    BY <1>1, <1>2 DEF ServerInv, Low, High
<1>3. ASSUME NEW r \in Streams, Publish(r) PROVE ServerInv'
    <2>1. \A s \in Streams : /\ Low(s) \in Nat \ {0} /\ High(s) \in Nat
                             /\ Low(s) <= High(s) /\ High(s) - Low(s) < Window
                             /\ Low(s) = 1 \/ High(s) - Low(s) = Window - 1
        BY <1>1 DEF ServerInv
    <2>2. \A s, t \in Streams : High(s) - High(t) <= Skew
        BY <1>1 DEF ServerInv
    <2>3. \A s \in Streams : s # r => Low(s)' = Low(s) /\ High(s)' = High(s)
        BY <1>3 DEF Publish, Low, High
    <2>4. /\ High(r)' = High(r) + 1
          /\ Low(r)' = IF High(r) + 1 - Low(r) = Window THEN Low(r) + 1 ELSE Low(r)
          /\ \A t \in Streams : High(r) + 1 - High(t) <= Skew
        BY <1>1, <1>3, LiveAssumption DEF Publish, Low, High, ServerInv, Comparable
    <2>5. ASSUME NEW s \in Streams
          PROVE  /\ Low(s)' \in Nat \ {0} /\ High(s)' \in Nat
                 /\ Low(s)' <= High(s)' /\ High(s)' - Low(s)' < Window
                 /\ Low(s)' = 1 \/ High(s)' - Low(s)' = Window - 1
        BY <2>1, <2>3, <2>4, LiveAssumption
    <2>6. ASSUME NEW s \in Streams, NEW t \in Streams PROVE High(s)' - High(t)' <= Skew
        <3>1. Skew \in Nat
            BY LiveAssumption DEF Comparable
        <3> QED
            BY <2>1, <2>2, <2>3, <2>4, <3>1
    <2>7. DOMAIN window' = DOMAIN window
        BY <1>3 DEF Publish
    <2> QED
        BY <1>1, <2>5, <2>6, <2>7 DEF ServerInv
<1> QED
    BY <1>2, <1>3 DEF Next, Record, Load, Deliver, FetchFails, Write, WriteFails, Refresh,
        RefreshFails, NoticeCancel, Cancel, vars

\* What is taken in follows on what was written.
LEMMA TakeInKeeps ==
    ASSUME Comparable, RunInv, phase \in {"load", "wait"}, NEW list, TakeIn(list),
           UNCHANGED <<setup, output, temp>>, phase' \in {"fetch", "wait"},
           \A s \in Streams : \E n \in 0 .. High(s) : list[s] = UpTo(High(s), n)
    PROVE  BatchInv' /\ NamesInv' /\ OrderInv'
<1>1. setup \in Setups /\ ServerInv /\ BatchInv /\ NamesInv /\ OrderInv
    BY DEF RunInv
<1>2. \A s \in Streams : batch[s] = <<>>
    BY DEF RunInv, FreshInv, RestInv
<1>3. ASSUME NEW s \in Streams
      PROVE  /\ DOMAIN st'[s] = Fields /\ Knows(st'[s])
             /\ Len(batch'[s]) \in 0 .. Taken(s)'
             /\ batch'[s] = UpTo(Taken(s)', Len(batch'[s]))
             /\ Earlier(s)' \in Nat /\ Earlier(s)' >= Earlier(s) /\ Earlier(s) \in Nat
    <2>1. PICK n \in 0 .. High(s) : list[s] = UpTo(High(s), n)
        OBVIOUS
    <2>2. High(s) \in Nat
        BY <1>1 DEF ServerInv
    <2>3. /\ DOMAIN st'[s] = Fields /\ Knows(st'[s])
          /\ Len(batch'[s]) \in 0 .. st'[s].maxIndex
          /\ batch'[s] = UpTo(st'[s].maxIndex, Len(batch'[s]))
          /\ st'[s].maxIndex - Len(batch'[s]) >= Taken(s)
        BY <1>1, <1>2, <2>1, <2>2, TakeInFollows
    <2>4. st'[s].maxIndex \in Nat
        BY <2>3 DEF Knows
    <2>5. Taken(s) \in Nat /\ Earlier(s) = Taken(s)
        BY <1>1, <1>2 DEF BatchInv, Knows, Taken, Earlier
    <2> QED
        BY <2>3, <2>4, <2>5 DEF Taken, Earlier
<1>4. BatchInv'
    BY <1>3 DEF BatchInv, Knows, Name, Date
<1>5. NamesInv'
    BY <1>1 DEF NamesInv
<1>6. OrderInv'
    <2>1. \A s \in Streams : Between(output[s], 0, Earlier(s))
        BY <1>1 DEF OrderInv
    <2>2. \A s \in Streams : Between(output'[s], 0, Earlier(s)')
        BY <1>3, <2>1, Wider
    <2> QED
        BY <2>2 DEF OrderInv
<1> QED
    BY <1>4, <1>5, <1>6

LEMMA LoadRuns == Comparable /\ RunInv /\ Load => BatchInv' /\ NamesInv' /\ OrderInv' /\ SinceInv'
<1> SUFFICES ASSUME Comparable, RunInv, Load PROVE BatchInv' /\ NamesInv' /\ OrderInv' /\ SinceInv'
    OBVIOUS
<1> DEFINE list == [s \in Streams |-> StartWindow(s)]
<1>1. TakeIn(list) /\ phase = "load" /\ phase' = "fetch" /\ UNCHANGED <<setup, output, temp>>
    BY DEF Load
<1>2. setup \in Setups /\ ServerInv /\ BatchInv
    BY DEF RunInv
<1>3. \A s \in Streams : /\ st[s] = NewState /\ batch[s] = <<>> /\ output[s] = <<>>
                         /\ temp[s] = NoFiles
    BY <1>1 DEF RunInv, FreshInv
<1>4. PICK a \in Nat \ {0} : \A s \in Streams :
            a <= High(s) /\ StartWindow(s) = UpTo(High(s), High(s) - a + 1)
    BY <1>2, StartIsRun
<1>5. \A s \in Streams : High(s) \in Nat /\ High(s) - a + 1 \in 0 .. High(s) /\ High(s) - a + 1 # 0
    BY <1>2, <1>4 DEF ServerInv
<1>6. \A s \in Streams : list[s] = UpTo(High(s), High(s) - a + 1)
    BY <1>4
<1> HIDE DEF list
<1>7. BatchInv' /\ NamesInv' /\ OrderInv'
    BY <1>1, <1>5, <1>6, TakeInKeeps
<1>8. ASSUME NEW s \in Streams PROVE Since(s, a)'
    <2>1. Taken(s) = 0 /\ ~st[s].limit
        BY <1>3 DEF Taken, NewState
    <2>2. st'[s].maxIndex = High(s) /\ Len(batch'[s]) = High(s) - a + 1
        BY <1>1, <1>2, <1>3, <1>5, <1>6, <2>1, TakeInFollows
    <2>3. Taken(s)' = High(s) /\ Earlier(s)' = a - 1
        BY <1>5, <2>2 DEF Taken, Earlier
    <2>4. Segments(output'[s]) = {} /\ DOMAIN temp'[s] = {} /\ a .. a - 1 = {}
        BY <1>1, <1>3, Empty, NothingBetween
    <2> QED
        BY <1>1, <1>4, <2>3, <2>4 DEF Since
<1> QED
    BY <1>1, <1>7, <1>8 DEF SinceInv

LEMMA RefreshRuns ==
    Comparable /\ RunInv /\ Refresh => BatchInv' /\ NamesInv' /\ OrderInv' /\ SinceInv'
<1> SUFFICES ASSUME Comparable, RunInv, Refresh
             PROVE  BatchInv' /\ NamesInv' /\ OrderInv' /\ SinceInv'
    OBVIOUS
<1> DEFINE list == [s \in Streams |-> Playlist(s)]
<1>1. /\ TakeIn(list) /\ UNCHANGED <<setup, output, temp>>
      /\ phase = "wait" /\ phase' \in {"fetch", "wait"}
    BY DEF Refresh
<1>2. setup \in Setups /\ ServerInv /\ BatchInv
    BY DEF RunInv
<1>3. \A s \in Streams : batch[s] = <<>>
    BY <1>1 DEF RunInv, RestInv
<1>4. \A s \in Streams : High(s) \in Nat /\ \E n \in 0 .. High(s) : list[s] = UpTo(High(s), n)
    <2>1. ASSUME NEW s \in Streams
          PROVE  High(s) \in Nat /\ \E n \in 0 .. High(s) : Playlist(s) = UpTo(High(s), n)
        <3>1. High(s) - Low(s) + 1 \in 1 .. High(s) /\ High(s) \in Nat
            BY <1>2, PlaylistIsRun DEF ServerInv
        <3>2. Playlist(s) = UpTo(High(s), High(s) - Low(s) + 1)
            BY <1>2, PlaylistIsRun
        <3>3. High(s) - Low(s) + 1 \in 0 .. High(s)
            BY <3>1
        <3> QED
            BY <3>1, <3>2, <3>3
    <2> QED
        BY <2>1
<1> HIDE DEF list
<1>5. BatchInv' /\ NamesInv' /\ OrderInv'
    BY <1>1, <1>4, TakeInKeeps
<1>6. PICK a \in Nat \ {0} : \A s \in Streams : Since(s, a)
    BY <1>1 DEF RunInv, SinceInv
<1>7. ASSUME NEW s \in Streams PROVE Since(s, a)'
    <2>1. Taken(s) \in Nat /\ Earlier(s) = Taken(s)
        BY <1>2, <1>3 DEF BatchInv, Knows, Taken, Earlier
    <2>2. a <= Taken(s)
        BY <1>6 DEF Since
    <2>3. /\ Knows(st'[s])
          /\ Len(batch'[s]) \in 0 .. st'[s].maxIndex
          /\ Taken(s) # 0 => st'[s].maxIndex - Len(batch'[s]) = Taken(s)
        <3>1. PICK n \in 0 .. High(s) : list[s] = UpTo(High(s), n)
            BY <1>4
        <3> QED
            BY <1>1, <1>2, <1>3, <1>4, <3>1, TakeInFollows
    <2>4. Taken(s)' \in Nat /\ Len(batch'[s]) \in Nat
        BY <2>3 DEF Knows, Taken
    <2>5. Earlier(s)' = Earlier(s) /\ Taken(s)' >= Taken(s)
        BY <2>1, <2>2, <2>3, <2>4 DEF Earlier, Taken
    <2>6. a <= Earlier(s)' + 1 /\ a <= Taken(s)'
        BY <2>1, <2>2, <2>4, <2>5
    <2> QED
        BY <1>1, <1>6, <2>5, <2>6 DEF Since
<1> QED
    BY <1>1, <1>5, <1>7 DEF SinceInv

LEMMA DeliverRuns == RunInv /\ Deliver => BatchInv' /\ NamesInv' /\ OrderInv' /\ SinceInv'
<1> SUFFICES ASSUME RunInv, Deliver PROVE BatchInv' /\ NamesInv' /\ OrderInv' /\ SinceInv'
    OBVIOUS
<1>1. /\ phase = "fetch" /\ phase' = "write" /\ UNCHANGED <<setup, st, batch, output>>
    BY DEF Deliver
<1>2. BatchInv /\ NamesInv /\ OrderInv /\ SinceInv
    BY DEF RunInv
<1>3. BatchInv'
    BY <1>1, <1>2 DEF BatchInv, Knows, Name, Date, Taken
<1>4. ASSUME NEW s \in Streams
      PROVE  /\ Between(got'[s], Earlier(s), Taken(s))
             /\ \A i \in DOMAIN temp'[s] : i \in Nat \ {0} /\ temp'[s][i] = i
             /\ setup.check =>
                  /\ Segments(got'[s]) = Earlier(s) + 1 .. Taken(s)
                  /\ DOMAIN temp'[s] = DOMAIN temp[s] \cup Earlier(s) + 1 .. Taken(s)
    BY <1>2, StreamDelivers
<1>5. \A s \in Streams : Earlier(s)' = Earlier(s) /\ Taken(s)' = Taken(s)
    BY <1>1 DEF Earlier, Taken
<1>6. NamesInv'
    BY <1>4 DEF NamesInv
<1>7. OrderInv'
    BY <1>1, <1>2, <1>4, <1>5 DEF OrderInv
<1>8. PICK a \in Nat \ {0} : \A s \in Streams : Since(s, a)
    BY <1>1, <1>2 DEF SinceInv
<1>9. ASSUME NEW s \in Streams PROVE Since(s, a)'
    <2>1. a <= Earlier(s) + 1 /\ a <= Taken(s)
        BY <1>8 DEF Since
    <2>2. setup.check /\ setup.merge => Segments(output[s]) = a .. Earlier(s)
        BY <1>1, <1>8 DEF Since
    <2>3. setup.check /\ ~setup.merge => DOMAIN temp[s] = a .. Earlier(s)
        BY <1>1, <1>8 DEF Since
    <2>4. a .. Earlier(s) \cup Earlier(s) + 1 .. Taken(s) = a .. Taken(s)
        BY <1>2, <2>1, BatchIsRun
    <2>5. setup.check /\ ~setup.merge => DOMAIN temp'[s] = a .. Taken(s)
        BY <1>4, <2>3, <2>4
    <2> QED
        BY <1>1, <1>4, <1>5, <2>1, <2>2, <2>5 DEF Since
<1> QED
    BY <1>3, <1>6, <1>7, <1>8, <1>9 DEF SinceInv

\* The files of a batch are removed only when they are in the output.
LEMMA FilesRemain ==
    ASSUME Comparable, setup \in Setups, NamesInv, Write \/ WriteFails, NEW s \in Streams
    PROVE  /\ \A i \in DOMAIN temp'[s] : i \in Nat \ {0} /\ temp'[s][i] = i
           /\ ~setup.merge => temp'[s] = temp[s]
<1>1. setup.merge \/ setup.keep
    BY DEF Comparable
<1>2. /\ temp'[s] = temp[s] \/ temp'[s] = NoFiles
      /\ setup.keep => temp'[s] = temp[s]
    BY DEF Write, WriteFails, Cleaned
<1> QED
    BY <1>1, <1>2, Empty DEF NamesInv

LEMMA WriteRuns ==
    Comparable /\ RunInv /\ Write => BatchInv' /\ NamesInv' /\ OrderInv' /\ RestInv' /\ SinceInv'
<1> SUFFICES ASSUME Comparable, RunInv, Write
             PROVE  BatchInv' /\ NamesInv' /\ OrderInv' /\ RestInv' /\ SinceInv'
    OBVIOUS
<1>1. /\ phase = "write" /\ phase' \in {"done", "wait"} /\ setup' = setup
      /\ \A s \in Streams :
            /\ output'[s] = IF setup.merge THEN output[s] \o got[s] ELSE output[s]
            /\ st'[s] = Counted(st[s], batch[s]) /\ batch'[s] = <<>>
    BY DEF Write
<1>2. setup \in Setups /\ BatchInv /\ NamesInv /\ OrderInv /\ SinceInv
    BY DEF RunInv
<1>3. ASSUME NEW s \in Streams
      PROVE  /\ DOMAIN st'[s] = Fields /\ Knows(st'[s])
             /\ Taken(s)' = Taken(s) /\ Earlier(s)' = Taken(s) /\ Taken(s) \in Nat
             /\ Len(batch'[s]) = 0 /\ batch'[s] = UpTo(Taken(s), 0)
    <2> DEFINE x == st[s]
               y == Counted(x, batch[s])
    <2>1. DOMAIN x = Fields /\ Knows(x) /\ x.maxIndex \in Nat
        BY <1>2 DEF BatchInv, Knows
    <2> HIDE DEF x
    <2>2. /\ DOMAIN y = Fields /\ y.maxIndex = x.maxIndex
          /\ y.lastName = x.lastName /\ y.lastDate = x.lastDate
        BY <2>1 DEF Counted, Fields, NewState
    <2>3. st'[s] = y
        BY <1>1 DEF x
    <2> HIDE DEF y
    <2>4. Knows(y)
        BY <2>1, <2>2 DEF Knows
    <2>5. Len(batch'[s]) = 0 /\ batch'[s] = UpTo(x.maxIndex, 0)
        BY <1>1, <2>1, NoRun
    <2>6. /\ Taken(s)' = y.maxIndex /\ Taken(s) = x.maxIndex
          /\ Earlier(s)' = y.maxIndex - Len(batch'[s])
        BY <2>3 DEF Taken, Earlier, x
    <2> QED
        BY <2>1, <2>2, <2>3, <2>4, <2>5, <2>6
<1>4. BatchInv'
    BY <1>1, <1>3 DEF BatchInv, Knows, Name, Date
<1>5. NamesInv'
    BY <1>2, FilesRemain DEF NamesInv
<1>6. ASSUME NEW s \in Streams
      PROVE  /\ Between(output'[s], 0, Taken(s))
             /\ setup.merge => Segments(output'[s]) = Segments(output[s]) \cup Segments(got[s])
    <2>1. Between(output[s], 0, Earlier(s)) /\ Between(got[s], Earlier(s), Taken(s))
        BY <1>1, <1>2 DEF OrderInv
    <2>2. Earlier(s) \in Nat /\ Taken(s) \in Nat /\ 0 <= Earlier(s) /\ Earlier(s) <= Taken(s)
        BY <1>2, BatchIsRun
    <2>3. Between(output[s], 0, Taken(s))
        BY <2>1, <2>2, Wider
    <2>4. /\ Between(output[s] \o got[s], 0, Taken(s))
          /\ Segments(output[s] \o got[s]) = Segments(output[s]) \cup Segments(got[s])
        BY <2>1, <2>2, Appended
    <2> QED
        BY <1>1, <2>3, <2>4
<1>7. OrderInv'
    BY <1>1, <1>3, <1>6 DEF OrderInv
<1>8. PICK a \in Nat \ {0} : \A s \in Streams : Since(s, a)
    BY <1>1, <1>2 DEF SinceInv
<1>9. ASSUME NEW s \in Streams PROVE Since(s, a)'
    <2>1. a <= Earlier(s) + 1 /\ a <= Taken(s)
        BY <1>8 DEF Since
    <2>2. setup.check /\ setup.merge => /\ Segments(output[s]) = a .. Earlier(s)
                                        /\ Segments(got[s]) = Earlier(s) + 1 .. Taken(s)
        BY <1>1, <1>8 DEF Since
    <2>3. setup.check /\ ~setup.merge => DOMAIN temp'[s] = a .. Taken(s)
        BY <1>1, <1>2, <1>8, FilesRemain DEF Since
    <2>4. a .. Earlier(s) \cup Earlier(s) + 1 .. Taken(s) = a .. Taken(s)
        BY <1>2, <2>1, BatchIsRun
    <2>5. setup.check /\ setup.merge => Segments(output'[s]) = a .. Taken(s)
        BY <1>6, <2>2, <2>4
    <2>6. a <= Earlier(s)' + 1 /\ a <= Taken(s)'
        BY <1>3, <2>1
    <2> QED
        BY <1>1, <1>3, <2>3, <2>5, <2>6 DEF Since
<1> QED
    BY <1>1, <1>4, <1>5, <1>7, <1>8, <1>9 DEF SinceInv, RestInv

\* The file q is the output of stream s with the first segments of its batch, C.
Adds(s, q, C) ==
    /\ Between(q, 0, Taken(s)) /\ Segments(q) = Segments(output[s]) \cup C
    /\ C \subseteq Segments(got[s])
    /\ \A p \in Segments(got[s]), e \in C : p <= e => p \in C

\* An output that was not appended to its end still has no gap.
LEMMA WriteFailsRuns ==
    Comparable /\ RunInv /\ WriteFails => BatchInv' /\ NamesInv' /\ OrderInv' /\ SinceInv'
<1> SUFFICES ASSUME Comparable, RunInv, WriteFails
             PROVE  BatchInv' /\ NamesInv' /\ OrderInv' /\ SinceInv'
    OBVIOUS
<1>1. /\ phase = "write" /\ phase' = "failed" /\ setup.merge
      /\ UNCHANGED <<setup, st, batch, got>>
    BY DEF WriteFails
<1>2. setup \in Setups /\ BatchInv /\ NamesInv /\ OrderInv /\ SinceInv
    BY DEF RunInv
<1>3. BatchInv'
    BY <1>1, <1>2 DEF BatchInv, Knows, Name, Date, Taken
<1>4. NamesInv'
    BY <1>2, FilesRemain DEF NamesInv
<1>5. ASSUME NEW s \in Streams
      PROVE  \E C : Adds(s, output'[s], C)
    <2>1. Between(output[s], 0, Earlier(s)) /\ Between(got[s], Earlier(s), Taken(s))
        BY <1>1, <1>2 DEF OrderInv
    <2>2. Earlier(s) \in Nat /\ Taken(s) \in Nat /\ 0 <= Earlier(s) /\ Earlier(s) <= Taken(s)
        BY <1>2, BatchIsRun
    <2>3. \/ output'[s] = output[s] \o got[s]
          \/ \E n \in 0 .. Window + 1 :
                n <= Len(got[s]) /\ output'[s] = output[s] \o SubSeq(got[s], 1, n)
          \/ output'[s] = output[s]
        BY DEF WriteFails
    <2>4. CASE output'[s] = output[s] \o got[s]
        <3>1. /\ Between(output[s] \o got[s], 0, Taken(s))
              /\ Segments(output[s] \o got[s]) = Segments(output[s]) \cup Segments(got[s])
            BY <2>1, <2>2, Appended
        <3>2. Adds(s, output'[s], Segments(got[s]))
            BY <2>4, <3>1 DEF Adds
        <3> QED
            BY <3>2
    <2>5. ASSUME NEW n \in 0 .. Window + 1, n <= Len(got[s]),
                 output'[s] = output[s] \o SubSeq(got[s], 1, n)
          PROVE  Adds(s, output'[s], Segments(SubSeq(got[s], 1, n)))
        <3> DEFINE r == SubSeq(got[s], 1, n)
        <3>1. n \in Nat
            BY LiveAssumption
        <3>2. /\ Between(r, Earlier(s), Taken(s)) /\ Segments(r) \subseteq Segments(got[s])
              /\ \A p \in Segments(got[s]), e \in Segments(r) : p <= e => p \in Segments(r)
            BY <2>1, <2>2, <2>5, <3>1, Cut
        <3> HIDE DEF r
        <3>3. /\ Between(output[s] \o r, 0, Taken(s))
              /\ Segments(output[s] \o r) = Segments(output[s]) \cup Segments(r)
            BY <2>1, <2>2, <3>2, Appended
        <3>4. output'[s] = output[s] \o r
            BY <2>5 DEF r
        <3> QED
            BY <3>2, <3>3, <3>4 DEF Adds, r
    <2>6. CASE output'[s] = output[s]
        <3>1. Between(output[s], 0, Taken(s))
            BY <2>1, <2>2, Wider
        <3>2. Adds(s, output'[s], {})
            BY <2>6, <3>1 DEF Adds
        <3> QED
            BY <3>2
    <2> QED
        BY <2>3, <2>4, <2>5, <2>6
<1>6. \A s \in Streams : Earlier(s)' = Earlier(s) /\ Taken(s)' = Taken(s)
    BY <1>1 DEF Earlier, Taken
<1>7. OrderInv'
    BY <1>1, <1>5, <1>6 DEF OrderInv, Adds
<1>8. PICK a \in Nat \ {0} : \A s \in Streams : Since(s, a)
    BY <1>1, <1>2 DEF SinceInv
<1>9. ASSUME NEW s \in Streams PROVE Since(s, a)'
    <2>1. a <= Earlier(s) + 1 /\ a <= Taken(s)
        BY <1>8 DEF Since
    <2>2. ASSUME setup.check PROVE Spans(Segments(output'[s]), a)
        <3>1. /\ Segments(output[s]) = a .. Earlier(s)
              /\ Segments(got[s]) = Earlier(s) + 1 .. Taken(s)
            BY <1>1, <1>8, <2>2 DEF Since
        <3>2. PICK C : /\ Segments(output'[s]) = Segments(output[s]) \cup C
                       /\ C \subseteq Segments(got[s])
                       /\ \A p \in Segments(got[s]), e \in C : p <= e => p \in C
            BY <1>5 DEF Adds
        <3>3. Earlier(s) \in Nat /\ Taken(s) \in Nat
            BY <1>2, BatchIsRun
        <3>4. ASSUME NEW q \in a .. Earlier(s) \cup C
              PROVE  q \in Nat /\ a <= q /\ a .. q \subseteq a .. Earlier(s) \cup C
            <4>1. CASE q \in a .. Earlier(s)
                BY <3>3, <4>1
            <4>2. CASE q \in C
                <5>1. q \in Earlier(s) + 1 .. Taken(s)
                    BY <3>1, <3>2, <4>2
                <5>2. ASSUME NEW p \in a .. q PROVE p \in a .. Earlier(s) \cup C
                    <6>1. p \in a .. Earlier(s) \/ p \in Earlier(s) + 1 .. Taken(s)
                        BY <3>3, <5>1
                    <6>2. p <= q
                        BY <3>3, <5>1
                    <6> QED
                        BY <3>1, <3>2, <4>2, <6>1, <6>2
                <5> QED
                    BY <2>1, <3>3, <5>1, <5>2
            <4> QED
                BY <3>4, <4>1, <4>2
        <3> QED
            BY <3>1, <3>2, <3>4 DEF Spans
    <2> QED
        BY <1>1, <1>6, <2>1, <2>2 DEF Since
<1> QED
    BY <1>3, <1>4, <1>7, <1>8, <1>9 DEF SinceInv

\* The files a download left when it failed are of its batch.
LEMMA FetchFailsRuns == RunInv /\ FetchFails => BatchInv' /\ NamesInv' /\ OrderInv' /\ SinceInv'
<1> SUFFICES ASSUME RunInv, FetchFails PROVE BatchInv' /\ NamesInv' /\ OrderInv' /\ SinceInv'
    OBVIOUS
<1>1. /\ phase = "fetch" /\ phase' = "failed" /\ UNCHANGED <<setup, st, batch, output>>
    BY DEF FetchFails
<1>2. BatchInv /\ NamesInv /\ OrderInv /\ SinceInv
    BY DEF RunInv
<1>3. BatchInv'
    BY <1>1, <1>2 DEF BatchInv, Knows, Name, Date, Taken
<1>4. ASSUME NEW s \in Streams
      PROVE  /\ \A i \in DOMAIN temp'[s] : i \in Nat \ {0} /\ temp'[s][i] = i
             /\ DOMAIN temp[s] \subseteq DOMAIN temp'[s]
             /\ DOMAIN temp'[s] \subseteq DOMAIN temp[s] \cup Earlier(s) + 1 .. Taken(s)
    <2>1. PICK part \in [Streams -> Parts] :
            Range(part[s]) \subseteq DOMAIN batch[s] /\ temp'[s] = FilesAfter(s, Range(part[s]))
        BY DEF FetchFails, Arrive
    <2> DEFINE P == Range(part[s])
               files == FilesAfter(s, P)
    <2>2. P \in SUBSET DOMAIN batch[s] /\ temp'[s] = files
        BY <2>1
    <2> HIDE DEF P
    <2>3. /\ DOMAIN files = DOMAIN temp[s] \cup Numbers(s, P)
          /\ \A i \in DOMAIN files : i \in Nat \ {0} /\ files[i] = i
        BY <1>2, <2>2, FilesNamed
    <2>4. Numbers(s, P) \subseteq Earlier(s) + 1 .. Taken(s)
        <3>1. ASSUME NEW k \in P PROVE Earlier(s) + k \in Earlier(s) + 1 .. Taken(s)
            <4>1. /\ Taken(s) \in Nat /\ Earlier(s) \in Nat
                  /\ k \in Nat \ {0} /\ Earlier(s) + k <= Taken(s)
                BY <1>2, <2>2, BatchIsRun
            <4> HIDE DEF Earlier, Taken
            <4> QED
                BY <4>1
        <3> QED
            BY <3>1 DEF Numbers
    <2> HIDE DEF files
    <2> QED
        BY <2>2, <2>3, <2>4
<1>5. \A s \in Streams : Earlier(s)' = Earlier(s) /\ Taken(s)' = Taken(s)
    BY <1>1 DEF Earlier, Taken
<1>6. NamesInv'
    BY <1>4 DEF NamesInv
<1>7. ASSUME NEW s \in Streams PROVE Between(output'[s], 0, Taken(s)')
    <2>1. Earlier(s) \in Nat /\ Taken(s) \in Nat /\ Earlier(s) <= Taken(s)
        BY <1>2, BatchIsRun
    <2>2. Between(output[s], 0, Earlier(s))
        BY <1>1, <1>2 DEF OrderInv
    <2> QED
        BY <1>1, <1>5, <2>1, <2>2, Wider
<1>8. OrderInv'
    BY <1>1, <1>7 DEF OrderInv
<1>9. PICK a \in Nat \ {0} : \A s \in Streams : Since(s, a)
    BY <1>1, <1>2 DEF SinceInv
<1>10. ASSUME NEW s \in Streams PROVE Since(s, a)'
    <2>1. a <= Earlier(s) + 1 /\ a <= Taken(s)
        BY <1>9 DEF Since
    <2>2. Earlier(s) \in Nat /\ Taken(s) \in Nat
        BY <1>2, BatchIsRun
    <2>3. setup.check /\ setup.merge => Spans(Segments(output[s]), a)
        <3>1. Spans(a .. Earlier(s), a)
            BY <2>2 DEF Spans
        <3> QED
            BY <1>1, <1>9, <3>1 DEF Since
    <2>4. setup.check /\ ~setup.merge => DOMAIN temp[s] = a .. Earlier(s)
        BY <1>1, <1>9 DEF Since
    <2>5. a .. Earlier(s) \cup Earlier(s) + 1 .. Taken(s) = a .. Taken(s)
        BY <1>2, <2>1, BatchIsRun
    <2>6. setup.check /\ ~setup.merge => /\ a .. Earlier(s) \subseteq DOMAIN temp'[s]
                                        /\ DOMAIN temp'[s] \subseteq a .. Taken(s)
        BY <1>4, <2>4, <2>5
    <2> QED
        BY <1>1, <1>5, <2>1, <2>3, <2>6 DEF Since
<1> QED
    BY <1>3, <1>6, <1>8, <1>9, <1>10 DEF SinceInv

\* A recording that fails keeps what it has.
LEMMA FailureRuns ==
    ASSUME RunInv, UNCHANGED <<setup, st, batch, output, temp>>, phase # "load", phase' = "failed"
    PROVE  BatchInv' /\ NamesInv' /\ OrderInv' /\ SinceInv'
<1>1. BatchInv /\ NamesInv /\ OrderInv /\ SinceInv /\ phase \in Phases
    BY DEF RunInv
<1>2. BatchInv'
    BY <1>1 DEF BatchInv, Knows, Name, Date, Taken
<1>3. NamesInv'
    BY <1>1 DEF NamesInv
<1>4. \A s \in Streams : Earlier(s)' = Earlier(s) /\ Taken(s)' = Taken(s)
    BY DEF Earlier, Taken
<1>5. ASSUME NEW s \in Streams PROVE Between(output'[s], 0, Taken(s)')
    <2>1. Earlier(s) \in Nat /\ Taken(s) \in Nat /\ Earlier(s) <= Taken(s)
        BY <1>1, BatchIsRun
    <2>2. Between(output[s], 0, Earlier(s)) \/ Between(output[s], 0, Taken(s))
        BY <1>1 DEF OrderInv
    <2> QED
        BY <1>4, <2>1, <2>2, Wider
<1>6. OrderInv'
    BY <1>5 DEF OrderInv
<1>7. PICK a \in Nat \ {0} : \A s \in Streams : Since(s, a)
    BY <1>1 DEF SinceInv
<1>8. ASSUME NEW s \in Streams PROVE Since(s, a)'
    <2>1. \A b \in Nat : Spans(a .. b, a)
        BY DEF Spans
    <2>2. Earlier(s) \in Nat /\ Taken(s) \in Nat
        BY <1>1, BatchIsRun
    <2>3. Spans(a .. Earlier(s), a) /\ Spans(a .. Taken(s), a)
        BY <2>1, <2>2
    <2>4. a <= Earlier(s) + 1 /\ a <= Taken(s)
        BY <1>7 DEF Since
    <2>5. setup.check /\ setup.merge => Spans(Segments(output[s]), a)
        BY <1>7, <2>3 DEF Since
    <2>6. setup.check /\ ~setup.merge => /\ a .. Earlier(s) \subseteq DOMAIN temp[s]
                                        /\ DOMAIN temp[s] \subseteq a .. Taken(s)
        <3>1. Earlier(s) <= Taken(s)
            BY <1>1, BatchIsRun
        <3>2. a .. Earlier(s) \subseteq a .. Taken(s)
            BY <2>2, <3>1
        <3> QED
            BY <1>1, <1>7, <3>2 DEF Since, Phases
    <2> QED
        BY <1>4, <2>4, <2>5, <2>6 DEF Since
<1> QED
    BY <1>2, <1>3, <1>6, <1>7, <1>8 DEF SinceInv

LEMMA IdleRuns ==
    ASSUME RunInv, UNCHANGED <<setup, phase, st, batch, got, output, temp>>
    PROVE  BatchInv' /\ NamesInv' /\ OrderInv' /\ FreshInv' /\ RestInv' /\ SinceInv'
<1>1. BatchInv'
    BY DEF RunInv, BatchInv, Knows, Name, Date, Taken
<1>2. NamesInv' /\ FreshInv' /\ RestInv'
    BY DEF RunInv, NamesInv, FreshInv, RestInv
<1>3. \A s \in Streams : Earlier(s)' = Earlier(s) /\ Taken(s)' = Taken(s)
    BY DEF Earlier, Taken
<1>4. OrderInv'
    BY <1>3 DEF RunInv, OrderInv
<1>5. SinceInv'
    BY <1>3 DEF RunInv, SinceInv, Since
<1> QED
    BY <1>1, <1>2, <1>4, <1>5

LEMMA RunStep == Comparable /\ RunInv /\ [Next]_vars => RunInv'
<1> SUFFICES ASSUME Comparable, RunInv, [Next]_vars PROVE RunInv'
    OBVIOUS
<1>1. ServerInv'
    BY ServerStep
<1>2. setup' = setup /\ setup \in Setups
    BY DEF RunInv, Next, Record, Load, Deliver, FetchFails, Write, WriteFails, Refresh,
        RefreshFails, NoticeCancel, Cancel, Publish, vars
<1>3. CASE Load
    BY <1>1, <1>2, <1>3, LoadRuns DEF RunInv, Load, FreshInv, RestInv, Phases
<1>4. CASE Deliver
    BY <1>1, <1>2, <1>4, DeliverRuns DEF RunInv, Deliver, FreshInv, RestInv, Phases
<1>5. CASE Write
    BY <1>1, <1>2, <1>5, WriteRuns DEF RunInv, Write, FreshInv, Phases
<1>6. CASE WriteFails
    BY <1>1, <1>2, <1>6, WriteFailsRuns DEF RunInv, WriteFails, FreshInv, RestInv, Phases
<1>7. CASE Refresh
    BY <1>1, <1>2, <1>7, RefreshRuns DEF RunInv, Refresh, FreshInv, RestInv, Phases
<1>10. CASE FetchFails
    BY <1>1, <1>2, <1>10, FetchFailsRuns DEF RunInv, FetchFails, FreshInv, RestInv, Phases
<1>8. CASE NoticeCancel \/ (RefreshFails /\ phase' = "failed")
    <2>1. UNCHANGED <<setup, st, batch, output, temp>> /\ phase # "load" /\ phase' = "failed"
        BY <1>8 DEF NoticeCancel, RefreshFails
    <2>2. BatchInv' /\ NamesInv' /\ OrderInv' /\ SinceInv'
        BY <2>1, FailureRuns
    <2> QED
        BY <1>1, <1>2, <2>1, <2>2 DEF RunInv, FreshInv, RestInv, Phases
<1>9. CASE \/ Cancel \/ (\E s \in Streams : Publish(s)) \/ UNCHANGED vars
           \/ (RefreshFails /\ phase' # "failed")
    <2>1. UNCHANGED <<setup, phase, st, batch, got, output, temp>>
        BY <1>9 DEF Cancel, Publish, vars, RefreshFails
    <2>2. BatchInv' /\ NamesInv' /\ OrderInv' /\ FreshInv' /\ RestInv' /\ SinceInv'
        BY <2>1, IdleRuns
    <2> QED
        BY <1>1, <1>2, <2>1, <2>2 DEF RunInv
<1> QED
    BY <1>3, <1>4, <1>5, <1>6, <1>7, <1>8, <1>9, <1>10 DEF Next, Record

(***************************************************************************)
(* What the invariant says of the recording.                               *)
(***************************************************************************)

LEMMA FinishedIsRange ==
    ASSUME RunInv, NEW s \in Streams
    PROVE  Range(Finished(s)) = IF setup.merge THEN Segments(output[s])
                                ELSE DOMAIN temp[s] \ Unfinished(s)
<1>1. \A i \in DOMAIN temp[s] : temp[s][i] = i
    BY DEF RunInv, NamesInv
<1>2. CASE setup.merge
    BY <1>2 DEF Finished, Kept, Range, Segments, InitSegment
<1>3. CASE ~setup.merge
    <2> DEFINE D == DOMAIN temp[s] \ Unfinished(s)
    <2>1. Finished(s) = [i \in D |-> temp[s][i]]
        BY <1>3 DEF Finished
    <2> QED
        BY <1>1, <1>3, <2>1 DEF Range
<1> QED
    BY <1>2, <1>3

\* The files of an unfinished batch come after the others.
LEMMA UnfinishedIsEnd ==
    ASSUME BatchInv, phase = "failed", NEW s \in Streams
    PROVE  Unfinished(s) = Earlier(s) + 1 .. Taken(s)
<1>1. /\ Taken(s) \in Nat /\ Earlier(s) \in Nat /\ Len(batch[s]) \in Nat
      /\ Earlier(s) + Len(batch[s]) = Taken(s)
      /\ DOMAIN batch[s] = 1 .. Len(batch[s])
      /\ \A k \in DOMAIN batch[s] : batch[s][k].idx = Earlier(s) + k
    BY BatchIsRun
<1> HIDE DEF Earlier, Taken
<1>2. Unfinished(s) = {Earlier(s) + k : k \in 1 .. Len(batch[s])}
    BY <1>1 DEF Unfinished
<1>3. ASSUME NEW q \in Earlier(s) + 1 .. Taken(s)
      PROVE  q - Earlier(s) \in 1 .. Len(batch[s]) /\ Earlier(s) + (q - Earlier(s)) = q
    BY <1>1
<1>4. \A k \in 1 .. Len(batch[s]) : Earlier(s) + k \in Earlier(s) + 1 .. Taken(s)
    BY <1>1
<1> QED
    BY <1>2, <1>3, <1>4

LEMMA FinishedSpans ==
    ASSUME RunInv, setup.check
    PROVE  \E a \in Nat \ {0} : \A s \in Streams : Spans(Range(Finished(s)), a)
<1>1. BatchInv /\ SinceInv /\ FreshInv /\ phase \in Phases
    BY DEF RunInv
<1>2. CASE phase = "load"
    <2>1. \A s \in Streams : Segments(output[s]) = {} /\ DOMAIN temp[s] = {}
        BY <1>1, <1>2, Empty, NothingBetween DEF FreshInv
    <2>2. \A s \in Streams : Spans(Range(Finished(s)), 1)
        BY <2>1, FinishedIsRange DEF Spans
    <2> QED
        BY <2>2
<1>3. CASE phase # "load"
    <2>1. PICK a \in Nat \ {0} : \A s \in Streams : Since(s, a)
        BY <1>1, <1>3 DEF SinceInv
    <2>2. ASSUME NEW s \in Streams PROVE Spans(Range(Finished(s)), a)
        <3>1. \A b \in Nat : Spans(a .. b, a)
            BY DEF Spans
        <3>2. Earlier(s) \in Nat /\ Taken(s) \in Nat
            BY <1>1, BatchIsRun
        <3>3. Spans(a .. Earlier(s), a) /\ Spans(a .. Taken(s), a)
            BY <3>1, <3>2
        <3>4. setup.merge => Spans(Segments(output[s]), a)
            BY <2>1, <3>3 DEF Since
        <3>5. ASSUME ~setup.merge, phase # "failed" PROVE Spans(DOMAIN temp[s] \ Unfinished(s), a)
            <4>1. Unfinished(s) = {}
                BY <3>5 DEF Unfinished
            <4>2. DOMAIN temp[s] \ Unfinished(s) = DOMAIN temp[s]
                BY <4>1
            <4> QED
                BY <1>1, <1>3, <2>1, <3>3, <3>5, <4>2 DEF Since, Phases
        <3>6. ASSUME ~setup.merge, phase = "failed" PROVE Spans(DOMAIN temp[s] \ Unfinished(s), a)
            <4>1. Unfinished(s) = Earlier(s) + 1 .. Taken(s)
                BY <1>1, <3>6, UnfinishedIsEnd
            <4>2. /\ a .. Earlier(s) \subseteq DOMAIN temp[s]
                  /\ DOMAIN temp[s] \subseteq a .. Taken(s)
                BY <2>1, <3>6 DEF Since
            <4>3. DOMAIN temp[s] \ (Earlier(s) + 1 .. Taken(s)) = a .. Earlier(s)
                BY <3>2, <4>2
            <4> QED
                BY <3>3, <4>1, <4>3
        <3> QED
            BY <3>4, <3>5, <3>6, FinishedIsRange
    <2> QED
        BY <2>2
<1> QED
    BY <1>2, <1>3

LEMMA RunsHold == Comparable /\ RunInv => RecordedRun
<1> SUFFICES ASSUME Comparable, RunInv PROVE RecordedRun
    OBVIOUS
<1>1. /\ BatchInv /\ NamesInv /\ OrderInv /\ SinceInv /\ RestInv
      /\ setup \in Setups /\ phase \in Phases
    BY DEF RunInv
<1>2. StartTogether
    <2> SUFFICES ASSUME setup.check, NEW s \in Streams, NEW t \in Streams,
                        Range(Finished(s)) # {}, Range(Finished(t)) # {}
                 PROVE  Min(Range(Finished(s))) = Min(Range(Finished(t)))
        BY DEF StartTogether
    <2>1. PICK a \in Nat \ {0} : \A r \in Streams : Spans(Range(Finished(r)), a)
        BY FinishedSpans
    <2>2. ASSUME NEW C, C # {}, Spans(C, a) PROVE Min(C) = a
        <3>1. C \in SUBSET Nat /\ a \in C /\ \A q \in C : a <= q
            BY <2>2 DEF Spans
        <3>2. Min(C) \in C /\ Min(C) <= a
            BY <2>2, <3>1, Least
        <3>3. Min(C) \in Nat /\ a <= Min(C)
            BY <3>1, <3>2
        <3> QED
            BY <3>2, <3>3
    <2> QED
        BY <2>1, <2>2
<1>3. ASSUME NEW s \in Streams PROVE OwnRun(s)
    <2>1. IsAscending(Kept(s))
        <3>1. CASE setup.merge
            <4>1. /\ \A m, n \in DOMAIN output[s] :
                        m < n /\ output[s][m] # 0 /\ output[s][n] # 0 => output[s][m] < output[s][n]
                BY <1>1 DEF OrderInv, Between
            <4> QED
                BY <3>1, <4>1 DEF Kept, IsAscending, InitSegment
        <3>2. CASE ~setup.merge
            BY <1>1, <3>2 DEF Kept, IsAscending, NamesInv
        <3> QED
            BY <3>1, <3>2
    <2>2. ASSUME setup.check PROVE IsRun(Finished(s))
        <3>1. PICK a \in Nat \ {0} : Spans(Range(Finished(s)), a)
            BY <2>2, FinishedSpans
        <3>2. ASSUME NEW p \in Range(Finished(s)), NEW q \in Range(Finished(s))
              PROVE  p .. q \subseteq Range(Finished(s))
            BY <3>1 DEF Spans
        <3>3. \A i \in DOMAIN Finished(s) : Finished(s)[i] \in Range(Finished(s))
            BY DEF Range
        <3> QED
            BY <3>2, <3>3 DEF IsRun
    <2>3. ASSUME setup.check, phase \in {"wait", "done"}
          PROVE  \E q \in Range(Finished(s)) :
                    (\A r \in Range(Finished(s)) : r <= q) /\ IsLast(st[s], Numbered(q))
        <3>1. PICK a \in Nat \ {0} : Since(s, a)
            BY <1>1, <2>3 DEF SinceInv
        <3>2. Earlier(s) = Taken(s) /\ Taken(s) \in Nat
            <4>1. Taken(s) \in Nat /\ Len(batch[s]) = 0
                BY <1>1, <2>3 DEF BatchInv, RestInv, Knows, Taken
            <4> QED
                BY <4>1 DEF Earlier
        <3>3. Range(Finished(s)) = a .. Taken(s) /\ a <= Taken(s)
            <4>1. Unfinished(s) = {}
                BY <2>3 DEF Unfinished
            <4> QED
                BY <2>3, <3>1, <3>2, <4>1, FinishedIsRange DEF Since
        <3>4. IsLast(st[s], Numbered(Taken(s)))
            <4>1. Knows(st[s]) /\ st[s].maxIndex = Taken(s) /\ Taken(s) \in Nat \ {0}
                BY <1>1, <3>2, <3>3 DEF BatchInv, Taken
            <4> QED
                BY <1>1, <4>1, OnlyLast
        <3> QED
            BY <3>2, <3>3, <3>4
    <2> QED
        BY <2>1, <2>2, <2>3 DEF OwnRun
<1> QED
    BY <1>2, <1>3 DEF RecordedRun

\* Whatever is published and withdrawn meanwhile, whichever refresh fails and wherever a
\* write stops: a recording has its segments in order and none twice; when the count of
\* each download is checked none is missing from what the finished downloads recorded, the
\* last is the one that the next refresh looks for, and the streams begin with the same
\* one (filter_new_live_segments,
\* sync_live_startup_windows, append_files and the names of the files agree).
THEOREM RecordingIsRun ==
    ASSUME Comparable
    PROVE  Spec => []RecordedRun
<1>1. Init => RunInv
    BY RunInit
<1>2. RunInv /\ [Next]_vars => RunInv'
    BY RunStep
<1>3. RunInv => RecordedRun
    BY RunsHold
<1> QED
    BY <1>1, <1>2, <1>3, PTL DEF Spec
=============================================================================
