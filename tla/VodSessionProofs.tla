-------------------------- MODULE VodSessionProofs --------------------------
(* What is proved of one session of execute_request, for any streams of any    *)
(* length, any options and wherever the session ends: in the first session on  *)
(* a directory no segment is decrypted twice or with the key of another one;   *)
(* no session changes the files that were there before, loses what it has      *)
(* downloaded, or finishes without a whole output for every stream.            *)
EXTENDS VodSession, FiniteSetTheorems, SequenceTheorems, TLAPS

\* Up to the download nothing lies in the temporary directory.
Early == {"idle", "waiting", "loading", "pausing", "loaded", "selected", "downloading"}
\* While there are streams to decrypt.
Downloaded == {"probing", "reserving", "probed"}
InStream == {"skipping", "subtitling", "imaging", "writing", "grouping", "dropping", "merging",
             "ffmpeg merging", "deciphering", "decrypt tool", "removing", "renaming", "closing"}
Late == {"muxing", "forging", "tool muxing", "sweeping", "naming", "clearing"} \cup Final
Labels == Early \cup Downloaded \cup {"decrypting"} \cup InStream \cup Late

\* There is a stream to download.
Chosen == {"selected", "downloading"} \cup Downloaded

Complete(s) == Len(files[s]) = Cardinality(Items(s))

\* The segments whose turn to be decrypted is still to come.
ToCome(s, i) == \/ pc \in Downloaded
                \/ pc \in InStream \cup {"decrypting"} /\ s > cur
                \/ pc = "decrypting" /\ s = cur /\ i > pos

TypeInv ==
  /\ setup \in Setups /\ session \in Nat /\ pc \in Labels
  /\ pc = "idle" <=> session = 0
  /\ DOMAIN temp = Streams /\ DOMAIN files = Streams
  /\ \A s \in Streams : DOMAIN temp[s] = Items(s)
  /\ pos \in Nat /\ cur \in Nat
  /\ pc \in InStream \cup {"decrypting"} => cur \in Streams
  /\ pc \in Chosen => 1 \in Streams

\* A file is still encrypted when its turn comes, and what was decrypted in its turn
\* is no file of another segment.
FirstInv ==
  session <= 1 => \A s \in Streams :
    /\ pc \in Early => files[s] = <<>> /\ \A i \in Items(s) : temp[s][i] = "none"
    /\ files[s] # <<>> => files[s] \in InOrder(s)
    /\ Complete(s) => \A i \in Items(s) : temp[s][i] # "bad"
    /\ Complete(s) /\ Stream(s).cipher = "aes" =>
         \A i \in 1..Stream(s).n : ToCome(s, i) => temp[s][i] = "cipher"

Inv == TypeInv /\ FirstInv

-----------------------------------------------------------------------------
\* The streams of a setup are a list.
LEMMA StreamsShape ==
  ASSUME setup \in Setups
  PROVE  /\ Len(setup.streams) \in Nat /\ Streams = 1..Len(setup.streams)
         /\ setup.streams # <<>> <=> 1 \in Streams
         /\ \A s \in Streams : Stream(s).n \in Nat /\ Stream(s).init \in BOOLEAN
<1>1. setup.streams \in Seq(Range(setup.streams))
  BY SetupsAssumption
<1>2. Len(setup.streams) \in Nat /\ (setup.streams = <<>> <=> Len(setup.streams) = 0)
  BY <1>1, EmptySeq, LenProperties
<1>3. \A s \in Streams : Stream(s).n \in Nat /\ Stream(s).init \in BOOLEAN
  BY SetupsAssumption DEF Streams, Stream
<1> QED BY <1>2, <1>3 DEF Streams

-----------------------------------------------------------------------------
(* Lists in order.                                                             *)

\* As many numbers in order as there are between two bounds are all of them.
LEMMA AllInOrder ==
  ASSUME NEW lo \in Nat, NEW n \in Nat, lo <= n + 1,
         NEW q \in [1..(n + 1 - lo) -> lo..n],
         \A j, k \in 1..(n + 1 - lo) : j < k => q[j] < q[k]
  PROVE  \A k \in 1..(n + 1 - lo) : q[k] = lo + k - 1
<1> DEFINE L == n + 1 - lo
           D == 1..L
<1>0. L \in Nat
  OBVIOUS
<1> DEFINE R == {ss \in Nat \X Nat : ss[1] < ss[2]}
<1>1. IsWellFoundedOn(R, Nat)
  BY NatLessThanWellFounded, Zenon DEF OpToRel
<1> HIDE DEF R
<1>2. \A k \in D : q[k] >= lo + k - 1
  <2> DEFINE B == {k \in D : ~(q[k] >= lo + k - 1)}
  <2>1. SUFFICES ASSUME B # {} PROVE FALSE
    OBVIOUS
  <2>2. B \subseteq Nat
    OBVIOUS
  <2>3. PICK k \in B : \A y \in B : ~(<<y, k>> \in R)
    BY <1>1, <2>1, <2>2, WFMin
  <2>4. k \in D /\ q[k] \in Nat /\ q[k] >= lo /\ ~(q[k] >= lo + k - 1)
    BY <2>3
  <2>5. k > 1 /\ k - 1 \in D
    BY <1>0, <2>4
  <2>6. q[k - 1] < q[k] /\ q[k - 1] \in Nat
    BY <2>4, <2>5
  <2>7. <<k - 1, k>> \in R
    BY <2>4, <2>5 DEF R
  <2>8. q[k - 1] >= lo + (k - 1) - 1
    BY <2>3, <2>5, <2>7
  <2> QED BY <2>4, <2>5, <2>6, <2>8
<1>3. \A k \in D : q[k] <= lo + k - 1
  <2> DEFINE B == {m \in 0..L : L - m \in D /\ ~(q[L - m] <= lo + (L - m) - 1)}
  <2>0. \A k \in D : L - k \in 0..L /\ L - (L - k) = k
    BY <1>0
  <2>1. SUFFICES ASSUME B # {} PROVE FALSE
    BY <2>0
  <2>2. B \subseteq Nat
    OBVIOUS
  <2>3. PICK m \in B : \A y \in B : ~(<<y, m>> \in R)
    BY <1>1, <2>1, <2>2, WFMin
  <2> DEFINE k == L - m
  <2>4. m \in Nat /\ k \in D /\ q[k] \in Nat /\ q[k] <= n /\ ~(q[k] <= lo + k - 1)
    BY <1>0, <2>3
  <2>5. m > 0 /\ k + 1 \in D /\ L - (m - 1) = k + 1 /\ m - 1 \in 0..L
    BY <1>0, <2>4, <2>3
  <2>6. q[k] < q[k + 1] /\ q[k + 1] \in Nat
    BY <2>4, <2>5
  <2>7. <<m - 1, m>> \in R
    BY <2>4, <2>5 DEF R
  <2>8. q[k + 1] <= lo + (k + 1) - 1
    BY <2>3, <2>5, <2>7
  <2> QED BY <2>4, <2>5, <2>6, <2>8
<1>4. \A k \in D : q[k] \in Nat
  OBVIOUS
<1>5. ASSUME NEW k \in D PROVE q[k] = lo + k - 1
  <2>1. q[k] \in Nat /\ lo + k - 1 \in Int /\ q[k] >= lo + k - 1 /\ q[k] <= lo + k - 1
    BY <1>0, <1>2, <1>3, <1>4
  <2> QED BY <2>1
<1> QED BY <1>5

\* As many files in order as a stream has items are all of them, each in its place.
LEMMA Whole ==
  ASSUME TypeInv, NEW s \in Streams, NEW q \in InOrder(s), Len(q) = Cardinality(Items(s))
  PROVE  /\ Stream(s).n \in Nat /\ Offset(s) \in {0, 1} /\ Items(s) = (1 - Offset(s))..Stream(s).n
         /\ q \in Seq(Items(s)) /\ Len(q) = Stream(s).n + Offset(s)
         /\ \A k \in 1..Len(q) : q[k] = k - Offset(s)
<1> DEFINE n == Stream(s).n
           lo == 1 - Offset(s)
<1>1. n \in Nat /\ lo \in Nat /\ lo <= n + 1 /\ Items(s) = lo..n /\ Offset(s) \in {0, 1}
  BY StreamsShape DEF TypeInv, Items, Offset
<1> HIDE DEF n, lo
<1>2. Cardinality(lo..n) = n + 1 - lo
  BY <1>1, FS_Interval
<1>3. PICK k \in Nat : q \in [1..k -> lo..n]
  BY <1>1, <1>2 DEF InOrder
<1>4. q \in Seq(lo..n) /\ Len(q) = k
  <2>1. q \in UNION {[1..j -> lo..n] : j \in Nat}
    BY <1>3
  <2>2. q \in Seq(lo..n)
    BY <2>1, SeqDef, Zenon
  <2>3. Len(q) \in Nat /\ 1..Len(q) = 1..k
    BY <1>3, <2>2, LenProperties
  <2> QED BY <2>2, <2>3
<1>5. k = n + 1 - lo
  BY <1>1, <1>2, <1>4
<1>6. \A i, j \in 1..k : i < j => q[i] < q[j]
  BY <1>3 DEF InOrder
<1>7. \A j \in 1..k : q[j] = lo + j - 1
  BY <1>1, <1>3, <1>5, <1>6, AllInOrder
<1>8. \A j \in 1..k : q[j] = j - Offset(s)
  BY <1>1, <1>5, <1>7 DEF lo
<1>9. Len(q) = n + Offset(s)
  BY <1>1, <1>4, <1>5 DEF lo
<1> QED BY <1>1, <1>4, <1>8, <1>9 DEF n, lo

LEMMA AllOfThem ==
  ASSUME TypeInv, NEW s \in Streams, NEW q \in InOrder(s), Len(q) = Cardinality(Items(s)),
         NEW i \in Items(s)
  PROVE  i \in Range(q)
<1>1. /\ Stream(s).n \in Nat /\ Offset(s) \in {0, 1} /\ Items(s) = (1 - Offset(s))..Stream(s).n
      /\ Len(q) = Stream(s).n + Offset(s) /\ \A k \in 1..Len(q) : q[k] = k - Offset(s)
      /\ q \in Seq(Items(s))
  BY Whole
<1>2. i + Offset(s) \in 1..Len(q) /\ (i + Offset(s)) - Offset(s) = i
  BY <1>1
<1>3. DOMAIN q = 1..Len(q)
  BY <1>1, LenProperties
<1> QED BY <1>1, <1>2, <1>3 DEF Range

\* So the file in place k is decrypted as segment k.
LEMMA CompleteInOrder ==
  ASSUME TypeInv, NEW s \in Streams, files[s] # <<>> => files[s] \in InOrder(s), Complete(s),
         Stream(s).cipher = "aes"
  PROVE  /\ Len(FilesToDecrypt(s)) \in Nat
         /\ Len(FilesToDecrypt(s)) <= Stream(s).n
         /\ \A k \in 1..Len(FilesToDecrypt(s)) : FilesToDecrypt(s)[k] = k
<1> DEFINE q == files[s]
           n == Stream(s).n
<1>1. n \in Nat
  BY SetupsAssumption DEF TypeInv, Streams, Stream
<1>2. CASE q = <<>>
  <2>1. SubSeq(q, Offset(s) + 1, Len(q)) = <<>>
    BY <1>2 DEF Offset
  <2>2. FilesToDecrypt(s) = <<>> /\ Len(<<>>) = 0 /\ 1..0 = {}
    BY <2>1 DEF FilesToDecrypt
  <2> HIDE DEF q
  <2> QED BY <1>1, <2>2
<1>3. CASE q # <<>>
  <2>1. /\ Offset(s) \in {0, 1} /\ q \in Seq(Items(s)) /\ Len(q) = n + Offset(s)
        /\ \A k \in 1..Len(q) : q[k] = k - Offset(s)
    BY <1>3, Whole DEF Complete
  <2>2. FilesToDecrypt(s) = SubSeq(q, Offset(s) + 1, Len(q))
    BY DEF FilesToDecrypt
  <2> HIDE DEF q, n
  <2>3. Len(SubSeq(q, Offset(s) + 1, Len(q))) = n
    BY <1>1, <2>1
  <2>4. \A j \in 1..n : SubSeq(q, Offset(s) + 1, Len(q))[j] = q[Offset(s) + j]
    BY <1>1, <2>1
  <2>5. \A j \in 1..n : Offset(s) + j \in 1..Len(q) /\ (Offset(s) + j) - Offset(s) = j
    BY <1>1, <2>1
  <2>6. ASSUME NEW j \in 1..n PROVE FilesToDecrypt(s)[j] = j
    <3>1. FilesToDecrypt(s)[j] = q[Offset(s) + j]
      BY <2>2, <2>4, Zenon
    <3>2. q[Offset(s) + j] = (Offset(s) + j) - Offset(s)
      BY <2>1, <2>5, Zenon
    <3> QED BY <2>5, <3>1, <3>2
  <2>7. Len(FilesToDecrypt(s)) = n
    BY <2>2, <2>3, Zenon
  <2> QED BY <1>1, <2>6, <2>7 DEF n
<1> QED BY <1>2, <1>3

-----------------------------------------------------------------------------
(* Steps that decrypt nothing.                                                 *)

LEMMA SetupKept ==
  ASSUME setup' = setup
  PROVE  /\ Streams' = Streams
         /\ \A s : Stream(s)' = Stream(s) /\ Items(s)' = Items(s) /\ InOrder(s)' = InOrder(s)
<1>1. Streams' = Streams /\ \A s : Stream(s)' = Stream(s)
  BY DEF Streams, Stream
<1>2. \A s : Items(s)' = Items(s)
  BY <1>1 DEF Items
<1> QED BY <1>1, <1>2 DEF InOrder

LEMMA Numbered ==
  ASSUME TypeInv, NEW s \in Streams
  PROVE  1..Stream(s).n \subseteq Items(s)
BY StreamsShape DEF TypeInv, Items

\* A session goes on with the files of its download; some are deleted, but none whose
\* turn is still to come.
Goes ==
  /\ setup' = setup /\ session' = session /\ files' = files
  /\ pc' \in Labels /\ (pc' = "idle" <=> pc = "idle")
  /\ pos' \in Nat /\ cur' \in Nat /\ (pc' \in InStream \cup {"decrypting"} => cur' \in Streams)
  /\ pc' \in Early => pc \in Early /\ temp' = temp
  /\ pc' \in Chosen => 1 \in Streams
  /\ DOMAIN temp' = Streams /\ \A s \in Streams : DOMAIN temp'[s] = Items(s)
  /\ \A s \in Streams : \A i \in Items(s) :
        /\ temp'[s][i] \in {temp[s][i], "none", "torn"}
        /\ ToCome(s, i)' => ToCome(s, i) /\ temp'[s][i] = temp[s][i]

LEMMA GoesOn ==
  ASSUME Inv, Goes
  PROVE  Inv'
<1>1. /\ Streams' = Streams
      /\ \A s : Stream(s)' = Stream(s) /\ Items(s)' = Items(s) /\ InOrder(s)' = InOrder(s)
  BY SetupKept DEF Goes
<1>2. \A s \in Streams : Complete(s)' = Complete(s)
  BY <1>1 DEF Goes, Complete
<1>3. TypeInv'
  BY <1>1 DEF Inv, TypeInv, Goes
<1>4. ASSUME session <= 1, NEW s \in Streams
      PROVE  /\ pc' \in Early => files'[s] = <<>> /\ \A i \in Items(s) : temp'[s][i] = "none"
             /\ files'[s] # <<>> => files'[s] \in InOrder(s)
             /\ Complete(s) => \A i \in Items(s) : temp'[s][i] # "bad"
             /\ Complete(s) /\ Stream(s).cipher = "aes" =>
                  \A i \in 1..Stream(s).n : ToCome(s, i)' => temp'[s][i] = "cipher"
  <2>1. \A i \in 1..Stream(s).n : i \in Items(s)
    BY Numbered DEF Inv
  <2> QED BY <1>4, <2>1 DEF Inv, FirstInv, Goes
<1>5. FirstInv'
  BY <1>1, <1>2, <1>4 DEF FirstInv, Goes
<1> QED BY <1>3, <1>5 DEF Inv

\* The steps before and after a stream is in work, and those that touch no file of it.
LEMMA QuietGoes ==
  ASSUME Inv, UNCHANGED <<setup, session, temp, files, cur, pos>>, pc # "idle",
         \/ /\ pc' \in Early /\ pc' # "idle" /\ pc \in Early
            /\ pc' \in Chosen => pc \in Chosen \/ setup.streams # <<>>
         \/ pc' \in Late
         \/ pc' \in Downloaded /\ pc \in Downloaded
         \/ pc' \in InStream /\ pc \in InStream
         \/ pc' = pc
  PROVE  Goes
<1>1. \A s, i : ToCome(s, i)' => ToCome(s, i)
  <2>1. /\ pc' \in Downloaded => pc \in Downloaded
        /\ pc' \in InStream \cup {"decrypting"} => pc \in InStream \cup {"decrypting"}
        /\ pc' = "decrypting" => pc = "decrypting"
    BY DEF Early, Late, Final, Downloaded, InStream
  <2> QED BY <2>1 DEF ToCome
<1>2. pc' \in Labels /\ (pc' = "idle" <=> pc = "idle")
  BY DEF Inv, TypeInv, Labels, Early, Late, Final, Downloaded, InStream, Chosen
<1>3. pc' \in Early => pc \in Early
  BY DEF Early, Late, Final, InStream, Downloaded
<1>4. pc' \in InStream \cup {"decrypting"} => pc \in InStream \cup {"decrypting"}
  BY DEF Early, Late, Final, InStream, Downloaded
<1>5. pc' \in Chosen => pc \in Chosen \/ setup.streams # <<>>
  <2>1. pc' \in Late \cup InStream => pc' \notin Chosen
    BY DEF Chosen, Downloaded, Late, Final, InStream
  <2>2. Downloaded \subseteq Chosen
    BY DEF Chosen
  <2> QED BY <2>1, <2>2
<1>6. setup.streams # <<>> => 1 \in Streams
  BY StreamsShape DEF Inv, TypeInv
<1> QED BY <1>1, <1>2, <1>3, <1>4, <1>5, <1>6 DEF Goes, Inv, TypeInv

\* When a stream is done, the next one's turn comes, or none's.
LEMMA NextGoes ==
  ASSUME Inv, pc \in InStream, NEW outputs, NextStream(outputs),
         UNCHANGED <<setup, session, files>>,
         DOMAIN temp' = Streams, \A s \in Streams : DOMAIN temp'[s] = Items(s),
         \A s \in Streams : temp'[s] = temp[s] \/ s = cur,
         \A i \in Items(cur) : temp'[cur][i] \in {temp[cur][i], "none"}
  PROVE  Goes
<1>1. cur \in Streams /\ cur \in Nat /\ pos' = 0 /\ pc # "idle" /\ pc \notin Early
  BY DEF Inv, TypeInv, NextStream, InStream, Early
<1>2. CASE cur < Len(setup.streams) /\ pc' = "decrypting" /\ cur' = cur + 1
  <2>1. cur' \in Streams /\ cur' \in Nat
    BY <1>1, <1>2, StreamsShape DEF Inv, TypeInv
  <2>2. \A i : \A s \in Streams : ToCome(s, i)' => s > cur
    BY <1>1, <1>2 DEF ToCome, Downloaded, Streams
  <2>3. \A i : \A s \in Streams : s > cur => ToCome(s, i) /\ temp'[s] = temp[s]
    BY <1>1 DEF ToCome, Streams
  <2> QED BY <1>1, <1>2, <2>1, <2>2, <2>3 DEF Goes, Labels, Early, Chosen, Downloaded
<1>3. CASE pc' \in {"muxing", "clearing"} /\ cur' = cur
  <2>1. \A s, i : ~ToCome(s, i)'
    BY <1>3 DEF ToCome, Downloaded, InStream
  <2> QED BY <1>1, <1>3, <2>1 DEF Goes, Labels, Early, Late, InStream, Chosen, Downloaded
<1> QED BY <1>2, <1>3 DEF NextStream

-----------------------------------------------------------------------------
(* The other steps.                                                            *)

LEMMA BeginKeeps ==
  ASSUME Inv, Begin
  PROVE  Inv'
<1>1. /\ setup' = setup /\ session' = session + 1 /\ temp' = temp /\ cur' = 0 /\ pos' = 0
      /\ files' = [s \in Streams |-> <<>>] /\ pc' \in {"refused", "waiting", "loading"}
  BY DEF Begin, data
<1>2. /\ Streams' = Streams
      /\ \A s : Stream(s)' = Stream(s) /\ Items(s)' = Items(s) /\ InOrder(s)' = InOrder(s)
  BY <1>1, SetupKept
<1>3. TypeInv'
  <2>1. /\ pc' \in Labels /\ pc' # "idle" /\ pc' \notin InStream \cup {"decrypting"}
        /\ pc' \notin Chosen
    BY <1>1 DEF Labels, Early, Late, Final, Downloaded, InStream, Chosen
  <2>2. session' \in Nat /\ session' # 0
    BY <1>1 DEF Inv, TypeInv
  <2> QED BY <1>1, <1>2, <2>1, <2>2 DEF Inv, TypeInv
<1>4. ASSUME session' <= 1, NEW s \in Streams
      PROVE  files'[s] = <<>> /\ \A i \in Items(s) : temp'[s][i] = "none"
  <2>1. session = 0 /\ pc = "idle"
    BY <1>1, <1>4 DEF Inv, TypeInv
  <2> QED BY <1>1, <2>1 DEF Inv, FirstInv, Early
<1>5. \A s, i : ~ToCome(s, i)'
  BY <1>1 DEF ToCome, Downloaded, InStream
<1>6. FirstInv'
  BY <1>2, <1>4, <1>5 DEF FirstInv
<1> QED BY <1>3, <1>6 DEF Inv

\* What the server encrypts with AES arrives encrypted.
LEMMA DownloadKeeps ==
  ASSUME Inv, Download
  PROVE  Inv'
<1>1. PICK got \in Gots : temp' = Fetched(got) /\ files' = got
  BY DEF Download
<1>2. /\ setup' = setup /\ session' = session /\ cur' = cur /\ pos' = pos
      /\ pc = "downloading" /\ pc' = "probing"
  BY DEF Download, works
<1>3. /\ Streams' = Streams
      /\ \A s : Stream(s)' = Stream(s) /\ Items(s)' = Items(s) /\ InOrder(s)' = InOrder(s)
  BY <1>2, SetupKept
<1>4. /\ DOMAIN got = Streams /\ \A s \in Streams : got[s] \in InOrder(s)
      /\ DOMAIN temp' = Streams
      /\ \A s \in Streams : DOMAIN temp'[s] = Items(s) /\ \A i \in Items(s) :
           temp'[s][i] = IF i \in Range(got[s]) /\ temp[s][i] = "none" THEN Arrives(s)
                                                                      ELSE temp[s][i]
  BY <1>1 DEF Gots, Fetched
<1>5. TypeInv'
  BY <1>1, <1>2, <1>3, <1>4 DEF Inv, TypeInv, Labels, Early, Late, Final, Downloaded, InStream, Chosen
<1>6. ASSUME session <= 1, NEW s \in Streams
      PROVE  /\ \A i \in Items(s) : temp'[s][i] # "bad"
             /\ (Complete(s) /\ Stream(s).cipher = "aes")' =>
                  \A i \in 1..Stream(s).n : temp'[s][i] = "cipher"
  <2>1. \A i \in Items(s) : temp[s][i] = "none"
    BY <1>2, <1>6 DEF Inv, FirstInv, Early
  <2>2. \A i \in Items(s) : temp'[s][i] \in {"none", "cipher", "clear"}
    BY <1>4, <2>1 DEF Arrives
  <2>3. ASSUME (Complete(s) /\ Stream(s).cipher = "aes")', NEW i \in 1..Stream(s).n
        PROVE  temp'[s][i] = "cipher"
    <3>1. i \in Items(s)
      BY Numbered DEF Inv
    <3>2. files'[s] # <<>> => files'[s] \in InOrder(s)'
      BY <1>1, <1>3, <1>4
    <3>3. i \in Range(got[s])
      BY <1>1, <1>3, <1>4, <2>3, <3>1, AllOfThem DEF Complete, Inv
    <3>4. Arrives(s) = "cipher"
      BY <1>3, <2>3 DEF Arrives
    <3> QED BY <1>4, <2>1, <3>1, <3>3, <3>4
  <2> QED BY <2>2, <2>3
<1>7. FirstInv'
  <2>1. pc' \notin Early
    BY <1>2 DEF Early
  <2> QED BY <1>1, <1>2, <1>3, <1>4, <1>6, <2>1 DEF FirstInv
<1> QED BY <1>5, <1>7 DEF Inv

LEMMA DownloadFailsKeeps ==
  ASSUME Inv, DownloadFails
  PROVE  Inv'
<1>1. PICK t \in Streams : temp' = [temp EXCEPT ![t] = [i \in Items(t) |->
                                      IF @[i] = "none" THEN Arrives(t) ELSE @[i]]]
  BY DEF DownloadFails
<1>2. /\ setup' = setup /\ session' = session /\ cur' = cur /\ pos' = pos /\ files' = files
      /\ pc = "downloading" /\ pc' = "failed"
  BY DEF DownloadFails, works, plans
<1>3. /\ Streams' = Streams
      /\ \A s : Stream(s)' = Stream(s) /\ Items(s)' = Items(s) /\ InOrder(s)' = InOrder(s)
  BY <1>2, SetupKept
<1>4. /\ DOMAIN temp' = Streams
      /\ \A s \in Streams : DOMAIN temp'[s] = Items(s) /\ \A i \in Items(s) :
           temp'[s][i] \in {temp[s][i], Arrives(s)}
  BY <1>1 DEF Inv, TypeInv
<1>5. TypeInv'
  BY <1>2, <1>3, <1>4 DEF Inv, TypeInv, Labels, Early, Late, Final, Downloaded, InStream, Chosen
<1>6. ASSUME session <= 1, NEW s \in Streams, NEW i \in Items(s)
      PROVE  temp'[s][i] # "bad"
  <2>1. temp[s][i] = "none"
    BY <1>2, <1>6 DEF Inv, FirstInv, Early
  <2>2. Arrives(s) # "bad"
    BY DEF Arrives
  <2> QED BY <1>4, <2>1, <2>2
<1>7. \A s, i : ~ToCome(s, i)'
  BY <1>2 DEF ToCome, Downloaded, InStream
<1>8. FirstInv'
  <2>1. pc' \notin Early
    BY <1>2 DEF Early
  <2> QED BY <1>2, <1>3, <1>6, <1>7, <2>1 DEF Inv, FirstInv
<1> QED BY <1>5, <1>8 DEF Inv

\* The file in place k is the one of segment k, and it was not decrypted before.
LEMMA DecryptKeeps ==
  ASSUME Inv, DecryptSegment
  PROVE  Inv'
<1> DEFINE i == FilesToDecrypt(cur)[pos + 1]
<1>1. /\ setup' = setup /\ session' = session /\ cur' = cur /\ pos' = pos + 1 /\ files' = files
      /\ pc = "decrypting" /\ pc' = pc /\ pos < Len(FilesToDecrypt(cur))
      /\ temp' = [temp EXCEPT ![cur][i] = Decrypted(temp[cur][i], i, pos + 1)]
  BY DEF DecryptSegment, plans
<1>2. /\ Streams' = Streams
      /\ \A s : Stream(s)' = Stream(s) /\ Items(s)' = Items(s) /\ InOrder(s)' = InOrder(s)
  BY <1>1, SetupKept
<1>3. cur \in Streams /\ pos \in Nat
  BY <1>1 DEF Inv, TypeInv
<1> HIDE DEF i
<1>4. /\ DOMAIN temp' = Streams /\ \A s \in Streams : DOMAIN temp'[s] = Items(s)
      /\ \A s \in Streams : s # cur => temp'[s] = temp[s]
      /\ \A j \in Items(cur) : j # i => temp'[cur][j] = temp[cur][j]
      /\ i \in Items(cur) => temp'[cur][i] = Decrypted(temp[cur][i], i, pos + 1)
  BY <1>1, <1>3 DEF Inv, TypeInv
<1>5. TypeInv'
  BY <1>1, <1>2, <1>4 DEF Inv, TypeInv
<1>6. \A s : Complete(s)' = Complete(s)
  BY <1>1, <1>2 DEF Complete
<1>7. ASSUME session <= 1, Complete(cur)
      PROVE  /\ \A j \in Items(cur) : temp'[cur][j] # "bad"
             /\ Stream(cur).cipher = "aes" => \A j \in 1..Stream(cur).n :
                  j > pos + 1 => temp'[cur][j] = "cipher"
  <2>1. Stream(cur).cipher = "aes"
    <3>1. CASE Stream(cur).cipher # "aes"
      <4>1. FilesToDecrypt(cur) = <<>>
        BY <3>1 DEF FilesToDecrypt
      <4>2. Len(<<>>) = 0
        OBVIOUS
      <4> QED BY <1>1, <1>3, <4>1, <4>2
    <3> QED BY <3>1
  <2>2. /\ Len(FilesToDecrypt(cur)) <= Stream(cur).n
        /\ \A k \in 1..Len(FilesToDecrypt(cur)) : FilesToDecrypt(cur)[k] = k
    BY <1>3, <1>7, <2>1, CompleteInOrder DEF Inv, FirstInv
  <2>3. Len(FilesToDecrypt(cur)) \in Nat
    BY <1>3, <1>7, <2>1, CompleteInOrder DEF Inv, FirstInv
  <2>4. i = pos + 1 /\ pos + 1 \in 1..Stream(cur).n
    BY <1>1, <1>3, <2>2, <2>3, StreamsShape DEF i, Inv, TypeInv
  <2>5. temp[cur][i] = "cipher" /\ i \in Items(cur)
    <3>1. i \in Items(cur)
      BY <1>3, <2>4, Numbered DEF Inv
    <3>2. ToCome(cur, i)
      BY <1>1, <1>3, <2>4 DEF ToCome
    <3> QED BY <1>3, <1>7, <2>1, <2>4, <3>1, <3>2 DEF Inv, FirstInv
  <2>6. temp'[cur][i] = "clear"
    BY <1>4, <2>4, <2>5 DEF Decrypted
  <2>7. \A j \in Items(cur) : temp'[cur][j] # "bad"
    BY <1>3, <1>4, <1>7, <2>6 DEF Inv, FirstInv
  <2>8. ASSUME NEW j \in 1..Stream(cur).n, j > pos + 1 PROVE temp'[cur][j] = "cipher"
    <3>1. ToCome(cur, j) /\ j # i /\ j \in Items(cur)
      BY <1>1, <1>3, <2>4, <2>8, Numbered DEF ToCome, Inv
    <3> QED BY <1>3, <1>4, <1>7, <2>1, <3>1 DEF Inv, FirstInv
  <2> QED BY <2>7, <2>8
<1>8. \A s, j : ToCome(s, j)' => s > cur \/ (s = cur /\ j > pos + 1)
  BY <1>1 DEF ToCome, Downloaded
<1>9. \A j : \A s \in Streams : s > cur => ToCome(s, j) /\ s # cur
  BY <1>1, <1>3 DEF ToCome, Streams
<1>10. FirstInv'
  <2>1. SUFFICES ASSUME session <= 1, NEW s \in Streams
                 PROVE  /\ files[s] # <<>> => files[s] \in InOrder(s)
                        /\ Complete(s) => \A j \in Items(s) : temp'[s][j] # "bad"
                        /\ Complete(s) /\ Stream(s).cipher = "aes" =>
                             \A j \in 1..Stream(s).n : ToCome(s, j)' => temp'[s][j] = "cipher"
    <3>1. pc' \notin Early
      BY <1>1 DEF Early
    <3> QED BY <1>1, <1>2, <1>6, <2>1, <3>1 DEF FirstInv
  <2>2. CASE s = cur
    <3>1. \A j : ToCome(s, j)' => j > pos + 1
      BY <1>3, <1>8, <2>2 DEF Streams
    <3> QED BY <1>7, <2>1, <2>2, <3>1 DEF Inv, FirstInv
  <2>3. CASE s # cur
    <3>1. \A j : ToCome(s, j)' => ToCome(s, j)
      BY <1>8, <1>9, <2>3
    <3> QED BY <1>4, <2>1, <2>3, <3>1 DEF Inv, FirstInv
  <2> QED BY <2>2, <2>3
<1> QED BY <1>5, <1>10 DEF Inv

\* Steps that delete files of the stream in work.
LEMMA DropGoes ==
  ASSUME Inv, DropImageSegments \/ DropGrouped \/ ClearTemp
  PROVE  Goes
<1>1. /\ setup' = setup /\ session' = session /\ files' = files /\ cur' = cur
      /\ pos' \in Nat
  <2>1. CASE DropImageSegments \/ ClearTemp
    BY <2>1 DEF DropImageSegments, ClearTemp, plans, works, Inv, TypeInv
  <2>2. CASE DropGrouped
    BY <2>2, SessionAssumption DEF DropGrouped, plans, Inv, TypeInv
  <2> QED BY <2>1, <2>2
<1>2. CASE ClearTemp
  <2>1. pc = "clearing" /\ pc' = "finished"
    BY <1>2 DEF ClearTemp
  <2>2. /\ DOMAIN temp' = Streams /\ \A s \in Streams : DOMAIN temp'[s] = Items(s)
        /\ \A s \in Streams : \A i \in Items(s) : temp'[s][i] \in {temp[s][i], "none"}
    BY <1>2 DEF ClearTemp, Inv, TypeInv
  <2>3. \A s, i : ~ToCome(s, i)'
    BY <2>1 DEF ToCome, Downloaded, InStream
  <2> QED BY <1>1, <2>1, <2>2, <2>3 DEF Goes, Inv, TypeInv, Labels, Early, Late, Final, InStream, Chosen, Downloaded
<1>3. CASE DropImageSegments \/ DropGrouped
  <2>1. pc \in InStream /\ pc' \in InStream /\ cur \in Streams
    BY <1>3 DEF DropImageSegments, DropGrouped, InStream, Inv, TypeInv
  <2>2. /\ DOMAIN temp' = Streams /\ \A s \in Streams : DOMAIN temp'[s] = Items(s)
        /\ \A s \in Streams : s # cur => temp'[s] = temp[s]
        /\ \A i \in Items(cur) : temp'[cur][i] \in {temp[cur][i], "none"}
    <3>1. CASE DropImageSegments
      BY <2>1, <3>1 DEF DropImageSegments, Inv, TypeInv
    <3>2. CASE DropGrouped
      <4>1. temp' = [temp EXCEPT ![cur] = [i \in Items(cur) |->
                       IF i \in ToSet(Chunk(cur)) THEN "none" ELSE temp[cur][i]]]
        BY <3>2 DEF DropGrouped
      <4> QED BY <2>1, <4>1 DEF Inv, TypeInv
    <3> QED BY <1>3, <3>1, <3>2
  <2>3. pc' \notin Downloaded /\ pc' # "decrypting"
    BY <2>1 DEF InStream, Downloaded
  <2>4. ASSUME NEW s \in Streams, NEW i, ToCome(s, i)'
        PROVE  s # cur /\ ToCome(s, i)
    <3>1. s > cur
      BY <1>1, <2>3, <2>4 DEF ToCome
    <3>2. s # cur
      BY <2>1, <3>1 DEF Streams
    <3> QED BY <2>1, <3>1, <3>2 DEF ToCome
  <2>5. pc' \in Labels /\ pc' \notin Early /\ pc # "idle" /\ pc' # "idle" /\ pc' \notin Chosen
    BY <2>1 DEF Labels, InStream, Early, Chosen, Downloaded
  <2> QED BY <1>1, <2>1, <2>2, <2>4, <2>5 DEF Goes, Inv, TypeInv
<1> QED BY <1>2, <1>3

LEMMA CloseGoes ==
  ASSUME Inv, CloseStream
  PROVE  Goes
<1>1. UNCHANGED <<setup, session, files>> /\ pc \in InStream /\ NextStream(merged')
  BY DEF CloseStream, plans, InStream
<1>2. cur \in Streams
  BY <1>1 DEF Inv, TypeInv
<1>3. temp' = [temp EXCEPT ![cur] = [i \in Items(cur) |-> "none"]] \/ temp' = temp
  BY DEF CloseStream
<1>4. /\ DOMAIN temp' = Streams /\ \A s \in Streams : DOMAIN temp'[s] = Items(s)
      /\ \A s \in Streams : temp'[s] = temp[s] \/ s = cur
      /\ \A i \in Items(cur) : temp'[cur][i] \in {temp[cur][i], "none"}
  BY <1>2, <1>3 DEF Inv, TypeInv
<1> QED BY <1>1, <1>4, NextGoes

\* A file that is torn ends the session, and no turn comes any more.
LEMMA TearsGoes ==
  ASSUME Inv, DecryptTears
  PROVE  Goes
<1>1. /\ UNCHANGED <<setup, session, files, cur, pos>> /\ pc = "decrypting" /\ pc' = "failed"
      /\ \E i : temp' = [temp EXCEPT ![cur][i] = "torn"]
  BY DEF DecryptTears, plans, works
<1>2. \A s, i : ~ToCome(s, i)'
  BY <1>1 DEF ToCome, Downloaded, InStream
<1>3. /\ DOMAIN temp' = Streams
      /\ \A s \in Streams : DOMAIN temp'[s] = Items(s)
      /\ \A s \in Streams : \A i \in Items(s) : temp'[s][i] \in {temp[s][i], "torn"}
  BY <1>1 DEF Inv, TypeInv
<1>4. pc' \in Labels /\ pc' \notin Early \cup InStream \cup {"decrypting", "idle"} \cup Chosen
  BY <1>1 DEF Labels, Late, Final, Early, InStream, Chosen, Downloaded
<1> QED BY <1>1, <1>2, <1>3, <1>4 DEF Goes, Inv, TypeInv

LEMMA StepKeeps == Inv /\ [Next]_vars => Inv'
<1> SUFFICES ASSUME Inv, [Next]_vars PROVE Inv'
  OBVIOUS
<1>1. CASE Begin
  BY <1>1, BeginKeeps
<1>2. CASE Download
  BY <1>2, DownloadKeeps
<1>3. CASE DownloadFails
  BY <1>3, DownloadFailsKeeps
<1>4. CASE DecryptSegment
  BY <1>4, DecryptKeeps
<1>5. CASE DropImageSegments \/ DropGrouped \/ ClearTemp
  BY <1>5, DropGoes, GoesOn
<1>6. CASE CloseStream
  BY <1>6, CloseGoes, GoesOn
<1>7. CASE SkipMerge
  <2>1. UNCHANGED <<setup, session, files, temp>> /\ pc \in InStream /\ NextStream(merged)
    BY <1>7 DEF SkipMerge, plans, data, InStream
  <2> QED BY <2>1, NextGoes, GoesOn DEF Inv, TypeInv
<1>8. CASE Finalize
  <2>1. /\ UNCHANGED <<setup, session, files, temp>> /\ pc = "probed" /\ pc' = "decrypting"
        /\ cur' = 1 /\ pos' = 0
    BY <1>8 DEF Finalize, plans, data
  <2>2. \A s, i : ToCome(s, i)
    BY <2>1 DEF ToCome, Downloaded
  <2>3. 1 \in Streams
    BY <2>1 DEF Inv, TypeInv, Chosen, Downloaded
  <2>4. Goes
    BY <2>1, <2>2, <2>3 DEF Goes, Inv, TypeInv, Labels, Early, Chosen, Downloaded
  <2> QED BY <2>4, GoesOn
<1>9. CASE DecryptionDone
  <2>1. /\ UNCHANGED <<setup, session, files, temp, cur>> /\ pc = "decrypting" /\ pos' = 0
        /\ pc' \in InStream
    BY <1>9 DEF DecryptionDone, AfterDecrypt, plans, data, InStream
  <2>2. \A s, i : ToCome(s, i)' => ToCome(s, i)
    BY <2>1 DEF ToCome, Downloaded, InStream
  <2>3. pc' \in Labels /\ pc' \notin Early /\ pc' # "idle" /\ pc' \notin Chosen
    BY <2>1 DEF Labels, InStream, Early, Chosen, Downloaded
  <2>4. Goes
    BY <2>1, <2>2, <2>3 DEF Goes, Inv, TypeInv
  <2> QED BY <2>4, GoesOn
<1>10. CASE UNCHANGED vars
  <2>1. UNCHANGED <<setup, session, files, temp, cur, pos, pc>>
    BY <1>10 DEF vars
  <2>2. \A s, i : ToCome(s, i)' => ToCome(s, i)
    BY <2>1 DEF ToCome
  <2>3. Goes
    BY <2>1, <2>2 DEF Goes, Inv, TypeInv
  <2> QED BY <2>3, GoesOn
<1>11. CASE Wait \/ LoadSource \/ LoadFails \/ Pause \/ Select \/ SkipDownload \/ GoDownload
  <2>1. UNCHANGED <<setup, session, temp, files, cur, pos>>
    BY <1>11 DEF Wait, LoadSource, LoadFails, Pause, Select, SkipDownload, GoDownload, Goto,
                 plans, data, works
  <2>2. /\ pc # "idle" /\ pc \in Early
        /\ pc' \in {"loading", "loaded", "failed", "pausing", "refused", "selected",
                   "finished", "downloading"}
        /\ pc' \in Chosen => pc \in Chosen \/ setup.streams # <<>>
    <3>1. CASE Wait \/ LoadSource \/ LoadFails \/ Pause
      BY <3>1 DEF Wait, LoadSource, LoadFails, Pause, Goto, Early, Chosen, Downloaded
    <3>2. CASE Select \/ SkipDownload \/ GoDownload
      BY <3>2 DEF Select, SkipDownload, GoDownload, Goto, Early, Chosen, Downloaded
    <3> QED BY <1>11, <3>1, <3>2
  <2>3. (pc' \in Early /\ pc' # "idle") \/ pc' \in Late
    BY <2>2 DEF Early, Late, Final
  <2> QED BY <2>1, <2>2, <2>3, QuietGoes, GoesOn
<1>12. CASE Cancel \/ NoticeCancel \/ WriteTears \/ Crash
  <2>1. UNCHANGED <<setup, session, temp, files, cur, pos>> /\ pc # "idle"
    BY <1>12 DEF Cancel, NoticeCancel, WriteTears, Crash, Goto, Checks, Running, plans, data, works
  <2>2. pc' = pc \/ pc' \in Late
    BY <1>12 DEF Cancel, NoticeCancel, WriteTears, Crash, Goto, Late, Final
  <2> QED BY <2>1, <2>2, QuietGoes, GoesOn
<1>13. CASE Probe \/ Reserve
  <2>1. /\ UNCHANGED <<setup, session, temp, files, cur, pos>> /\ pc # "idle"
        /\ pc \in Downloaded /\ pc' \in Downloaded
    BY <1>13 DEF Probe, Reserve, data, works, Downloaded
  <2> QED BY <2>1, QuietGoes, GoesOn
<1>14. CASE SavePngs \/ WriteSubtitle \/ CombineGroup \/ GroupsDone \/ BinaryMerge
            \/ StartMerge \/ NothingToMerge \/ MergeEnds
  <2>1. UNCHANGED <<setup, session, temp, files, cur, pos>>
    <3>1. CASE SavePngs \/ WriteSubtitle \/ CombineGroup \/ GroupsDone
      BY <3>1 DEF SavePngs, WriteSubtitle, CombineGroup, GroupsDone, Goto, plans, data, works
    <3>2. CASE BinaryMerge \/ StartMerge \/ NothingToMerge \/ MergeEnds
      BY <3>2 DEF BinaryMerge, StartMerge, NothingToMerge, MergeEnds, Goto, plans, data, works
    <3> QED BY <1>14, <3>1, <3>2
  <2>2. pc \in InStream /\ pc # "idle" /\ (pc' \in InStream \/ pc' \in Late)
    <3>1. CASE SavePngs \/ WriteSubtitle \/ CombineGroup \/ GroupsDone
      BY <3>1 DEF SavePngs, WriteSubtitle, CombineGroup, GroupsDone, Goto, InStream
    <3>2. CASE BinaryMerge \/ StartMerge \/ NothingToMerge \/ MergeEnds
      BY <3>2 DEF BinaryMerge, StartMerge, NothingToMerge, MergeEnds, Goto, InStream, Late, Final
    <3> QED BY <1>14, <3>1, <3>2
  <2> QED BY <2>1, <2>2, QuietGoes, GoesOn
<1>15. CASE LeaveEncrypted \/ StartDecrypt \/ DecryptEnds \/ DecryptFails \/ DecryptCancelled
            \/ RemoveSource \/ RenameDecrypted
  <2>1. UNCHANGED <<setup, session, temp, files, cur, pos>>
    <3>1. CASE LeaveEncrypted \/ StartDecrypt \/ RemoveSource \/ RenameDecrypted
      BY <3>1 DEF LeaveEncrypted, StartDecrypt, RemoveSource, RenameDecrypted, Goto,
                  plans, data, works
    <3>2. CASE DecryptEnds \/ DecryptFails \/ DecryptCancelled
      BY <3>2 DEF DecryptEnds, DecryptFails, DecryptCancelled, plans, works
    <3> QED BY <1>15, <3>1, <3>2
  <2>2. pc \in InStream /\ pc # "idle" /\ (pc' \in InStream \/ pc' \in Late)
    <3>1. CASE LeaveEncrypted \/ StartDecrypt \/ RemoveSource \/ RenameDecrypted
      BY <3>1 DEF LeaveEncrypted, StartDecrypt, RemoveSource, RenameDecrypted, Goto, InStream
    <3>2. CASE DecryptEnds \/ DecryptFails \/ DecryptCancelled
      BY <3>2 DEF DecryptEnds, DecryptFails, DecryptCancelled, InStream, Late, Final
    <3> QED BY <1>15, <3>1, <3>2
  <2> QED BY <2>1, <2>2, QuietGoes, GoesOn
<1>16. CASE ToolCancelled \/ ToolFails \/ StartMux \/ Forge \/ ForgeFails \/ MuxEnds
            \/ Sweep \/ NameOutput
  <2>1. UNCHANGED <<setup, session, temp, files, cur, pos>>
    <3>1. CASE ToolCancelled \/ ToolFails \/ StartMux \/ Forge
      BY <3>1 DEF ToolCancelled, ToolFails, StartMux, Forge, plans, data, works
    <3>2. CASE ForgeFails \/ MuxEnds \/ Sweep \/ NameOutput
      BY <3>2 DEF ForgeFails, MuxEnds, Sweep, NameOutput, plans, data, works
    <3> QED BY <1>16, <3>1, <3>2
  <2>2. pc # "idle" /\ pc' \in Late
    <3>1. CASE ToolCancelled \/ ToolFails \/ StartMux \/ Forge
      BY <3>1 DEF ToolCancelled, ToolFails, StartMux, Forge, Late, Final
    <3>2. CASE ForgeFails \/ MuxEnds \/ Sweep \/ NameOutput
      BY <3>2 DEF ForgeFails, MuxEnds, Sweep, NameOutput, Late, Final
    <3> QED BY <1>16, <3>1, <3>2
  <2> QED BY <2>1, <2>2, QuietGoes, GoesOn
<1>17. CASE DecryptTears
  BY <1>17, TearsGoes, GoesOn
<1> QED
  BY <1>1, <1>2, <1>3, <1>4, <1>5, <1>6, <1>7, <1>8, <1>9, <1>10, <1>11, <1>12, <1>13, <1>14,
     <1>15, <1>16, <1>17 DEF Next, Steps, ToolEnds

LEMMA InitHolds == Init => Inv
<1> SUFFICES ASSUME Init PROVE Inv
  OBVIOUS
<1>1. /\ setup \in Setups /\ pc = "idle" /\ session = 0 /\ cur = 0 /\ pos = 0
      /\ temp = [s \in Streams |-> [i \in Items(s) |-> "none"]]
      /\ files = [s \in Streams |-> <<>>]
  BY DEF Init
<1>2. TypeInv
  <2>1. /\ pc \in Labels /\ pc \notin InStream \cup {"decrypting"} /\ pc \notin Chosen
    BY <1>1 DEF Labels, Early, InStream, Chosen, Downloaded
  <2> QED BY <1>1, <2>1 DEF TypeInv
<1>3. \A s, i : ~ToCome(s, i)
  BY <1>1 DEF ToCome, Downloaded, InStream
<1>4. FirstInv
  BY <1>1, <1>3 DEF FirstInv
<1> QED BY <1>2, <1>4 DEF Inv

\* The first session on a directory decrypts each segment of a complete stream once and
\* with its own key and IV: finalize_downloads finds the file of segment k in place k,
\* as the server sent it, whatever happened before and however long the stream is.
THEOREM DecryptsOnce == Spec => []DecryptedOnce
<1>1. Spec => Init /\ [][Next]_vars
  BY PTL DEF Spec
<1>2. Inv => DecryptedOnce
  BY DEF Inv, FirstInv, DecryptedOnce, Complete
<1> QED BY <1>1, <1>2, InitHolds, StepKeeps, PTL

-----------------------------------------------------------------------------
(* Names.                                                                      *)

Copies(p, k) == [p EXCEPT !.name = @ \o [j \in 1..k |-> "copy"]]

LEMMA CopyPath ==
  ASSUME NEW p \in Path, NEW k \in Nat
  PROVE  /\ Copies(p, k) \in Path /\ Copies(p, k).ext = p.ext
         /\ Len(Copies(p, k).name) = Len(p.name) + k
         /\ PlainName(p.name) => PlainName(Copies(p, k).name)
<1> DEFINE c == [j \in 1..k |-> "copy"]
<1>1. c \in Seq(Words) /\ Len(c) = k /\ \A j \in 1..k : c[j] = "copy"
  <2>1. c \in [1..k -> Words]
    <3>1. \A j \in 1..k : c[j] \in Words
      <4>1. \A j \in 1..k : c[j] = "copy"
        OBVIOUS
      <4>2. "copy" \in Words
        BY WordsAssumption
      <4> QED BY <4>1, <4>2, Zenon
    <3>2. c = [j \in 1..k |-> c[j]]
      OBVIOUS
    <3> HIDE DEF c
    <3> QED BY <3>1, <3>2, Zenon
  <2>2. c \in Seq(Words)
    BY <2>1, SeqDef, Zenon
  <2>3. Len(c) = k
    BY <2>1, <2>2, LenProperties
  <2> QED BY <2>2, <2>3
<1> HIDE DEF c
<1>2. p.name \in Seq(Words) /\ p = [name |-> p.name, ext |-> p.ext] /\ p.ext \in Words
  BY DEF Path
<1>3. Copies(p, k) = [name |-> p.name \o c, ext |-> p.ext]
  <2>1. Copies(p, k) = [p EXCEPT !.name = p.name \o c]
    BY DEF Copies, c
  <2> QED BY <1>2, <2>1
<1>4. /\ p.name \o c \in Seq(Words) /\ Len(p.name \o c) = Len(p.name) + k
      /\ \A i \in 1..Len(p.name \o c) : (p.name \o c)[i] =
            IF i <= Len(p.name) THEN p.name[i] ELSE c[i - Len(p.name)]
  BY <1>1, <1>2, ConcatProperties
<1>5. ASSUME PlainName(p.name) PROVE PlainName(p.name \o c)
  <2>1. ASSUME NEW i \in DOMAIN (p.name \o c) PROVE (p.name \o c)[i] \notin Working
    <3>1. i \in 1..Len(p.name \o c) /\ Len(p.name) \in Nat
      BY <1>2, <1>4, LenProperties
    <3>2. CASE i <= Len(p.name)
      <4>1. i \in DOMAIN p.name /\ (p.name \o c)[i] = p.name[i]
        BY <1>2, <1>4, <3>1, <3>2, LenProperties
      <4> QED BY <4>1, <1>5 DEF PlainName, Range
    <3>3. CASE ~(i <= Len(p.name))
      <4>1. (p.name \o c)[i] = c[i - Len(p.name)] /\ i - Len(p.name) \in 1..k
        BY <1>4, <3>1, <3>3
      <4> QED BY <4>1, <1>1 DEF Working
    <3> QED BY <3>2, <3>3
  <2> QED BY <2>1 DEF PlainName, Range
<1> QED BY <1>2, <1>3, <1>4, <1>5 DEF Path

\* There are enough numbers of copies for one to be free.
LEMMA FreeCopies ==
  ASSUME NEW p \in Path, NEW taken, IsFiniteSet(taken)
  PROVE  /\ WithCopies(p, taken) \in Path /\ WithCopies(p, taken) \notin taken
         /\ PlainName(p.name) => PlainName(WithCopies(p, taken).name)
<1> DEFINE N == Cardinality(taken)
           Free(k) == Copies(p, k) \notin taken /\ \A j \in 0..(k - 1) : Copies(p, j) \in taken
<1>1. N \in Nat
  BY FS_CardinalityType
<1>2. \E k \in 0..N : Copies(p, k) \notin taken
  <2>1. SUFFICES ASSUME \A k \in 0..N : Copies(p, k) \in taken PROVE FALSE
    OBVIOUS
  <2> DEFINE f == [k \in 0..N |-> Copies(p, k)]
  <2>2. f \in [0..N -> taken]
    BY <2>1
  <2>3. IsFiniteSet(0..N) /\ Cardinality(0..N) = N + 1
    BY <1>1, FS_Interval
  <2>4. PICK x, y \in 0..N : x # y /\ f[x] = f[y]
    <3> HIDE DEF f
    <3>1. N < N + 1
      BY <1>1
    <3> QED BY <2>2, <2>3, <3>1, FS_PigeonHole
  <2>5. Len(p.name) + x = Len(p.name) + y
    <3>1. x \in Nat /\ y \in Nat /\ Copies(p, x) = Copies(p, y)
      BY <1>1, <2>4
    <3> QED BY <3>1, CopyPath
  <2>6. Len(p.name) \in Nat
    BY LenProperties DEF Path
  <2> QED BY <1>1, <2>4, <2>5, <2>6
<1>3. \E k \in 0..N : Free(k)
  <2> DEFINE R == {ss \in Nat \X Nat : ss[1] < ss[2]}
             B == {k \in 0..N : Copies(p, k) \notin taken}
  <2>1. IsWellFoundedOn(R, Nat)
    BY NatLessThanWellFounded, Zenon DEF OpToRel
  <2> HIDE DEF R
  <2>2. B # {} /\ B \subseteq Nat
    BY <1>1, <1>2
  <2>3. PICK k \in B : \A y \in B : ~(<<y, k>> \in R)
    BY <2>1, <2>2, WFMin
  <2>4. ASSUME NEW j \in 0..(k - 1) PROVE Copies(p, j) \in taken
    <3>1. k \in 0..N /\ j \in 0..N /\ <<j, k>> \in R
      BY <1>1, <2>3 DEF R
    <3> QED BY <2>3, <3>1
  <2> QED BY <2>3, <2>4
<1> DEFINE K == CHOOSE k \in 0..N : Free(k)
<1>4. K \in 0..N /\ Free(K)
  <2> HIDE DEF Free
  <2> QED BY <1>3
<1>5. WithCopies(p, taken) = Copies(p, K)
  BY Zenon DEF WithCopies, Copies
<1> HIDE DEF K
<1>6. K \in Nat
  BY <1>1, <1>4
<1> QED BY <1>4, <1>5, <1>6, CopyPath

\* A path with one more part.
LEMMA LongerPath ==
  ASSUME NEW p \in Path, NEW part \in Words
  PROVE  /\ Extended(p, part) \in Path /\ Extended(p, part).ext = p.ext
         /\ Last(Extended(p, part).name) = part
         /\ part \in Range(Extended(p, part).name)
         /\ PlainName(p.name) /\ part \notin Working => PlainName(Extended(p, part).name)
<1> DEFINE q == Append(p.name, part)
<1>1. p.name \in Seq(Words) /\ p = [name |-> p.name, ext |-> p.ext] /\ p.ext \in Words
  BY DEF Path
<1>2. Extended(p, part) = [name |-> q, ext |-> p.ext]
  BY <1>1 DEF Extended
<1>3. /\ q \in Seq(Words) /\ Len(q) = Len(p.name) + 1 /\ q[Len(p.name) + 1] = part
      /\ \A i \in 1..Len(p.name) : q[i] = p.name[i]
  BY <1>1, AppendProperties
<1> HIDE DEF q
<1>4. Len(p.name) \in Nat /\ DOMAIN q = 1..(Len(p.name) + 1) /\ DOMAIN p.name = 1..Len(p.name)
  BY <1>1, <1>3, LenProperties
<1>5. ASSUME PlainName(p.name), part \notin Working PROVE PlainName(q)
  <2>1. ASSUME NEW i \in DOMAIN q PROVE q[i] \notin Working
    <3>1. i = Len(p.name) + 1 \/ i \in 1..Len(p.name)
      BY <1>4
    <3> QED BY <1>3, <1>4, <1>5, <3>1 DEF PlainName, Range
  <2> QED BY <2>1 DEF PlainName, Range
<1>6. Last(q) = part /\ part \in Range(q)
  BY <1>3, <1>4 DEF Last, Range
<1> QED BY <1>1, <1>2, <1>3, <1>5, <1>6 DEF Path

LEMMA FreeOne ==
  ASSUME NEW p \in Path, NEW s, Stream(s).label \in Words \cup {""}, NEW reserved,
         IsFiniteSet(reserved), IsFiniteSet(DOMAIN disk)
  PROVE  LET q == FreePath(p, s, reserved)
         IN /\ q \in Path /\ q \notin reserved /\ q \notin DOMAIN disk
            /\ PlainName(p.name) /\ Stream(s).label \notin Working => PlainName(q.name)
<1> DEFINE taken == reserved \cup DOMAIN disk
           q == FreePath(p, s, reserved)
           labelled == Extended(p, Stream(s).label)
<1>1. IsFiniteSet(taken)
  BY FS_Union
<1>2. Stream(s).label # "" =>
        /\ labelled \in Path
        /\ PlainName(p.name) /\ Stream(s).label \notin Working => PlainName(labelled.name)
  <2>1. Stream(s).label # "" => Stream(s).label \in Words
    OBVIOUS
  <2> QED BY <2>1, LongerPath
<1> HIDE DEF labelled
<1>3. \/ q = p /\ p \notin taken
      \/ q = labelled /\ labelled \notin taken /\ Stream(s).label # ""
      \/ q = WithCopies(p, taken)
  BY DEF FreePath, labelled
<1>4. /\ WithCopies(p, taken) \in Path /\ WithCopies(p, taken) \notin taken
      /\ PlainName(p.name) => PlainName(WithCopies(p, taken).name)
  BY <1>1, FreeCopies
<1> HIDE DEF q
<1> QED BY <1>2, <1>3, <1>4 DEF q

\* What a step does to the files: nothing outside a set of paths.
Differ(f, g, K) == \A p : p \notin K => /\ p \in DOMAIN f <=> p \in DOMAIN g
                                        /\ p \in DOMAIN f => f[p] = g[p]

LEMMA PutTouches ==
  ASSUME NEW f, IsFiniteSet(DOMAIN f), NEW k, NEW v
  PROVE  /\ Differ(f, Put(f, k, v), {k}) /\ IsFiniteSet(DOMAIN Put(f, k, v))
         /\ k \in DOMAIN Put(f, k, v) /\ Put(f, k, v)[k] = v
<1>1. IsFiniteSet(DOMAIN f \cup {k})
  BY FS_AddElement
<1>2. DOMAIN Put(f, k, v) = DOMAIN f \cup {k}
  BY DEF Put
<1> QED BY <1>1, <1>2 DEF Put, Differ

LEMMA DeletedTouches ==
  ASSUME NEW f, IsFiniteSet(DOMAIN f), NEW K
  PROVE  Differ(f, Deleted(f, K), K) /\ IsFiniteSet(DOMAIN Deleted(f, K))
<1>1. DOMAIN Deleted(f, K) = DOMAIN f \ K
  BY DEF Deleted, Restrict
<1>2. IsFiniteSet(DOMAIN f \ K)
  BY FS_Difference
<1> QED BY <1>1, <1>2 DEF Deleted, Restrict, Differ

LEMMA MoveTouches ==
  ASSUME NEW f, IsFiniteSet(DOMAIN f), NEW from, NEW to
  PROVE  /\ Differ(f, Move(f, from, to), {from, to}) /\ IsFiniteSet(DOMAIN Move(f, from, to))
         /\ to \in DOMAIN Move(f, from, to) /\ Move(f, from, to)[to] = f[from]
<1>1. Differ(f, Deleted(f, {from}), {from}) /\ IsFiniteSet(DOMAIN Deleted(f, {from}))
  BY DeletedTouches
<1>2. /\ Differ(Deleted(f, {from}), Move(f, from, to), {to})
      /\ IsFiniteSet(DOMAIN Move(f, from, to))
      /\ to \in DOMAIN Move(f, from, to) /\ Move(f, from, to)[to] = f[from]
  BY <1>1, PutTouches DEF Move
<1> QED BY <1>1, <1>2 DEF Differ

\* The files the tools of a stream work on.
WorkPaths == {target, AsidePath(target), DecPath(target)}

LEMMA RestoredTouches ==
  ASSUME IsFiniteSet(DOMAIN disk)
  PROVE  Differ(disk, Restored, WorkPaths) /\ IsFiniteSet(DOMAIN Restored)
<1>1. CASE setup.engine = "mp4decrypt"
  <2>1. Differ(disk, Restored, {AsidePath(target), target}) /\ IsFiniteSet(DOMAIN Restored)
    BY <1>1, MoveTouches DEF Restored
  <2> QED BY <2>1 DEF Differ, WorkPaths
<1>2. CASE setup.engine # "mp4decrypt"
  <2>1. Restored = disk
    BY <1>2 DEF Restored
  <2> QED BY <2>1 DEF Differ
<1> QED BY <1>1, <1>2

LEMMA AbortedTouches ==
  ASSUME IsFiniteSet(DOMAIN disk), Aborted(disk')
  PROVE  Differ(disk, disk', WorkPaths) /\ IsFiniteSet(DOMAIN disk')
<1>1. CASE disk' = Restored
  BY <1>1, RestoredTouches
<1>2. CASE disk' = Put(disk, DecPath(target), Torn)
  <2>1. Differ(disk, disk', {DecPath(target)}) /\ IsFiniteSet(DOMAIN disk')
    BY <1>2, PutTouches
  <2> QED BY <2>1 DEF Differ, WorkPaths
<1> QED BY <1>1, <1>2 DEF Aborted

\* Which files a step can change.
Touches ==
  \/ disk' = disk
  \/ pc \in {"subtitling", "writing", "merging"} /\ Differ(disk, disk', {out[cur]})
  \/ pc = "ffmpeg merging" /\ Differ(disk, disk', {target})
  \/ pc \in {"deciphering", "decrypt tool", "removing", "renaming"}
     /\ Differ(disk, disk', WorkPaths)
  \/ pc \in {"forging", "tool muxing"} /\ Differ(disk, disk', {target}) /\ target \in DOMAIN disk'
  \/ pc = "sweeping" /\ Differ(disk, disk', MuxPaths \ {target})
  \/ /\ pc = "naming" /\ Differ(disk, disk', {target, FinalPath(target)})
     /\ FinalPath(target) # target /\ FinalPath(target) \notin DOMAIN disk

LEMMA StepTouches ==
  ASSUME [Next]_vars, IsFiniteSet(DOMAIN disk)
  PROVE  Touches /\ IsFiniteSet(DOMAIN disk')
<1>1. CASE WriteSubtitle \/ BinaryMerge \/ WriteTears
  <2>1. pc \in {"subtitling", "writing", "merging"}
    BY <1>1 DEF WriteSubtitle, BinaryMerge, WriteTears
  <2>2. disk' = disk \/ \E v : disk' = Put(disk, out[cur], v)
    BY <1>1 DEF WriteSubtitle, BinaryMerge, WriteTears
  <2>3. disk' = disk \/ (Differ(disk, disk', {out[cur]}) /\ IsFiniteSet(DOMAIN disk'))
    BY <2>2, PutTouches
  <2> QED BY <2>1, <2>3 DEF Touches
<1>2. CASE MergeEnds \/ ToolCancelled \/ ToolFails \/ Forge \/ MuxEnds
  <2>1. pc \in {"ffmpeg merging", "forging", "tool muxing"}
    BY <1>2 DEF MergeEnds, ToolCancelled, ToolFails, Forge, MuxEnds
  <2>2. disk' = disk \/ \E v : disk' = Put(disk, target, v)
    BY <1>2 DEF MergeEnds, ToolCancelled, ToolFails, Forge, MuxEnds
  <2>3. \/ disk' = disk
        \/ /\ Differ(disk, disk', {target}) /\ IsFiniteSet(DOMAIN disk')
           /\ target \in DOMAIN disk'
    BY <2>2, PutTouches
  <2> QED BY <2>1, <2>3 DEF Touches
<1>3. CASE StartDecrypt
  <2>1. pc = "deciphering" /\ (disk' = disk \/ disk' = Move(disk, target, AsidePath(target)))
    BY <1>3 DEF StartDecrypt
  <2>2. CASE disk' = Move(disk, target, AsidePath(target))
    <3>1. Differ(disk, disk', {target, AsidePath(target)}) /\ IsFiniteSet(DOMAIN disk')
      BY <2>2, MoveTouches
    <3>2. Differ(disk, disk', WorkPaths)
      BY <3>1 DEF Differ, WorkPaths
    <3> QED BY <2>1, <3>1, <3>2 DEF Touches
  <2> QED BY <2>1, <2>2 DEF Touches
<1>4. CASE DecryptEnds
  <2>1. pc = "decrypt tool" /\ disk' = Put(Restored, DecPath(target), Clear(Restored[target]))
    BY <1>4 DEF DecryptEnds
  <2>2. Differ(disk, Restored, WorkPaths) /\ IsFiniteSet(DOMAIN Restored)
    BY RestoredTouches
  <2>3. Differ(Restored, disk', {DecPath(target)}) /\ IsFiniteSet(DOMAIN disk')
    BY <2>1, <2>2, PutTouches
  <2>4. Differ(disk, disk', WorkPaths)
    BY <2>2, <2>3 DEF Differ, WorkPaths
  <2> QED BY <2>1, <2>3, <2>4 DEF Touches
<1>5. CASE DecryptFails \/ DecryptCancelled
  <2>1. pc = "decrypt tool" /\ Aborted(disk')
    BY <1>5 DEF DecryptFails, DecryptCancelled
  <2> QED BY <2>1, AbortedTouches DEF Touches
<1>6. CASE RemoveSource
  <2>1. pc = "removing" /\ Differ(disk, disk', {target}) /\ IsFiniteSet(DOMAIN disk')
    BY <1>6, DeletedTouches DEF RemoveSource
  <2>2. Differ(disk, disk', WorkPaths)
    BY <2>1 DEF Differ, WorkPaths
  <2> QED BY <2>1, <2>2 DEF Touches
<1>7. CASE RenameDecrypted
  <2>1. /\ pc = "renaming" /\ Differ(disk, disk', {DecPath(target), target})
        /\ IsFiniteSet(DOMAIN disk')
    BY <1>7, MoveTouches DEF RenameDecrypted
  <2>2. Differ(disk, disk', WorkPaths)
    BY <2>1 DEF Differ, WorkPaths
  <2> QED BY <2>1, <2>2 DEF Touches
<1>8. CASE Sweep
  BY <1>8, DeletedTouches DEF Sweep, Touches
<1>9. CASE NameOutput
  <2>1. \/ disk' = disk
        \/ /\ FinalPath(target) \notin DOMAIN disk /\ FinalPath(target) # target
           /\ disk' = Move(disk, target, FinalPath(target))
    BY <1>9 DEF NameOutput
  <2> QED BY <1>9, <2>1, MoveTouches DEF NameOutput, Touches
<1>10. CASE disk' = disk
  BY <1>10 DEF Touches
<1>11. \/ WriteSubtitle \/ BinaryMerge \/ WriteTears \/ MergeEnds \/ ToolCancelled \/ ToolFails
       \/ Forge \/ MuxEnds \/ StartDecrypt \/ DecryptEnds \/ DecryptFails \/ DecryptCancelled
       \/ RemoveSource \/ RenameDecrypted \/ Sweep \/ NameOutput \/ disk' = disk
  <2>1. CASE Begin \/ Cancel \/ DecryptTears \/ Crash \/ UNCHANGED vars
    BY <2>1 DEF Begin, Cancel, DecryptTears, Crash, Goto, vars, data
  <2>2. CASE ToolEnds
    BY <2>2 DEF ToolEnds
  <2>3. CASE Steps
    <3>1. CASE Wait \/ NoticeCancel \/ LoadSource \/ LoadFails \/ Pause \/ Select
               \/ SkipDownload \/ GoDownload \/ Download \/ DownloadFails \/ Probe
      BY <3>1 DEF Wait, NoticeCancel, LoadSource, LoadFails, Pause, Select, SkipDownload,
                  GoDownload, Download, DownloadFails, Probe, Goto, data
    <3>2. CASE Reserve \/ Finalize \/ DecryptSegment \/ DecryptionDone \/ SkipMerge
               \/ SavePngs \/ DropImageSegments \/ CombineGroup \/ DropGrouped \/ GroupsDone
      BY <3>2 DEF Reserve, Finalize, DecryptSegment, DecryptionDone, SkipMerge, SavePngs,
                  DropImageSegments, CombineGroup, DropGrouped, GroupsDone, Goto, data
    <3>3. CASE StartMerge \/ NothingToMerge \/ LeaveEncrypted \/ CloseStream \/ StartMux
               \/ ForgeFails \/ ClearTemp
      BY <3>3 DEF StartMerge, NothingToMerge, LeaveEncrypted, CloseStream, StartMux,
                  ForgeFails, ClearTemp, Goto, data
    <3> QED BY <2>3, <3>1, <3>2, <3>3 DEF Steps
  <2> QED BY <2>1, <2>2, <2>3 DEF Next
<1> QED BY <1>1, <1>2, <1>3, <1>4, <1>5, <1>6, <1>7, <1>8, <1>9, <1>10, <1>11

-----------------------------------------------------------------------------
(* Where files are written: never to one that no session made.                 *)

\* A path of the session itself.
Own(p) == p \in Path /\ PlainName(p.name) /\ p \notin Foreign
\* The imported files may have been swept.
Swept == {"naming", "clearing"} \cup Final
\* A tool writes, or has written, the output of the stream in work.
Targeted == {"ffmpeg merging", "deciphering", "decrypt tool", "removing", "renaming", "closing"}

DiskInv ==
  /\ IsFiniteSet(DOMAIN disk) /\ setup.old \ Imports \subseteq DOMAIN disk
  /\ pc \notin Swept => Imports \subseteq DOMAIN disk
\* The paths that reserve_unique_output_paths has given so far.
OutInv ==
  /\ out \in Seq(Path) /\ \A k \in 1..Len(out) : Own(out[k])
  /\ \A j, k \in 1..Len(out) : j # k => out[j] # out[k]
  /\ pc \in Early \cup {"probing"} => out = <<>>
  /\ pc = "reserving" => Len(out) < Len(setup.streams)
  /\ pc \in {"probed", "decrypting"} \cup InStream => Len(out) = Len(setup.streams)
TargetInv ==
  /\ merged \in Seq([stream : Nat, path : Path])
  /\ \A k \in 1..Len(merged) : Own(merged[k].path)
  /\ pc \in Targeted => Own(target)
  /\ pc = "forging" => target = MuxTarget("mp4forge")
  /\ pc = "tool muxing" => target = MuxTarget("ffmpeg")
  /\ pc \in {"sweeping", "naming"} => target \in {MuxTarget("mp4forge"), MuxTarget("ffmpeg")}
PathInv == DiskInv /\ OutInv /\ TargetInv

LEMMA StreamWords ==
  ASSUME setup \in Setups, NEW s \in Streams
  PROVE  /\ Stream(s).lang \in Words \cup {""} /\ Stream(s).label \in Words \cup {""}
         /\ Stream(s).ext \in Words /\ setup.save \in Seq(Words) \ {<<>>}
         /\ setup.muxExt \in Words
BY SetupsAssumption DEF Streams, Stream

LEMMA StreamPlain ==
  ASSUME setup \in Setups, PlainNames, NEW s \in Streams
  PROVE  Stream(s).lang \notin Working /\ Stream(s).label \notin Working
BY DEF PlainNames, Streams, Stream

LEMMA SaveName ==
  ASSUME setup \in Setups, PlainNames
  PROVE  /\ setup.save \in Seq(Words) /\ setup.save # <<>> /\ PlainName(setup.save)
         /\ setup.muxExt \in Words /\ Foreign \subseteq Path /\ IsFiniteSet(Foreign)
         /\ \A p \in Foreign : PlainName(p.name)
<1>1. PlainName(setup.save) /\ \A p \in setup.old \cup setup.imports : PlainName(p.name)
  BY DEF PlainNames
<1> QED BY <1>1, SetupsAssumption DEF Foreign, Imports

\* Names with a part of the session's own are no names of files that were there.
LEMMA WorkApart ==
  ASSUME setup \in Setups, PlainNames, NEW p \in Path
  PROVE  /\ DecPath(p) \in Path /\ ~PlainName(DecPath(p).name)
         /\ AsidePath(p) \in Path /\ ~PlainName(AsidePath(p).name)
         /\ DecPath(p) \notin Foreign /\ AsidePath(p) \notin Foreign
<1>1. DecPath(p) \in Path /\ "_dec" \in Range(DecPath(p).name)
  BY LongerPath, WordsAssumption DEF DecPath
<1>2. AsidePath(p) \in Path /\ "haki-dl-dec" \in Range(AsidePath(p).name)
  <2>1. <<"haki-dl-dec">> \in Seq(Words) /\ Range(<<"haki-dl-dec">>) = {"haki-dl-dec"}
    BY WordsAssumption DEF Range
  <2>2. p.ext \in Words
    BY DEF Path
  <2> QED BY <2>1, <2>2 DEF AsidePath, Path
<1>3. ~PlainName(DecPath(p).name) /\ ~PlainName(AsidePath(p).name)
  BY <1>1, <1>2 DEF PlainName, Working
<1> QED BY <1>1, <1>2, <1>3, SaveName

Forged == MuxTarget("mp4forge")
Muxed == MuxTarget("ffmpeg")

LEMMA MuxNames ==
  ASSUME setup \in Setups, PlainNames
  PROVE  /\ Forged \in Path /\ PlainName(Forged.name) /\ FinalPath(Forged) = Forged
         /\ Muxed \in Path /\ ~PlainName(Muxed.name) /\ Muxed \notin Foreign
         /\ \A m : m # "mp4forge" => MuxTarget(m) = Muxed
<1>1. /\ setup.save \in Seq(Words) /\ setup.save # <<>> /\ PlainName(setup.save)
      /\ setup.muxExt \in Words /\ \A p \in Foreign : PlainName(p.name)
  BY SaveName
<1>2. /\ Forged = [name |-> setup.save, ext |-> "mp4"]
      /\ Muxed = [name |-> Append(setup.save, "MUX"), ext |-> setup.muxExt]
      /\ \A m : m # "mp4forge" => MuxTarget(m) = Muxed
  BY DEF MuxTarget, Forged, Muxed
<1>3. Forged \in Path /\ Forged.name = setup.save
  BY <1>1, <1>2, WordsAssumption DEF Path
<1>4. Last(setup.save) # "MUX"
  <2>1. Len(setup.save) \in DOMAIN setup.save
    BY <1>1, EmptySeq, LenProperties
  <2> QED BY <1>1, <2>1 DEF Last, PlainName, Range, Working
<1>5. FinalPath(Forged) = Forged
  BY <1>3, <1>4 DEF FinalPath
<1>6. Muxed \in Path /\ ~PlainName(Muxed.name)
  <2>1. /\ Append(setup.save, "MUX") \in Seq(Words)
        /\ Append(setup.save, "MUX")[Len(setup.save) + 1] = "MUX"
        /\ Len(Append(setup.save, "MUX")) = Len(setup.save) + 1 /\ Len(setup.save) \in Nat
    BY <1>1, WordsAssumption, AppendProperties, LenProperties
  <2>2. Len(setup.save) + 1 \in DOMAIN Append(setup.save, "MUX")
    BY <2>1, LenProperties
  <2>3. Muxed.name = Append(setup.save, "MUX") /\ Muxed \in Path
    BY <1>1, <1>2, <2>1 DEF Path
  <2> QED BY <2>1, <2>2, <2>3 DEF PlainName, Range, Working
<1> QED BY <1>1, <1>2, <1>3, <1>5, <1>6

LEMMA PlannedPath ==
  ASSUME setup \in Setups, PlainNames, NEW s \in Streams
  PROVE  Planned(s) \in Path /\ PlainName(Planned(s).name)
<1> DEFINE tail == IF Stream(s).lang = "" THEN <<>> ELSE <<Stream(s).lang>>
<1>1. /\ setup.save \in Seq(Words) /\ PlainName(setup.save)
      /\ Stream(s).lang \in Words \cup {""} /\ Stream(s).ext \in Words
      /\ Stream(s).lang \notin Working
  BY SaveName, StreamWords, StreamPlain
<1>2. /\ tail \in Seq(Words) /\ Len(tail) \in {0, 1}
      /\ \A i \in 1..Len(tail) : tail[i] \notin Working
  <2>1. CASE Stream(s).lang = ""
    <3>1. tail = <<>>
      BY <2>1
    <3>2. Len(<<>>) = 0 /\ <<>> \in Seq(Words)
      BY EmptySeq
    <3> HIDE DEF tail
    <3> QED BY <3>1, <3>2
  <2>2. CASE Stream(s).lang # ""
    <3>1. tail = <<Stream(s).lang>> /\ Stream(s).lang \in Words
      BY <1>1, <2>2
    <3> HIDE DEF tail
    <3>2. tail \in Seq(Words) /\ Len(tail) = 1 /\ tail[1] = Stream(s).lang
      BY <3>1
    <3>3. \A i \in 1..Len(tail) : i = 1
      BY <3>2
    <3>4. tail[1] \notin Working
      BY <1>1, <3>2
    <3>5. \A i \in 1..Len(tail) : tail[i] \notin Working
      BY <3>3, <3>4
    <3> QED BY <3>2, <3>5
  <2> QED BY <2>1, <2>2
<1> HIDE DEF tail
<1>3. setup.save \o tail \in Seq(Words) /\ PlainName(setup.save \o tail)
  <2>1. /\ setup.save \o tail \in Seq(Words) /\ Len(setup.save) \in Nat
        /\ DOMAIN setup.save = 1..Len(setup.save)
        /\ Len(setup.save \o tail) = Len(setup.save) + Len(tail)
        /\ \A i \in 1..Len(setup.save \o tail) : (setup.save \o tail)[i] =
             IF i <= Len(setup.save) THEN setup.save[i] ELSE tail[i - Len(setup.save)]
    BY <1>1, <1>2, ConcatProperties, LenProperties
  <2>2. ASSUME NEW i \in DOMAIN (setup.save \o tail)
        PROVE  (setup.save \o tail)[i] \notin Working
    <3>1. i \in 1..Len(setup.save \o tail)
      BY <2>1, <2>2, LenProperties
    <3>2. CASE i <= Len(setup.save)
      <4>1. i \in DOMAIN setup.save
        BY <2>1, <3>1, <3>2
      <4> QED BY <1>1, <2>1, <3>1, <3>2, <4>1 DEF PlainName, Range
    <3>3. CASE ~(i <= Len(setup.save))
      <4>1. i - Len(setup.save) \in 1..Len(tail)
        BY <1>2, <2>1, <3>1, <3>3
      <4> QED BY <1>2, <2>1, <3>1, <3>3, <4>1
    <3> QED BY <3>2, <3>3
  <2> QED BY <2>1, <2>2 DEF PlainName, Range
<1>4. SaveExt(s) \in Words
  <2>1. Ext(s) \in Words
    BY <1>1, WordsAssumption DEF Ext
  <2>2. SaveExt(s) \in {"srt", "m4a", Ext(s)}
    BY DEF SaveExt
  <2> QED BY <2>1, <2>2, WordsAssumption
<1> QED BY <1>3, <1>4 DEF Planned, Path, tail

\* Of an ascending or any other list: the elements are finitely many.
LEMMA FewElements ==
  ASSUME NEW S, NEW q \in Seq(S)
  PROVE  IsFiniteSet(ToSet(q))
<1>1. q \in [1..Len(q) -> S] /\ Len(q) \in Nat /\ DOMAIN q = 1..Len(q)
  BY LenProperties
<1>2. q \in Surjection(1..Len(q), ToSet(q))
  BY <1>1 DEF Surjection, ToSet
<1>3. IsFiniteSet(1..Len(q))
  BY <1>1, FS_Interval
<1> QED BY <1>2, <1>3, FS_Surjection

-----------------------------------------------------------------------------
LEMMA SetupStays ==
  ASSUME [Next]_vars
  PROVE  setup' = setup
<1>1. CASE Begin \/ Cancel \/ DecryptTears \/ WriteTears \/ Crash \/ UNCHANGED vars
  BY <1>1 DEF Begin, Cancel, DecryptTears, WriteTears, Crash, Goto, vars
<1>2. CASE ToolEnds
  BY <1>2 DEF ToolEnds, MergeEnds, ToolFails, DecryptEnds, DecryptFails, MuxEnds
<1>3. CASE Steps
  <2>1. CASE Wait \/ NoticeCancel \/ LoadSource \/ LoadFails \/ Pause \/ Select
             \/ SkipDownload \/ GoDownload \/ Download \/ DownloadFails \/ Probe
    BY <2>1 DEF Wait, NoticeCancel, LoadSource, LoadFails, Pause, Select, SkipDownload,
                GoDownload, Download, DownloadFails, Probe, Goto
  <2>2. CASE Reserve \/ Finalize \/ DecryptSegment \/ DecryptionDone \/ SkipMerge
             \/ SavePngs \/ DropImageSegments \/ CombineGroup \/ DropGrouped \/ GroupsDone
    BY <2>2 DEF Reserve, Finalize, DecryptSegment, DecryptionDone, SkipMerge, SavePngs,
                DropImageSegments, CombineGroup, DropGrouped, GroupsDone, Goto
  <2>3. CASE StartMerge \/ NothingToMerge \/ LeaveEncrypted \/ CloseStream \/ StartMux
             \/ ForgeFails \/ ClearTemp \/ WriteSubtitle \/ BinaryMerge \/ ToolCancelled
    BY <2>3 DEF StartMerge, NothingToMerge, LeaveEncrypted, CloseStream, StartMux, ForgeFails,
                ClearTemp, WriteSubtitle, BinaryMerge, ToolCancelled, Goto
  <2>4. CASE StartDecrypt \/ DecryptCancelled \/ RemoveSource \/ RenameDecrypted \/ Forge
             \/ Sweep \/ NameOutput
    BY <2>4 DEF StartDecrypt, DecryptCancelled, RemoveSource, RenameDecrypted, Forge, Sweep,
                NameOutput
  <2> QED BY <1>3, <2>1, <2>2, <2>3, <2>4 DEF Steps
<1> QED BY <1>1, <1>2, <1>3 DEF Next

\* An interruption is not undone.
LEMMA StaysInterrupted ==
  ASSUME Inv, [Next]_vars, Interrupted
  PROVE  Interrupted'
<1>1. session \in Nat /\ (pc = "failed" => session # 0)
  BY DEF Inv, TypeInv
<1>2. CASE Begin
  BY <1>1, <1>2 DEF Begin, Interrupted
<1>3. CASE Cancel \/ DecryptTears \/ WriteTears \/ Crash \/ UNCHANGED vars
  BY <1>3 DEF Cancel, DecryptTears, WriteTears, Crash, Goto, vars, Interrupted
<1>4. CASE ToolEnds
  BY <1>4 DEF ToolEnds, MergeEnds, ToolFails, DecryptEnds, DecryptFails, MuxEnds, Interrupted
<1>5. CASE Steps
  <2>1. CASE Wait \/ NoticeCancel \/ LoadSource \/ LoadFails \/ Pause \/ Select
             \/ SkipDownload \/ GoDownload \/ Download \/ DownloadFails \/ Probe
    BY <2>1 DEF Wait, NoticeCancel, LoadSource, LoadFails, Pause, Select, SkipDownload,
                GoDownload, Download, DownloadFails, Probe, Goto, Checks, Interrupted
  <2>2. CASE Reserve \/ Finalize \/ DecryptSegment \/ DecryptionDone \/ SkipMerge
             \/ SavePngs \/ DropImageSegments \/ CombineGroup \/ DropGrouped \/ GroupsDone
    BY <2>2 DEF Reserve, Finalize, DecryptSegment, DecryptionDone, SkipMerge, SavePngs,
                DropImageSegments, CombineGroup, DropGrouped, GroupsDone, Goto, Interrupted
  <2>3. CASE StartMerge \/ NothingToMerge \/ LeaveEncrypted \/ CloseStream \/ StartMux
             \/ ForgeFails \/ ClearTemp \/ WriteSubtitle \/ BinaryMerge \/ ToolCancelled
    BY <2>3 DEF StartMerge, NothingToMerge, LeaveEncrypted, CloseStream, StartMux, ForgeFails,
                ClearTemp, WriteSubtitle, BinaryMerge, ToolCancelled, Goto, Interrupted
  <2>4. CASE StartDecrypt \/ DecryptCancelled \/ RemoveSource \/ RenameDecrypted \/ Forge
             \/ Sweep \/ NameOutput
    BY <2>4 DEF StartDecrypt, DecryptCancelled, RemoveSource, RenameDecrypted, Forge, Sweep,
                NameOutput, Interrupted
  <2> QED BY <1>5, <2>1, <2>2, <2>3, <2>4 DEF Steps
<1> QED BY <1>2, <1>3, <1>4, <1>5 DEF Next

\* After the sweep a session ends, and the next one goes on only with its imports there.
LEMMA SweptFlow ==
  ASSUME [Next]_vars
  PROVE  /\ pc \in {"sweeping", "naming"} /\ disk' # disk => pc' \in Swept
         /\ pc \in Swept /\ pc' \notin Swept => disk' = disk /\ Imports \subseteq DOMAIN disk
<1>1. CASE Begin
  BY <1>1 DEF Begin, ShapeRefused, Swept, Final, data
<1>2. CASE Cancel \/ DecryptTears \/ WriteTears \/ Crash \/ UNCHANGED vars
  BY <1>2 DEF Cancel, DecryptTears, WriteTears, Crash, Goto, vars, data, Swept, Final
<1>3. CASE ToolEnds
  BY <1>3 DEF ToolEnds, MergeEnds, ToolFails, DecryptEnds, DecryptFails, MuxEnds, Swept, Final
<1>4. CASE Steps
  <2>1. CASE Wait \/ NoticeCancel \/ LoadSource \/ LoadFails \/ Pause \/ Select
             \/ SkipDownload \/ GoDownload \/ Download \/ DownloadFails \/ Probe
    BY <2>1 DEF Wait, NoticeCancel, LoadSource, LoadFails, Pause, Select, SkipDownload,
                GoDownload, Download, DownloadFails, Probe, Goto, Swept, Final, Checks
  <2>2. CASE Reserve \/ Finalize \/ DecryptSegment \/ DecryptionDone \/ SkipMerge
             \/ SavePngs \/ DropImageSegments \/ CombineGroup \/ DropGrouped \/ GroupsDone
    BY <2>2 DEF Reserve, Finalize, DecryptSegment, DecryptionDone, SkipMerge, SavePngs,
                DropImageSegments, CombineGroup, DropGrouped, GroupsDone, Goto, Swept, Final
  <2>3. CASE StartMerge \/ NothingToMerge \/ LeaveEncrypted \/ CloseStream \/ StartMux
             \/ ForgeFails \/ ClearTemp \/ WriteSubtitle \/ BinaryMerge \/ ToolCancelled
    BY <2>3 DEF StartMerge, NothingToMerge, LeaveEncrypted, CloseStream, StartMux, ForgeFails,
                ClearTemp, WriteSubtitle, BinaryMerge, ToolCancelled, Goto, Swept, Final
  <2>4. CASE StartDecrypt \/ DecryptCancelled \/ RemoveSource \/ RenameDecrypted \/ Forge
             \/ Sweep \/ NameOutput
    BY <2>4 DEF StartDecrypt, DecryptCancelled, RemoveSource, RenameDecrypted, Forge, Sweep,
                NameOutput, Swept, Final
  <2> QED BY <1>4, <2>1, <2>2, <2>3, <2>4 DEF Steps
<1> QED BY <1>1, <1>2, <1>3, <1>4 DEF Next

\* What a step does to a file that no session made.
LEMMA ForeignTouched ==
  ASSUME Inv, PathInv, PlainNames, [Next]_vars, NEW p \in Foreign
  PROVE  \/ p = target /\ pc = "forging" /\ p \in DOMAIN disk'
         \/ p \in DOMAIN disk => p \in DOMAIN disk' /\ disk'[p] = disk[p]
         \/ p \in Imports /\ pc \in {"sweeping", "naming"} /\ disk' # disk
<1>1. Touches
  BY StepTouches DEF PathInv, DiskInv
<1>2. setup \in Setups
  BY DEF Inv, TypeInv
<1>3. pc \in {"subtitling", "writing", "merging"} => out[cur] \notin Foreign
  <2>1. pc \in InStream => cur \in 1..Len(out)
    BY StreamsShape DEF Inv, TypeInv, PathInv, OutInv
  <2> QED BY <2>1 DEF InStream, PathInv, OutInv, Own
<1>4. pc \in Targeted => WorkPaths \cap Foreign = {}
  <2>1. pc \in Targeted => target \in Path /\ target \notin Foreign
    BY DEF PathInv, TargetInv, Own
  <2> QED BY <1>2, <2>1, WorkApart DEF WorkPaths
<1>5. pc = "tool muxing" => target \notin Foreign
  BY <1>2, MuxNames DEF PathInv, TargetInv, Muxed
<1>6. p \in MuxPaths => p \in Imports
  <2>1. ASSUME NEW m \in ToSet(merged) PROVE m.path \notin Foreign
    <3>1. PICK k \in DOMAIN merged : m = merged[k]
      BY DEF ToSet
    <3>2. k \in 1..Len(merged)
      BY <3>1, LenProperties DEF PathInv, TargetInv
    <3> QED BY <3>1, <3>2 DEF PathInv, TargetInv, Own
  <2> QED BY <2>1 DEF MuxPaths, MuxInputs
<1>7. pc = "naming" /\ FinalPath(target) # target => target \notin Foreign
  BY <1>2, MuxNames DEF PathInv, TargetInv, Forged, Muxed
<1>8. CASE disk' = disk
  BY <1>8
<1>9. CASE pc \in {"subtitling", "writing", "merging"} /\ Differ(disk, disk', {out[cur]})
  BY <1>3, <1>9 DEF Differ
<1>10. CASE pc = "ffmpeg merging" /\ Differ(disk, disk', {target})
  BY <1>4, <1>10 DEF Differ, Targeted, WorkPaths
<1>11. CASE pc \in {"deciphering", "decrypt tool", "removing", "renaming"}
            /\ Differ(disk, disk', WorkPaths)
  BY <1>4, <1>11 DEF Differ, Targeted
<1>12. CASE pc \in {"forging", "tool muxing"} /\ Differ(disk, disk', {target})
            /\ target \in DOMAIN disk'
  BY <1>5, <1>12 DEF Differ
<1>13. CASE pc = "sweeping" /\ Differ(disk, disk', MuxPaths \ {target}) /\ disk' # disk
  BY <1>6, <1>13 DEF Differ
<1>14. CASE /\ pc = "naming" /\ Differ(disk, disk', {target, FinalPath(target)})
            /\ FinalPath(target) # target /\ FinalPath(target) \notin DOMAIN disk
  BY <1>7, <1>14 DEF Differ
<1> QED BY <1>1, <1>8, <1>9, <1>10, <1>11, <1>12, <1>13, <1>14 DEF Touches

\* Files that were there are written by a mux alone, and by one of mp4forge.
LEMMA DiskKept ==
  ASSUME Inv, PathInv, PlainNames, [Next]_vars
  PROVE  /\ DiskInv'
         /\ \A p \in setup.old \ Imports :
              \/ p = target /\ pc = "forging" /\ p \in DOMAIN disk'
              \/ p \in DOMAIN disk' /\ disk'[p] = disk[p]
<1>1. IsFiniteSet(DOMAIN disk')
  BY StepTouches DEF PathInv, DiskInv
<1>2. setup' = setup /\ Foreign' = Foreign /\ Imports' = Imports
  BY SetupStays DEF Foreign, Imports
<1>3. \A p \in Foreign :
        \/ p = target /\ pc = "forging" /\ p \in DOMAIN disk'
        \/ p \in DOMAIN disk => p \in DOMAIN disk' /\ disk'[p] = disk[p]
        \/ p \in Imports /\ pc \in {"sweeping", "naming"} /\ disk' # disk
  BY ForeignTouched
<1>4. \A p \in setup.old \ Imports : p \in DOMAIN disk /\ p \in Foreign
  BY DEF PathInv, DiskInv, Foreign
<1>5. pc' \notin Swept' => Imports' \subseteq DOMAIN disk'
  <2>1. SUFFICES ASSUME pc' \notin Swept PROVE Imports \subseteq DOMAIN disk'
    BY <1>2 DEF Swept, Final
  <2>2. CASE pc \in Swept
    BY <2>1, <2>2, SweptFlow
  <2>3. CASE pc \notin Swept
    <3>1. Imports \subseteq DOMAIN disk /\ Imports \subseteq Foreign
      BY <2>3 DEF PathInv, DiskInv, Foreign
    <3>2. ~(pc \in {"sweeping", "naming"} /\ disk' # disk)
      BY <2>1, SweptFlow
    <3> QED BY <1>3, <3>1, <3>2
  <2> QED BY <2>2, <2>3
<1> QED BY <1>1, <1>2, <1>3, <1>4, <1>5 DEF DiskInv

\* The steps of a stream and those after it, which plan no names.
LEMMA OutSame ==
  ASSUME OutInv, UNCHANGED <<setup, out>>,
         \/ pc' \in Early \cup {"probing"} /\ pc \in Early
         \/ pc' = pc
         \/ pc' \in Late
         \/ pc' \in {"decrypting"} \cup InStream /\ pc \in {"probed", "decrypting"} \cup InStream
  PROVE  OutInv'
<1>1. Foreign' = Foreign
  BY DEF Foreign, Imports
<1>2. CASE pc' \in Late
  <2>1. pc' \in Early \cup {"probing"} => pc \in Early \cup {"probing"} \/ FALSE
    BY <1>2 DEF Late, Early, Final
  <2>2. pc' \notin {"reserving", "probed", "decrypting"} \cup InStream \cup Early \cup {"probing"}
    BY <1>2 DEF Late, Early, Final, InStream
  <2> QED BY <1>1, <2>2 DEF OutInv, Own
<1>3. CASE pc' \in {"decrypting"} \cup InStream /\ pc \in {"probed", "decrypting"} \cup InStream
  <2>1. pc' \notin {"reserving"} \cup Early \cup {"probing"}
    BY <1>3 DEF InStream, Early
  <2> QED BY <1>1, <1>3, <2>1 DEF OutInv, Own
<1>4. CASE pc' \in Early \cup {"probing"} /\ pc \in Early
  <2>1. pc' \notin {"reserving", "probed", "decrypting"} \cup InStream
    BY <1>4 DEF InStream, Early
  <2> QED BY <1>1, <1>4, <2>1 DEF OutInv, Own
<1>5. CASE pc' = pc
  BY <1>1, <1>5 DEF OutInv, Own
<1> QED BY <1>2, <1>3, <1>4, <1>5

LEMMA ReserveKeeps ==
  ASSUME Inv, PathInv, PlainNames, Reserve
  PROVE  OutInv'
<1> DEFINE s == Len(out) + 1
           p == FreePath(FreePath(Planned(s), s, {}), s, ToSet(out))
<1>1. /\ pc = "reserving" /\ setup' = setup /\ out' = Append(out, p)
      /\ pc' = IF s = Len(setup.streams) THEN "probed" ELSE "reserving"
  BY DEF Reserve
<1>2. /\ setup \in Setups /\ out \in Seq(Path) /\ Len(out) < Len(setup.streams)
      /\ Foreign' = Foreign /\ IsFiniteSet(DOMAIN disk) /\ Foreign \subseteq DOMAIN disk
  BY <1>1 DEF Inv, TypeInv, PathInv, OutInv, DiskInv, Foreign, Imports, Swept, Final
<1>3. Len(out) \in Nat /\ s \in Streams /\ Len(setup.streams) \in Nat
  BY <1>2, StreamsShape, LenProperties
<1>4. p \in Path /\ PlainName(p.name) /\ p \notin DOMAIN disk /\ p \notin ToSet(out)
  <2> DEFINE q == FreePath(Planned(s), s, {})
  <2>1. Planned(s) \in Path /\ PlainName(Planned(s).name)
    BY <1>2, <1>3, PlannedPath
  <2>2. Stream(s).label \in Words \cup {""} /\ Stream(s).label \notin Working
    BY <1>2, <1>3, StreamWords, StreamPlain
  <2> HIDE DEF s
  <2>3. q \in Path /\ PlainName(q.name)
    <3>1. IsFiniteSet({})
      BY FS_EmptySet
    <3> QED BY <1>2, <2>1, <2>2, <3>1, FreeOne
  <2>4. IsFiniteSet(ToSet(out))
    BY <1>2, FewElements
  <2> HIDE DEF q
  <2>5. /\ FreePath(q, s, ToSet(out)) \in Path
        /\ FreePath(q, s, ToSet(out)) \notin ToSet(out) \cup DOMAIN disk
        /\ PlainName(FreePath(q, s, ToSet(out)).name)
    BY <1>2, <2>2, <2>3, <2>4, FreeOne
  <2> QED BY <2>5 DEF q
<1> HIDE DEF p
<1>5. Own(p)
  BY <1>2, <1>4 DEF Own
<1>6. /\ out' \in Seq(Path) /\ Len(out') = s /\ out'[s] = p
      /\ \A k \in 1..Len(out) : out'[k] = out[k] /\ out'[k] # p
  <2>1. DOMAIN out = 1..Len(out)
    BY <1>2, LenProperties
  <2> QED BY <1>1, <1>2, <1>4, <2>1, AppendProperties DEF ToSet
<1>7. \A k \in 1..Len(out') : k \in 1..Len(out) \/ k = s
  BY <1>3, <1>6
<1>8. \A k \in 1..Len(out') : Own(out'[k])
  BY <1>2, <1>5, <1>6, <1>7 DEF PathInv, OutInv
<1>9. \A j, k \in 1..Len(out') : j # k => out'[j] # out'[k]
  BY <1>6, <1>7 DEF PathInv, OutInv
<1>10. pc' \notin Early \cup {"probing", "decrypting"} \cup InStream
  BY <1>1 DEF Early, InStream
<1>11. pc' = "reserving" => Len(out') < Len(setup.streams)
  BY <1>1, <1>2, <1>3, <1>6
<1>12. pc' = "probed" => Len(out') = Len(setup.streams)
  BY <1>1, <1>6
<1> QED BY <1>1, <1>2, <1>6, <1>8, <1>9, <1>10, <1>11, <1>12 DEF OutInv, Own

LEMMA OutKept ==
  ASSUME Inv, PathInv, PlainNames, [Next]_vars
  PROVE  OutInv'
<1>0. OutInv /\ setup' = setup
  BY SetupStays DEF PathInv
<1>1. CASE Begin
  <2>1. out' = <<>> /\ pc' \in {"refused", "waiting", "loading"}
    BY <1>1 DEF Begin
  <2>2. pc' \notin {"probed", "decrypting", "reserving"} \cup InStream
    BY <2>1 DEF InStream
  <2> QED BY <2>1, <2>2, EmptySeq DEF OutInv
<1>2. CASE Reserve
  BY <1>2, ReserveKeeps
<1>3. CASE Probe
  <2>1. out = <<>> /\ out' = out /\ pc' = "reserving"
    BY <1>0, <1>3 DEF Probe, OutInv
  <2>2. Len(setup.streams) \in Nat /\ 1 \in 1..Len(setup.streams)
    BY <1>3, StreamsShape DEF Probe, Inv, TypeInv, Chosen, Downloaded
  <2>3. pc' \notin {"probed", "decrypting"} \cup InStream
    BY <2>1 DEF InStream
  <2>4. 0 < Len(setup.streams) /\ Len(<<>>) = 0
    BY <2>2
  <2> QED BY <1>0, <2>1, <2>3, <2>4, EmptySeq DEF OutInv
<1>4. CASE Wait \/ LoadSource \/ LoadFails \/ Pause \/ Select \/ SkipDownload \/ GoDownload
           \/ Download
  <2>1. /\ out' = out /\ pc \in Early
        /\ pc' \in {"loading", "loaded", "failed", "pausing", "refused", "selected", "finished",
                    "downloading", "probing"}
    <3>1. CASE Wait \/ LoadSource \/ LoadFails \/ Pause \/ Download
      BY <3>1 DEF Wait, LoadSource, LoadFails, Pause, Download, Goto, Early, plans
    <3>2. CASE Select \/ SkipDownload \/ GoDownload
      BY <3>2 DEF Select, SkipDownload, GoDownload, Goto, Early, plans
    <3> QED BY <1>4, <3>1, <3>2
  <2>2. pc' \in Early \cup {"probing"} \/ pc' \in Late
    BY <2>1 DEF Early, Late, Final
  <2> QED BY <1>0, <2>1, <2>2, OutSame
<1>5. CASE Cancel \/ NoticeCancel \/ DecryptTears \/ WriteTears \/ Crash \/ DownloadFails
           \/ UNCHANGED vars
  <2>1. out' = out /\ (pc' = pc \/ pc' \in Late)
    BY <1>5 DEF Cancel, NoticeCancel, DecryptTears, WriteTears, Crash, DownloadFails, Goto, vars,
                plans, Late, Final
  <2> QED BY <1>0, <2>1, OutSame
<1>6. CASE Finalize \/ DecryptSegment \/ DecryptionDone \/ SkipMerge \/ SavePngs
           \/ DropImageSegments \/ WriteSubtitle \/ CombineGroup \/ DropGrouped \/ GroupsDone
           \/ BinaryMerge \/ StartMerge \/ LeaveEncrypted \/ StartDecrypt \/ RemoveSource
           \/ RenameDecrypted \/ CloseStream
  <2>1. /\ out' = out /\ pc \in {"probed", "decrypting"} \cup InStream
        /\ pc' \in {"decrypting"} \cup InStream \/ pc' \in Late
    <3>1. CASE Finalize \/ DecryptSegment \/ DecryptionDone
      BY <3>1 DEF Finalize, DecryptSegment, DecryptionDone, AfterDecrypt, plans, InStream
    <3>2. CASE SkipMerge \/ CloseStream
      BY <3>2 DEF SkipMerge, CloseStream, NextStream, plans, InStream, Late
    <3>3. CASE SavePngs \/ DropImageSegments \/ WriteSubtitle \/ CombineGroup \/ DropGrouped
               \/ GroupsDone
      BY <3>3 DEF SavePngs, DropImageSegments, WriteSubtitle, CombineGroup, DropGrouped,
                  GroupsDone, Goto, plans, InStream
    <3>4. CASE BinaryMerge \/ StartMerge \/ LeaveEncrypted \/ StartDecrypt \/ RemoveSource
               \/ RenameDecrypted
      BY <3>4 DEF BinaryMerge, StartMerge, LeaveEncrypted, StartDecrypt, RemoveSource,
                  RenameDecrypted, Goto, plans, InStream
    <3> QED BY <1>6, <3>1, <3>2, <3>3, <3>4
  <2> QED BY <1>0, <2>1, OutSame
<1>7. CASE MergeEnds \/ DecryptEnds \/ DecryptFails \/ DecryptCancelled \/ NothingToMerge
  <2>1. /\ out' = out /\ pc \in InStream /\ (pc' \in InStream \/ pc' \in Late)
    BY <1>7 DEF MergeEnds, DecryptEnds, DecryptFails, DecryptCancelled, NothingToMerge, Goto,
                plans, InStream, Late, Final
  <2> QED BY <1>0, <2>1, OutSame
<1>8. CASE ToolCancelled \/ ToolFails \/ StartMux \/ Forge \/ ForgeFails \/ MuxEnds
           \/ Sweep \/ NameOutput \/ ClearTemp
  <2>1. out' = out /\ pc' \in Late
    <3>1. CASE ToolCancelled \/ ToolFails \/ StartMux \/ Forge
      BY <3>1 DEF ToolCancelled, ToolFails, StartMux, Forge, plans, Late, Final
    <3>2. CASE ForgeFails \/ MuxEnds \/ Sweep \/ NameOutput \/ ClearTemp
      BY <3>2 DEF ForgeFails, MuxEnds, Sweep, NameOutput, ClearTemp, plans, Late, Final
    <3> QED BY <1>8, <3>1, <3>2
  <2> QED BY <1>0, <2>1, OutSame
<1> QED
  BY <1>1, <1>2, <1>3, <1>4, <1>5, <1>6, <1>7, <1>8 DEF Next, Steps, ToolEnds

-----------------------------------------------------------------------------
LEMMA TargetSame ==
  ASSUME TargetInv, UNCHANGED <<setup, merged>>,
         \/ pc' \notin Targeted \cup {"forging", "tool muxing", "sweeping", "naming"}
         \/ /\ target' = target /\ pc' \notin {"forging", "tool muxing", "sweeping", "naming"}
            /\ pc \in Targeted
         \/ target' = target /\ pc \in {"forging", "tool muxing"} /\ pc' = "sweeping"
         \/ target' = target /\ pc = "sweeping" /\ pc' = "naming"
         \/ target' = target /\ pc' = pc
  PROVE  TargetInv'
<1>1. Foreign' = Foreign /\ \A m : MuxTarget(m)' = MuxTarget(m)
  BY DEF Foreign, Imports, MuxTarget
<1>2. \A p : Own(p)' = Own(p)
  BY <1>1 DEF Own
<1>3. merged' \in Seq([stream : Nat, path : Path]) /\ \A k \in 1..Len(merged') : Own(merged'[k].path)
  BY <1>1 DEF TargetInv
<1>4. CASE pc' \notin Targeted \cup {"forging", "tool muxing", "sweeping", "naming"}
  BY <1>2, <1>3, <1>4 DEF TargetInv, Targeted
<1>5. CASE /\ target' = target /\ pc' \notin {"forging", "tool muxing", "sweeping", "naming"}
           /\ pc \in Targeted
  BY <1>2, <1>3, <1>5 DEF TargetInv
<1>6. CASE target' = target /\ pc \in {"forging", "tool muxing"} /\ pc' = "sweeping"
  BY <1>1, <1>2, <1>3, <1>6 DEF TargetInv, Targeted
<1>7. CASE target' = target /\ pc = "sweeping" /\ pc' = "naming"
  BY <1>1, <1>2, <1>3, <1>7 DEF TargetInv, Targeted
<1>8. CASE target' = target /\ pc' = pc
  BY <1>1, <1>2, <1>3, <1>8 DEF TargetInv, Targeted
<1> QED BY <1>4, <1>5, <1>6, <1>7, <1>8

\* The ffmpeg merge takes a path that is free.
LEMMA MergeTargetFree ==
  ASSUME Inv, PathInv, PlainNames, pc = "merging"
  PROVE  /\ Own(MergeTarget(cur)) /\ MergeTarget(cur) \notin DOMAIN disk
         /\ cur \in 1..Len(out) /\ Own(out[cur])
<1>1. cur \in Streams /\ setup \in Setups
  BY DEF Inv, TypeInv, InStream
<1>2. cur \in 1..Len(out)
  BY <1>1, StreamsShape DEF PathInv, OutInv, InStream
<1>3. Own(out[cur])
  BY <1>2 DEF PathInv, OutInv
<1> DEFINE p == MergePath(cur)
<1>4. p \in Path /\ PlainName(p.name)
  <2>1. /\ out[cur] = [name |-> out[cur].name, ext |-> out[cur].ext]
        /\ out[cur].name \in Seq(Words) /\ PlainName(out[cur].name)
    BY <1>3 DEF Own, Path
  <2> DEFINE e == IF Kind(cur) = "audio" THEN "m4a" ELSE "mp4"
  <2>2. e \in Words
    BY WordsAssumption
  <2> HIDE DEF e
  <2>3. p = [name |-> out[cur].name, ext |-> e]
    BY <2>1 DEF e, MergePath
  <2> HIDE DEF p
  <2> QED BY <2>1, <2>2, <2>3 DEF Path
<1>5. MergeTarget(cur) = FreePath(p, cur, {})
  BY DEF MergeTarget
<1> HIDE DEF p
<1>6. Stream(cur).label \in Words \cup {""} /\ Stream(cur).label \notin Working
  BY <1>1, StreamWords, StreamPlain
<1>7. IsFiniteSet({}) /\ IsFiniteSet(DOMAIN disk) /\ Foreign \subseteq DOMAIN disk
  BY FS_EmptySet DEF PathInv, DiskInv, Foreign, Imports, Swept, Final
<1>8. /\ FreePath(p, cur, {}) \in Path /\ FreePath(p, cur, {}) \notin DOMAIN disk
      /\ PlainName(FreePath(p, cur, {}).name)
  BY <1>4, <1>6, <1>7, FreeOne
<1> QED BY <1>2, <1>3, <1>5, <1>7, <1>8 DEF Own

LEMMA TargetKept ==
  ASSUME Inv, PathInv, PlainNames, [Next]_vars
  PROVE  TargetInv'
<1> DEFINE Muxing == {"forging", "tool muxing", "sweeping", "naming"}
<1>0. /\ TargetInv /\ setup' = setup /\ setup \in Setups
      /\ Foreign' = Foreign /\ \A m : MuxTarget(m)' = MuxTarget(m)
  BY SetupStays DEF PathInv, Inv, TypeInv, Foreign, Imports, MuxTarget
<1>1. CASE Begin
  <2>1. merged' = <<>> /\ pc' \notin Targeted \cup Muxing
    BY <1>1 DEF Begin, Targeted
  <2>2. merged' \in Seq([stream : Nat, path : Path])
    BY <2>1, EmptySeq
  <2>3. Len(<<>>) = 0 /\ 1..0 = {}
    OBVIOUS
  <2> QED BY <2>1, <2>2, <2>3 DEF TargetInv
<1>2. CASE WriteSubtitle \/ BinaryMerge
  <2>1. /\ target' = out[cur] /\ pc' \in Targeted /\ pc' \notin Muxing /\ merged' = merged
        /\ pc \in InStream
    BY <1>2 DEF WriteSubtitle, BinaryMerge, Targeted, InStream
  <2>2. cur \in 1..Len(out)
    BY <2>1, StreamsShape DEF Inv, TypeInv, PathInv, OutInv
  <2>3. Own(target')
    BY <1>0, <2>1, <2>2 DEF PathInv, OutInv
  <2> QED BY <1>0, <2>1, <2>3 DEF TargetInv, Own
<1>3. CASE StartMerge
  <2>1. /\ target' = MergeTarget(cur) /\ pc' = "ffmpeg merging" /\ merged' = merged
        /\ pc = "merging"
    BY <1>3 DEF StartMerge
  <2>2. Own(target')
    BY <2>1, MergeTargetFree
  <2> QED BY <1>0, <2>1, <2>2 DEF TargetInv, Targeted, Own
<1>4. CASE CloseStream
  <2>1. /\ merged' = Append(merged, [stream |-> cur, path |-> target]) /\ pc = "closing"
        /\ pc' \in {"decrypting", "muxing", "clearing"}
    BY <1>4 DEF CloseStream, NextStream
  <2>2. pc' \notin Targeted \cup Muxing
    BY <2>1 DEF Targeted
  <2>3. Own(target) /\ target \in Path /\ cur \in Nat
    BY <1>0, <2>1 DEF TargetInv, Targeted, Own, Inv, TypeInv
  <2> DEFINE m == [stream |-> cur, path |-> target]
  <2>4. m \in [stream : Nat, path : Path] /\ m.path = target
    BY <2>3
  <2> HIDE DEF m
  <2>5. /\ merged' \in Seq([stream : Nat, path : Path]) /\ Len(merged') = Len(merged) + 1
        /\ \A k \in 1..Len(merged) : merged'[k] = merged[k]
        /\ merged'[Len(merged) + 1] = m /\ Len(merged) \in Nat
    BY <1>0, <2>1, <2>4, AppendProperties, LenProperties DEF TargetInv, m
  <2>6. \A k \in 1..Len(merged') : Own(merged'[k].path)
    <3>1. ASSUME NEW k \in 1..Len(merged') PROVE Own(merged'[k].path)
      <4>1. k \in 1..Len(merged) \/ k = Len(merged) + 1
        BY <2>5
      <4> QED BY <1>0, <2>3, <2>4, <2>5, <4>1 DEF TargetInv
    <3> QED BY <3>1
  <2> QED BY <1>0, <2>2, <2>5, <2>6 DEF TargetInv, Own
<1>5. CASE StartMux
  <2>1. /\ target' = MuxTarget(opts.mux) /\ merged' = merged
        /\ pc' \in {"refused", "forging", "tool muxing"}
        /\ pc' = "forging" => opts.mux = "mp4forge"
        /\ pc' = "tool muxing" => opts.mux # "mp4forge"
    BY <1>5 DEF StartMux
  <2>2. opts.mux # "mp4forge" => MuxTarget(opts.mux) = MuxTarget("ffmpeg")
    BY DEF MuxTarget
  <2> QED BY <1>0, <2>1, <2>2 DEF TargetInv, Targeted, Own
<1>6. CASE ForgeFails
  BY <1>0, <1>6 DEF ForgeFails, TargetInv, Targeted, Own
<1>7. CASE Forge \/ MuxEnds \/ Sweep
  <2>1. /\ target' = target /\ merged' = merged
        /\ \/ pc \in {"forging", "tool muxing"} /\ pc' = "sweeping"
           \/ pc = "sweeping" /\ pc' = "naming"
    BY <1>7 DEF Forge, MuxEnds, Sweep, works
  <2> QED BY <1>0, <2>1, TargetSame
<1>8. CASE MergeEnds \/ LeaveEncrypted \/ StartDecrypt \/ DecryptEnds \/ DecryptFails
           \/ DecryptCancelled \/ RemoveSource \/ RenameDecrypted
  <2>1. target' = target /\ merged' = merged /\ pc \in Targeted /\ pc' \notin Muxing
    BY <1>8 DEF MergeEnds, LeaveEncrypted, StartDecrypt, DecryptEnds, DecryptFails,
                DecryptCancelled, RemoveSource, RenameDecrypted, Goto, works, Targeted
  <2> QED BY <1>0, <2>1, TargetSame
<1>9. CASE Cancel \/ DecryptTears \/ WriteTears \/ Crash \/ UNCHANGED vars
  <2>1. /\ target' = target /\ merged' = merged
        /\ pc' = pc \/ pc' \notin Targeted \cup Muxing
    BY <1>9 DEF Cancel, DecryptTears, WriteTears, Crash, Goto, vars, works, Targeted
  <2> QED BY <1>0, <2>1, TargetSame
<1>10. CASE Wait \/ LoadSource \/ LoadFails \/ Pause \/ Select \/ SkipDownload \/ GoDownload
           \/ Download \/ NoticeCancel \/ DownloadFails \/ Probe \/ Reserve \/ Finalize
  <2>1. merged' = merged /\ pc' \notin Targeted \cup Muxing
    <3>1. CASE Wait \/ LoadSource \/ LoadFails \/ Pause \/ Download \/ NoticeCancel
               \/ DownloadFails
      BY <3>1 DEF Wait, LoadSource, LoadFails, Pause, Download, NoticeCancel, DownloadFails,
                  Goto, Targeted, works
    <3>2. CASE Select \/ SkipDownload \/ GoDownload \/ Probe \/ Reserve \/ Finalize
      BY <3>2 DEF Select, SkipDownload, GoDownload, Probe, Reserve, Finalize, Goto, Targeted,
                  works
    <3> QED BY <1>10, <3>1, <3>2
  <2> QED BY <1>0, <2>1, TargetSame
<1>11. CASE DecryptSegment \/ DecryptionDone \/ SkipMerge \/ SavePngs \/ DropImageSegments
           \/ CombineGroup \/ DropGrouped \/ GroupsDone \/ NothingToMerge
  <2>1. merged' = merged /\ pc' \notin Targeted \cup Muxing
    <3>1. CASE DecryptSegment \/ DecryptionDone \/ SkipMerge
      BY <3>1 DEF DecryptSegment, DecryptionDone, AfterDecrypt, SkipMerge, NextStream, Targeted
    <3>2. CASE SavePngs \/ DropImageSegments \/ CombineGroup \/ DropGrouped \/ GroupsDone
               \/ NothingToMerge
      BY <3>2 DEF SavePngs, DropImageSegments, CombineGroup, DropGrouped, GroupsDone,
                  NothingToMerge, Goto, works, Targeted
    <3> QED BY <1>11, <3>1, <3>2
  <2> QED BY <1>0, <2>1, TargetSame
<1>12. CASE ToolCancelled \/ ToolFails \/ NameOutput \/ ClearTemp
  <2>1. merged' = merged /\ pc' \notin Targeted \cup Muxing
    BY <1>12 DEF ToolCancelled, ToolFails, NameOutput, ClearTemp, works, Targeted
  <2> QED BY <1>0, <2>1, TargetSame
<1> QED
  BY <1>1, <1>2, <1>3, <1>4, <1>5, <1>6, <1>7, <1>8, <1>9, <1>10, <1>11, <1>12
  DEF Next, Steps, ToolEnds

LEMMA PathInit == Init => PathInv
<1> SUFFICES ASSUME Init PROVE PathInv
  OBVIOUS
<1>1. /\ setup \in Setups /\ pc = "idle" /\ disk = [p \in Foreign |-> UserFile]
      /\ out = <<>> /\ merged = <<>>
  BY DEF Init
<1>2. IsFiniteSet(Foreign)
  BY <1>1, SetupsAssumption DEF Foreign, Imports
<1>3. DiskInv
  BY <1>1, <1>2 DEF DiskInv, Foreign, Swept, Final
<1>4. OutInv
  BY <1>1, EmptySeq DEF OutInv, InStream
<1>5. TargetInv
  BY <1>1, EmptySeq DEF TargetInv, Targeted
<1> QED BY <1>3, <1>4, <1>5 DEF PathInv

LEMMA PathKept ==
  PlainNames /\ Inv /\ PathInv /\ [Next]_vars => PathInv'
BY DiskKept, OutKept, TargetKept DEF PathInv

\* Files that were there are not changed by merges, decryption or collisions of names,
\* nor by the sweep of mux inputs or the renaming of the mux output: whatever a
\* session writes or deletes, its path was reserved when no file had it, or has a part
\* that no other name has. mp4forge alone writes over what has the name of its output.
THEOREM OlderFilesKept ==
  ASSUME PlainNames
  PROVE  Spec => ForeignKept
<1>1. Spec => Init /\ [][Next]_vars
  BY PTL DEF Spec
<1>2. Inv /\ PathInv /\ [Next]_vars =>
        [\A p \in setup.old \ Imports :
           \/ p = target /\ pc \in {"forging", "tool muxing"}
           \/ p \notin DOMAIN disk
           \/ p \in DOMAIN disk' /\ disk'[p] = disk[p]]_disk
  BY DiskKept
<1>3. Inv /\ PathInv /\ [Next]_vars => PathInv'
  BY PathKept
<1> QED BY <1>1, <1>2, <1>3, InitHolds, StepKeeps, PathInit, PTL DEF ForeignKept

-----------------------------------------------------------------------------
(* Where the content is.                                                       *)

\* After the download, before the end; and when probing has found the kinds.
Muxers == {"muxing", "forging", "tool muxing", "sweeping", "naming"}
Closers == {"decrypting"} \cup InStream
Probed == Downloaded \cup Closers \cup Late

\* What can be in a temporary file: torn ones come with interruptions.
Fates == {"none", "cipher", "clear", "bad"} \cup (IF Interrupted THEN {"torn"} ELSE {})
Bits == [stream : Nat, item : Nat,
         state : {"none", "cipher", "clear", "bad", "torn", "reference", "user"}]
BitsInv ==
  /\ DOMAIN parts = Streams
  /\ \A s \in Streams : /\ temp[s] \in [Items(s) -> Fates]
                        /\ parts[s] \in Seq(Bits)

\* What the download has brought.
FilesOk == \A s \in Streams :
  files[s] \in InOrder(s) /\ (Items(s) # {} => files[s] # <<>> /\ files[s][1] = 1 - Offset(s))

\* Image subtitles leave their PNGs in the temporary directory.
Stays(s) == Subtitled(s) /\ Stream(s).image
Good(x, s, i) == x.stream = s /\ x.item = i /\ x.state \notin {"none", "reference"}
Track(q, s) == /\ q \in Seq(Bits) /\ IsTrack(q, s)
               /\ Stays(s) \/ \A k \in 1..Len(q) : Good(q[k], s, Wanted(s)[k])
Has(p, s) == p \in DOMAIN disk /\ \E q \in disk[p] : Track(q, s)
HasAll(p, s) == Wanted(s) # <<>> => Has(p, s)
\* From the place n + 1 on the files of a list are there; up to n they are combined.
InTemp(s, q, n) == \A k \in 1..Len(q) : k > n => temp[s][q[k]] # "none"
InParts(s, q, n) == Len(parts[s]) = n /\ \A k \in 1..n : Good(parts[s][k], s, q[k])
AllInTemp == \A s \in Streams : InTemp(s, files[s], 0)
Upto(n, s) == IF n < Len(Inputs(s)) THEN n ELSE Len(Inputs(s))

\* The streams that are closed, and those to come.
ClosedOk ==
  /\ Len(merged) = cur - 1
  /\ \A s \in Streams : s > cur => InTemp(s, files[s], 0)
  /\ \A k \in 1..Len(merged) :
       /\ merged[k].stream = k /\ HasAll(merged[k].path, k) /\ merged[k].path \in told
       /\ Stays(k) => InParts(k, files[k], Len(files[k]))
       /\ Wanted(k) = <<>> => merged[k].path = out[k]
       /\ \A j \in 1..Len(out) : j # k => merged[k].path # out[j]
  /\ \A j, k \in 1..Len(merged) : j # k => merged[j].path # merged[k].path

\* The output of the stream in work is no other stream's.
TargetApart ==
  /\ \A j \in 1..Len(out) : j # cur => target # out[j]
  /\ \A k \in 1..Len(merged) : target # merged[k].path
  /\ Wanted(cur) = <<>> => target = out[cur]
CurOk ==
  /\ pc \in {"decrypting", "subtitling", "imaging"} => InTemp(cur, files[cur], 0)
  /\ pc \in {"subtitling", "imaging", "writing"} => Subtitled(cur)
  /\ pc \in {"imaging", "writing"} =>
       Stream(cur).image /\ InParts(cur, files[cur], Len(files[cur]))
  /\ pc \in {"grouping", "dropping", "merging", "ffmpeg merging", "deciphering",
             "decrypt tool", "removing", "renaming"} => ~Subtitled(cur)
  /\ pc \in {"grouping", "dropping"} => Grouped(cur) /\ InTemp(cur, Inputs(cur), pos)
  /\ pc = "grouping" /\ pos > 0 => InParts(cur, Inputs(cur), Upto(pos, cur))
  /\ pc = "dropping" =>
       pos < Len(Inputs(cur)) /\ InParts(cur, Inputs(cur), Upto(pos + GroupSize, cur))
  /\ pc \in {"merging", "ffmpeg merging"} =>
       IF Grouped(cur) THEN InParts(cur, Inputs(cur), Len(Inputs(cur)))
                       ELSE InTemp(cur, Inputs(cur), 0)
  /\ pc = "ffmpeg merging" => ~Binary(cur) /\ target \notin DOMAIN disk
  /\ pc \in Targeted => TargetApart
  /\ pc \in {"deciphering", "closing"} => HasAll(target, cur)
  /\ pc = "decrypt tool" =>
       HasAll(IF setup.engine = "mp4decrypt" THEN AsidePath(target) ELSE target, cur)
  /\ pc \in {"removing", "renaming"} => HasAll(DecPath(target), cur)
  /\ pc = "closing" /\ Stays(cur) => InParts(cur, files[cur], Len(files[cur]))

\* When all are closed.
Swallowed == {"sweeping", "naming"}
MuxOk ==
  /\ Len(merged) = Len(setup.streams)
  /\ \A j, k \in 1..Len(merged) : j # k => merged[j].path # merged[k].path
  /\ \A k \in 1..Len(merged) :
       /\ merged[k].stream = k
       /\ Stays(k) => InParts(k, files[k], Len(files[k]))
       /\ pc # "muxing" /\ merged[k] \notin MuxInputs => merged[k].path # target
       /\ IF pc \in Swallowed /\ merged[k] \in MuxInputs THEN HasAll(target, k)
          ELSE HasAll(merged[k].path, k) /\ merged[k].path \in told
ClearOk ==
  IF setup.skipMerge THEN AllInTemp
  ELSE \A s \in Streams : /\ Stays(s) => InParts(s, files[s], Len(files[s]))
                          /\ Wanted(s) # <<>> => \E p \in told : Has(p, s)

\* What is promised of every stream.
Kept(s) == \A k \in DOMAIN files[s] :
             \/ Held(s, files[s][k])
             \/ DropsInit(s) /\ files[s][k] = 0
             \/ Stream(s).image /\ pc = "finished"
EndOk == (\A s \in Streams : Kept(s)) /\ FinishedIsWhole

HoldInv ==
  /\ pc \in Early => merged = <<>> /\ \A s \in Streams : files[s] = <<>>
  /\ pc \in Downloaded => merged = <<>> /\ FilesOk /\ AllInTemp
  /\ pc \in Closers => /\ FilesOk
                       /\ IF setup.skipMerge
                          THEN pc \in {"decrypting", "skipping"} /\ merged = <<>> /\ AllInTemp
                          ELSE pc # "skipping" /\ ClosedOk /\ CurOk
  /\ pc \in Muxers => ~setup.skipMerge /\ FilesOk /\ MuxOk
  /\ pc = "clearing" => FilesOk /\ ClearOk
  /\ pc \in Final => EndOk

-----------------------------------------------------------------------------
\* A function over the first numbers is a sequence.
LEMMA MadeSeq ==
  ASSUME NEW S, NEW n \in Nat, NEW f \in [1..n -> S]
  PROVE  f \in Seq(S) /\ Len(f) = n /\ DOMAIN f = 1..n
<1>1. f \in UNION {[1..j -> S] : j \in Nat}
  OBVIOUS
<1>2. f \in Seq(S)
  BY <1>1, SeqDef, Zenon
<1> QED BY <1>2, LenProperties

\* After probing what a phase needs to know of a stream does not change.
LEMMA PlansSame ==
  ASSUME UNCHANGED <<setup, opts, files>>, pc \in Probed, pc' \in Probed
  PROVE  /\ Streams' = Streams /\ Imports' = Imports /\ Foreign' = Foreign
         /\ \A s : /\ Stream(s)' = Stream(s) /\ Items(s)' = Items(s) /\ Kind(s)' = Kind(s)
                  /\ Subtitled(s)' = Subtitled(s) /\ Stays(s)' = Stays(s)
                  /\ DropsInit(s)' = DropsInit(s) /\ Inputs(s)' = Inputs(s)
                  /\ Wanted(s)' = Wanted(s) /\ Binary(s)' = Binary(s)
                  /\ Grouped(s)' = Grouped(s) /\ InOrder(s)' = InOrder(s)
                  /\ Offset(s)' = Offset(s)
<1>1. /\ Streams' = Streams /\ Imports' = Imports /\ Foreign' = Foreign
      /\ \A s : Stream(s)' = Stream(s)
  BY DEF Streams, Stream, Imports, Foreign
<1>2. \A s : Kind(s) = Stream(s).becomes /\ Kind(s)' = Stream(s).becomes
  <2>1. {pc, pc'} \cap {"starting", "waiting", "loading", "pausing", "loaded", "selected",
                        "downloading"} = {}
    BY DEF Probed, Downloaded, Closers, InStream, Late, Final
  <2> QED BY <1>1, <2>1 DEF Kind
<1>3. \A s : /\ Items(s)' = Items(s) /\ Subtitled(s)' = Subtitled(s) /\ Stays(s)' = Stays(s)
             /\ Offset(s)' = Offset(s)
  BY <1>1, <1>2 DEF Items, Subtitled, Stays, Offset
<1>4. \A s : DropsInit(s)' = DropsInit(s) /\ NeedsTool(s)' = NeedsTool(s)
  BY <1>1 DEF DropsInit, RealTime, NeedsTool
<1>5. \A s : Inputs(s)' = Inputs(s) /\ Binary(s)' = Binary(s)
  BY <1>1, <1>2, <1>4 DEF Inputs, Binary
<1>6. \A s : Wanted(s)' = Wanted(s) /\ Grouped(s)' = Grouped(s) /\ InOrder(s)' = InOrder(s)
  BY <1>1, <1>3, <1>5 DEF Wanted, Grouped, InOrder
<1> QED BY <1>1, <1>2, <1>3, <1>4, <1>5, <1>6

LEMMA FilesSame ==
  ASSUME UNCHANGED <<setup, opts, files>>, pc \in Probed, pc' \in Probed, FilesOk
  PROVE  FilesOk'
BY PlansSame DEF FilesOk

\* The files of a stream ascend; its merge has them all but the init segment.
LEMMA FilesShape ==
  ASSUME TypeInv, FilesOk, NEW s \in Streams
  PROVE  /\ Items(s) \subseteq Nat
         /\ files[s] \in Seq(Items(s)) /\ Len(files[s]) \in Nat
         /\ DOMAIN files[s] = 1..Len(files[s])
         /\ Inputs(s) \in Seq(Items(s)) /\ Len(Inputs(s)) \in Nat
         /\ DOMAIN Inputs(s) = 1..Len(Inputs(s))
         /\ \A j, k \in 1..Len(Inputs(s)) : j # k => Inputs(s)[j] # Inputs(s)[k]
         /\ \A k \in 1..Len(files[s]) :
              \/ \E j \in 1..Len(Inputs(s)) : Inputs(s)[j] = files[s][k]
              \/ DropsInit(s) /\ files[s][k] = 0
         /\ \A j \in 1..Len(Inputs(s)) : \E k \in 1..Len(files[s]) : Inputs(s)[j] = files[s][k]
<1> DEFINE q == files[s]
           r == Inputs(s)
<1>1. Items(s) \subseteq Nat
  BY StreamsShape DEF TypeInv, Items
<1>2. PICK n \in 0..Cardinality(Items(s)) : q \in [1..n -> Items(s)]
  BY DEF FilesOk, InOrder
<1>3. n \in Nat /\ q \in Seq(Items(s)) /\ Len(q) = n /\ DOMAIN q = 1..n
  BY <1>2, MadeSeq
<1>4. \A j, k \in 1..n : j < k => q[j] < q[k]
  BY <1>3 DEF FilesOk, InOrder
<1>5. \A j, k \in 1..n : j # k => q[j] # q[k]
  <2>1. \A j \in 1..n : q[j] \in Nat
    BY <1>1, <1>2
  <2> QED BY <1>3, <1>4, <2>1
<1>6. DropsInit(s) /\ q # <<>> => q[1] = 0
  <2>1. DropsInit(s) => Offset(s) = 1 /\ 0 \in Items(s)
    BY StreamsShape DEF TypeInv, DropsInit, Offset, Items
  <2> QED BY <2>1 DEF FilesOk
<1>7. CASE DropsInit(s) /\ q # <<>>
  <2>1. r = Tail(q)
    BY <1>7 DEF Inputs
  <2> HIDE DEF q, r
  <2>2. /\ r \in Seq(Items(s)) /\ Len(r) = n - 1 /\ DOMAIN r = 1..Len(r)
        /\ \A i \in 1..Len(r) : r[i] = q[i + 1]
    BY <1>3, <1>7, <2>1, HeadTailProperties, LenProperties
  <2>3. n \in Nat \ {0} /\ Len(r) \in Nat
    BY <1>3, <1>7, <2>2, EmptySeq, LenProperties
  <2>4. \A j, k \in 1..Len(r) : j # k => r[j] # r[k]
    BY <1>5, <2>2, <2>3
  <2>5. ASSUME NEW k \in 1..n PROVE (\E j \in 1..Len(r) : r[j] = q[k]) \/ q[k] = 0
    <3>1. k = 1 \/ (k - 1 \in 1..Len(r) /\ (k - 1) + 1 = k)
      BY <2>2, <2>3
    <3> QED BY <1>6, <1>7, <2>2, <3>1
  <2>6. ASSUME NEW j \in 1..Len(r) PROVE \E k \in 1..n : r[j] = q[k]
    <3>1. j + 1 \in 1..n
      BY <2>2, <2>3
    <3> QED BY <2>2, <3>1
  <2> QED BY <1>1, <1>3, <1>7, <2>2, <2>3, <2>4, <2>5, <2>6 DEF q, r
<1>8. CASE ~(DropsInit(s) /\ q # <<>>)
  <2>1. r = q
    BY <1>8 DEF Inputs
  <2> HIDE DEF q, r
  <2> QED BY <1>1, <1>3, <1>5, <1>8, <2>1 DEF q, r
<1> QED BY <1>7, <1>8

LEMMA WantedShape ==
  ASSUME TypeInv, FilesOk, NEW s \in Streams
  PROVE  /\ Wanted(s) \in Seq(Items(s)) /\ Len(Wanted(s)) \in Nat
         /\ Subtitled(s) => Wanted(s) = files[s]
         /\ ~Subtitled(s) => Wanted(s) = Inputs(s)
         /\ Stays(s) => Subtitled(s)
         /\ Wanted(s) = <<>> <=> Len(Wanted(s)) = 0
<1>1. /\ files[s] \in Seq(Items(s)) /\ Len(files[s]) \in Nat
      /\ Inputs(s) \in Seq(Items(s)) /\ Len(Inputs(s)) \in Nat
  BY FilesShape
<1>2. Wanted(s) \in Seq(Items(s)) /\ Len(Wanted(s)) \in Nat
  BY <1>1 DEF Wanted
<1>3. Wanted(s) = <<>> <=> Len(Wanted(s)) = 0
  BY <1>2, EmptySeq
<1> QED BY <1>2, <1>3 DEF Wanted, Stays

\* Where the items of a stream may be: all in their temporary files, all in combined
\* files, all in an output, or some combined and the others not yet.
Placed(s) ==
  \/ InTemp(s, files[s], 0)
  \/ InParts(s, files[s], Len(files[s]))
  \/ ~Stays(s) /\ \E p : HasAll(p, s)
  \/ \E n \in Nat : /\ InTemp(s, Inputs(s), n)
                    /\ n > 0 => \E m \in Nat : m >= n /\ InParts(s, Inputs(s), Upto(m, s))

LEMMA PartsHold ==
  ASSUME TypeInv, BitsInv, FilesOk, NEW s \in Streams, NEW q, NEW n \in Nat, InParts(s, q, n),
         NEW k \in 1..n
  PROVE  Held(s, q[k])
<1>1. parts[s] \in Seq(Bits) /\ DOMAIN parts[s] = 1..Len(parts[s])
  BY LenProperties DEF BitsInv
<1>2. k \in DOMAIN parts[s] /\ Good(parts[s][k], s, q[k])
  BY <1>1 DEF InParts
<1> QED BY <1>2 DEF Held, Holds, Good

LEMMA TrackHolds ==
  ASSUME TypeInv, FilesOk, NEW s \in Streams, ~Stays(s), NEW p, Has(p, s),
         NEW k \in 1..Len(Wanted(s))
  PROVE  Held(s, Wanted(s)[k])
<1>1. PICK q \in disk[p] : p \in DOMAIN disk /\ Track(q, s)
  BY DEF Has
<1>2. q \in Seq(Bits) /\ Len(q) = Len(Wanted(s)) /\ DOMAIN q = 1..Len(q)
  BY <1>1, LenProperties DEF Track, IsTrack
<1>3. k \in DOMAIN q /\ Good(q[k], s, Wanted(s)[k])
  BY <1>1, <1>2 DEF Track
<1> QED BY <1>1, <1>3 DEF Held, Holds, Good

LEMMA PlacedKept ==
  \A s \in Streams : TypeInv /\ BitsInv /\ FilesOk /\ Placed(s) => Kept(s)
<1> SUFFICES ASSUME NEW s \in Streams, TypeInv, BitsInv, FilesOk, Placed(s) PROVE Kept(s)
  OBVIOUS
<1>1. /\ DOMAIN files[s] = 1..Len(files[s]) /\ Len(files[s]) \in Nat /\ Len(Inputs(s)) \in Nat
      /\ \A k \in 1..Len(files[s]) :
              \/ \E j \in 1..Len(Inputs(s)) : Inputs(s)[j] = files[s][k]
              \/ DropsInit(s) /\ files[s][k] = 0
  BY FilesShape
<1>2. CASE InTemp(s, files[s], 0)
  <2>1. \A k \in 1..Len(files[s]) : Held(s, files[s][k])
    BY <1>1, <1>2 DEF InTemp, Held
  <2> QED BY <1>1, <2>1 DEF Kept
<1>3. CASE InParts(s, files[s], Len(files[s]))
  <2>1. \A k \in 1..Len(files[s]) : Held(s, files[s][k])
    BY <1>1, <1>3, PartsHold
  <2> QED BY <1>1, <2>1 DEF Kept
<1>4. CASE ~Stays(s) /\ \E p : HasAll(p, s)
  <2>1. Len(Wanted(s)) \in Nat /\ (Wanted(s) = <<>> <=> Len(Wanted(s)) = 0)
    BY WantedShape
  <2>2. \A k \in 1..Len(Wanted(s)) : Held(s, Wanted(s)[k])
    <3>1. ASSUME NEW k \in 1..Len(Wanted(s)) PROVE Held(s, Wanted(s)[k])
      <4>1. Wanted(s) # <<>>
        BY <2>1
      <4>2. PICK p : Has(p, s)
        BY <1>4, <4>1 DEF HasAll
      <4> QED BY <1>4, <4>2, TrackHolds
    <3> QED BY <3>1
  <2>3. CASE Subtitled(s)
    BY <1>1, <2>2, <2>3, WantedShape DEF Kept
  <2>4. CASE ~Subtitled(s)
    <3>1. Wanted(s) = Inputs(s)
      BY <2>4, WantedShape
    <3> QED BY <1>1, <2>2, <3>1 DEF Kept
  <2> QED BY <2>3, <2>4
<1>5. CASE \E n \in Nat : /\ InTemp(s, Inputs(s), n)
                          /\ n > 0 => \E m \in Nat : m >= n /\ InParts(s, Inputs(s), Upto(m, s))
  <2>1. PICK n \in Nat : /\ InTemp(s, Inputs(s), n)
                         /\ n > 0 => \E m \in Nat : m >= n /\ InParts(s, Inputs(s), Upto(m, s))
    BY <1>5
  <2>2. ASSUME NEW k \in 1..Len(Inputs(s)) PROVE Held(s, Inputs(s)[k])
    <3>1. CASE k > n
      BY <2>1, <3>1 DEF InTemp, Held
    <3>2. CASE ~(k > n)
      <4>1. n > 0 /\ k \in Nat
        BY <1>1, <3>2
      <4>2. PICK m \in Nat : m >= n /\ InParts(s, Inputs(s), Upto(m, s))
        BY <2>1, <4>1
      <4>3. Upto(m, s) \in Nat /\ k \in 1..Upto(m, s)
        BY <1>1, <3>2, <4>1, <4>2 DEF Upto
      <4> QED BY <4>2, <4>3, PartsHold
    <3> QED BY <3>1, <3>2
  <2> QED BY <1>1, <2>2 DEF Kept
<1> QED BY <1>2, <1>3, <1>4, <1>5 DEF Placed

-----------------------------------------------------------------------------
LEMMA ItemNames ==
  ASSUME TypeInv, NEW s \in Streams
  PROVE  s \in Nat /\ Items(s) \subseteq Nat
BY StreamsShape DEF TypeInv, Streams, Items

\* The pieces of files that are there.
LEMMA PiecesShape ==
  ASSUME TypeInv, BitsInv, NEW s \in Streams, NEW q \in Seq(Items(s))
  PROVE  /\ Pieces(s, q) \in Seq(Bits) /\ Len(Pieces(s, q)) = Len(q)
         /\ \A k \in 1..Len(q) : /\ Pieces(s, q)[k] = Piece(s, q[k])
                                 /\ temp[s][q[k]] # "none" => Good(Pieces(s, q)[k], s, q[k])
<1>1. Len(q) \in Nat /\ \A k \in 1..Len(q) : q[k] \in Items(s)
  BY LenProperties
<1>2. \A k \in 1..Len(q) : temp[s][q[k]] \in {"none", "cipher", "clear", "bad", "torn"}
  BY <1>1 DEF BitsInv, Fates
<1>3. \A k \in 1..Len(q) : Piece(s, q[k]) \in Bits
  BY <1>1, <1>2, ItemNames DEF Piece, Bits
<1>4. Pieces(s, q) \in [1..Len(q) -> Bits]
  BY <1>3 DEF Pieces
<1>5. Pieces(s, q) \in Seq(Bits) /\ Len(Pieces(s, q)) = Len(q)
  BY <1>1, <1>4, MadeSeq
<1>6. \A k \in 1..Len(q) : Pieces(s, q)[k] = Piece(s, q[k])
  BY DEF Pieces
<1>7. \A k \in 1..Len(q) : temp[s][q[k]] # "none" => Good(Piece(s, q[k]), s, q[k])
  BY <1>2 DEF Piece, Good
<1> QED BY <1>5, <1>6, <1>7

\* A group of the inputs.
LEMMA ChunkShape ==
  ASSUME TypeInv, FilesOk, cur \in Streams, pos < Len(Inputs(cur))
  PROVE  /\ Chunk(cur) \in Seq(Items(cur)) /\ Len(Chunk(cur)) = Upto(pos + GroupSize, cur) - pos
         /\ \A k \in 1..Len(Chunk(cur)) :
              Chunk(cur)[k] = Inputs(cur)[pos + k] /\ pos + k \in 1..Len(Inputs(cur))
         /\ Upto(pos + GroupSize, cur) \in Nat /\ pos < Upto(pos + GroupSize, cur)
         /\ Upto(pos + GroupSize, cur) <= Len(Inputs(cur)) /\ Upto(pos, cur) = pos
<1> DEFINE r == Inputs(cur)
           e == Upto(pos + GroupSize, cur)
<1>1. /\ r \in Seq(Items(cur)) /\ Len(r) \in Nat /\ \A k \in 1..Len(r) : r[k] \in Items(cur)
      /\ pos \in Nat /\ GroupSize \in Nat \ {0}
  BY FilesShape, SessionAssumption DEF TypeInv
<1>2. /\ Chunk(cur) = SubSeq(r, pos + 1, e) /\ e \in Nat /\ pos < e /\ e <= Len(r)
      /\ Upto(pos, cur) = pos
  BY <1>1 DEF Chunk, Upto
<1> HIDE DEF r, e
<1>3. \A i \in (pos + 1)..e : r[i] \in Items(cur)
  BY <1>1, <1>2
<1>4. /\ SubSeq(r, pos + 1, e) \in Seq(Items(cur))
      /\ Len(SubSeq(r, pos + 1, e)) = IF pos + 1 <= e THEN e - (pos + 1) + 1 ELSE 0
      /\ \A i \in 1..(e - (pos + 1) + 1) : SubSeq(r, pos + 1, e)[i] = r[(pos + 1) + i - 1]
  BY <1>1, <1>2, <1>3, SubSeqProperties
<1>5. Len(Chunk(cur)) = e - pos
  BY <1>1, <1>2, <1>4
<1>6. ASSUME NEW k \in 1..Len(Chunk(cur))
      PROVE  Chunk(cur)[k] = r[pos + k] /\ pos + k \in 1..Len(r)
  <2>1. k \in 1..(e - (pos + 1) + 1) /\ (pos + 1) + k - 1 = pos + k
    BY <1>1, <1>2, <1>5
  <2> QED BY <1>1, <1>2, <1>4, <1>5, <2>1
<1> QED BY <1>2, <1>4, <1>5, <1>6 DEF r, e

\* A group is combined behind those that are, while its files are there.
LEMMA GroupCombined ==
  ASSUME Inv, BitsInv, HoldInv, CombineGroup
  PROVE  /\ cur \in Streams /\ FilesOk /\ ~setup.skipMerge /\ CurOk
         /\ LET q == SubSeq(parts[cur], 1, pos) \o Pieces(cur, Chunk(cur))
            IN /\ parts' = [parts EXCEPT ![cur] = q] /\ q \in Seq(Bits)
               /\ Len(q) = Upto(pos + GroupSize, cur)
               /\ \A k \in 1..Len(q) : Good(q[k], cur, Inputs(cur)[k])
<1> DEFINE old == SubSeq(parts[cur], 1, pos)
           new == Pieces(cur, Chunk(cur))
           q == old \o new
           e == Upto(pos + GroupSize, cur)
<1>1. /\ pc = "grouping" /\ pos < Len(Inputs(cur)) /\ parts' = [parts EXCEPT ![cur] = q]
  BY DEF CombineGroup
<1>2. /\ cur \in Streams /\ FilesOk /\ ~setup.skipMerge /\ CurOk /\ TypeInv /\ pos \in Nat
      /\ pos > 0 => InParts(cur, Inputs(cur), Upto(pos, cur))
      /\ InTemp(cur, Inputs(cur), pos)
  BY <1>1 DEF Inv, TypeInv, HoldInv, Closers, InStream, CurOk
<1>3. /\ Chunk(cur) \in Seq(Items(cur)) /\ Len(Chunk(cur)) = e - pos
      /\ \A k \in 1..Len(Chunk(cur)) :
           Chunk(cur)[k] = Inputs(cur)[pos + k] /\ pos + k \in 1..Len(Inputs(cur))
      /\ e \in Nat /\ pos < e /\ e <= Len(Inputs(cur)) /\ Upto(pos, cur) = pos
  BY <1>1, <1>2, ChunkShape
<1>4. /\ new \in Seq(Bits) /\ Len(new) = e - pos
      /\ \A k \in 1..Len(new) : Good(new[k], cur, Inputs(cur)[pos + k])
  <2>1. /\ new \in Seq(Bits) /\ Len(new) = Len(Chunk(cur))
        /\ \A k \in 1..Len(Chunk(cur)) : temp[cur][Chunk(cur)[k]] # "none" =>
             Good(new[k], cur, Chunk(cur)[k])
    BY <1>2, <1>3, PiecesShape
  <2>2. Len(Inputs(cur)) \in Nat
    BY <1>2, FilesShape
  <2>3. ASSUME NEW k \in 1..Len(new) PROVE Good(new[k], cur, Inputs(cur)[pos + k])
    <3>1. /\ Chunk(cur)[k] = Inputs(cur)[pos + k] /\ pos + k \in 1..Len(Inputs(cur))
          /\ pos + k > pos
      BY <1>2, <1>3, <2>1, <2>2
    <3>2. temp[cur][Chunk(cur)[k]] # "none"
      BY <1>2, <3>1 DEF InTemp
    <3> QED BY <2>1, <3>1, <3>2
  <2> HIDE DEF new
  <2> QED BY <1>3, <2>1, <2>3
<1>5. /\ old \in Seq(Bits) /\ Len(old) = pos
      /\ \A k \in 1..pos : Good(old[k], cur, Inputs(cur)[k])
  <2>1. parts[cur] \in Seq(Bits)
    BY <1>2 DEF BitsInv
  <2>2. pos > 0 => Len(parts[cur]) = pos /\ \A k \in 1..pos : Good(parts[cur][k], cur, Inputs(cur)[k])
    BY <1>2, <1>3 DEF InParts
  <2>3. \A i \in 1..pos : parts[cur][i] \in Bits
    BY <1>2, <2>1, <2>2, LenProperties
  <2>4. /\ old \in Seq(Bits) /\ Len(old) = IF 1 <= pos THEN pos - 1 + 1 ELSE 0
        /\ \A i \in 1..(pos - 1 + 1) : old[i] = parts[cur][1 + i - 1]
    BY <1>2, <2>3, SubSeqProperties
  <2> HIDE DEF old
  <2>5. \A i \in 1..pos : old[i] = parts[cur][i]
    BY <1>2, <2>4
  <2> QED BY <1>2, <2>2, <2>4, <2>5
<1> HIDE DEF old, new, e
<1>6. /\ q \in Seq(Bits) /\ Len(q) = e
      /\ \A k \in 1..Len(q) : q[k] = IF k <= pos THEN old[k] ELSE new[k - pos]
  <2>1. /\ q \in Seq(Bits) /\ Len(q) = Len(old) + Len(new)
        /\ \A k \in 1..Len(q) : q[k] = IF k <= Len(old) THEN old[k] ELSE new[k - Len(old)]
    BY <1>4, <1>5, ConcatProperties
  <2>2. Len(old) = pos /\ Len(new) = e - pos /\ pos + (e - pos) = e
    BY <1>2, <1>3, <1>4, <1>5
  <2> HIDE DEF q
  <2> QED BY <2>1, <2>2
<1>7. ASSUME NEW k \in 1..Len(q) PROVE Good(q[k], cur, Inputs(cur)[k])
  <2>1. CASE k <= pos
    BY <1>2, <1>5, <1>6, <2>1
  <2>2. CASE ~(k <= pos)
    <3>1. k - pos \in 1..Len(new) /\ pos + (k - pos) = k
      BY <1>2, <1>3, <1>4, <1>6, <2>2
    <3> QED BY <1>4, <1>6, <2>2, <3>1
  <2> QED BY <2>1, <2>2
<1> QED BY <1>1, <1>2, <1>6, <1>7 DEF old, new, e

\* What is in the temporary directories are pieces of the streams.
LEMMA BitsSame ==
  ASSUME Inv, BitsInv, [Next]_vars, DOMAIN parts' = Streams,
         \A s \in Streams :
           /\ parts'[s] = parts[s] \/ parts'[s] \in Seq(Bits)
           /\ temp'[s] = temp[s] \/ temp'[s] \in [Items(s) -> Fates] \cup [Items(s) -> Fates']
  PROVE  BitsInv'
<1>1. Streams' = Streams /\ \A s : Items(s)' = Items(s)
  BY SetupStays, SetupKept
<1>2. Fates \subseteq Fates'
  BY StaysInterrupted DEF Fates
<1>3. \A s \in Streams : temp'[s] \in [Items(s) -> Fates']
  BY <1>2 DEF BitsInv
<1> QED BY <1>1, <1>3 DEF BitsInv

LEMMA BitsKept ==
  ASSUME Inv, BitsInv, HoldInv, [Next]_vars
  PROVE  BitsInv'
<1>0. /\ setup' = setup /\ TypeInv /\ DOMAIN parts = Streams
      /\ \A s \in Streams : temp[s] \in [Items(s) -> Fates]
      /\ \A s : Arrives(s) \in {"clear", "cipher"}
      /\ {"none", "cipher", "clear", "bad"} \subseteq Fates
  BY SetupStays DEF Inv, BitsInv, Arrives, Fates
<1>1. CASE Download
  <2>1. PICK got \in Gots : temp' = Fetched(got)
    BY <1>1 DEF Download
  <2>2. \A s \in Streams : temp'[s] \in [Items(s) -> Fates]
    BY <1>0, <2>1 DEF Fetched
  <2> QED BY <1>0, <1>1, <2>2, BitsSame DEF Download
<1>2. CASE DownloadFails
  <2>1. PICK t \in Streams : temp' = [temp EXCEPT ![t] = [i \in Items(t) |->
                                        IF @[i] = "none" THEN Arrives(t) ELSE @[i]]]
    BY <1>2 DEF DownloadFails
  <2>2. \A s \in Streams : temp'[s] = temp[s] \/
          temp'[s] \in [Items(s) -> Fates]
    BY <1>0, <2>1 DEF TypeInv
  <2> QED BY <1>0, <1>2, <2>2, BitsSame DEF DownloadFails
<1>3. CASE DecryptSegment
  <2>1. PICK i, n : temp' = [temp EXCEPT ![cur][i] = Decrypted(@, i, n)]
    BY <1>3 DEF DecryptSegment
  <2>2. \A x \in Fates : Decrypted(x, i, n) \in Fates
    BY DEF Decrypted, Fates
  <2>3. \A s \in Streams : temp'[s] \in [Items(s) -> Fates]
    <3>1. DOMAIN temp = Streams
      BY <1>0 DEF TypeInv
    <3> QED BY <1>0, <2>1, <2>2, <3>1
  <2> QED BY <1>0, <1>3, <2>3, BitsSame DEF DecryptSegment
<1>4. CASE DropImageSegments \/ DropGrouped \/ CloseStream
  <2>1. /\ DOMAIN temp = Streams /\ DOMAIN temp' = Streams /\ DOMAIN parts' = Streams
        /\ \A s \in Streams : parts'[s] = parts[s] \/ parts'[s] = <<>>
        /\ \A s \in Streams : temp'[s] = temp[s] \/
             temp'[s] \in [Items(s) -> Fates]
    <3>1. DOMAIN temp = Streams
      BY <1>0 DEF TypeInv
    <3>2. CASE DropImageSegments
      BY <1>0, <3>1, <3>2 DEF DropImageSegments
    <3>3. CASE DropGrouped
      BY <1>0, <3>1, <3>3 DEF DropGrouped
    <3>4. CASE CloseStream
      BY <1>0, <3>1, <3>4 DEF CloseStream
    <3> QED BY <1>4, <3>2, <3>3, <3>4
  <2>2. <<>> \in Seq(Bits)
    BY EmptySeq
  <2> QED BY <1>0, <2>1, <2>2, BitsSame
<1>5. CASE SavePngs
  <2>1. cur \in Streams /\ FilesOk
    BY <1>5 DEF SavePngs, HoldInv, Closers, InStream, Inv, TypeInv
  <2>2. Pieces(cur, files[cur]) \in Seq(Bits)
    BY <1>0, <2>1, PiecesShape, FilesShape
  <2> QED BY <1>0, <1>5, <2>2, BitsSame DEF SavePngs
<1>6. CASE CombineGroup
  <2>1. cur \in Streams
    BY <1>6, GroupCombined
  <2>2. SubSeq(parts[cur], 1, pos) \o Pieces(cur, Chunk(cur)) \in Seq(Bits)
    BY <1>6, GroupCombined
  <2> DEFINE q == SubSeq(parts[cur], 1, pos) \o Pieces(cur, Chunk(cur))
  <2>3. parts' = [parts EXCEPT ![cur] = q] /\ temp' = temp
    BY <1>6 DEF CombineGroup
  <2> HIDE DEF q
  <2>4. q \in Seq(Bits)
    BY <2>2 DEF q
  <2> QED BY <1>0, <2>3, <2>4, BitsSame
<1>7. CASE ClearTemp
  <2>1. /\ DOMAIN parts' = Streams
        /\ \A s \in Streams : /\ parts'[s] = parts[s] \/ parts'[s] = <<>>
                              /\ temp'[s] = temp[s] \/ temp'[s] = [i \in Items(s) |-> "none"]
    BY <1>0, <1>7 DEF ClearTemp
  <2>2. <<>> \in Seq(Bits)
    BY EmptySeq
  <2> QED BY <1>0, <2>1, <2>2, BitsSame
<1>8. CASE temp' = temp /\ parts' = parts
  BY <1>0, <1>8, BitsSame
<1>9. CASE DecryptTears
  <2>1. PICK i : temp' = [temp EXCEPT ![cur][i] = "torn"]
    BY <1>9 DEF DecryptTears
  <2>2. "torn" \in Fates' /\ Fates \subseteq Fates'
    BY <1>9, StaysInterrupted DEF DecryptTears, Fates, Interrupted
  <2>3. \A s \in Streams : temp'[s] \in [Items(s) -> Fates']
    <3>1. DOMAIN temp = Streams
      BY <1>0 DEF TypeInv
    <3> QED BY <1>0, <2>1, <2>2, <3>1
  <2> QED BY <1>0, <1>9, <2>3, BitsSame DEF DecryptTears
<1>10. \/ Download \/ DownloadFails \/ DecryptSegment \/ DecryptTears \/ DropImageSegments
       \/ DropGrouped \/ CloseStream \/ SavePngs \/ CombineGroup \/ ClearTemp \/ (temp' = temp /\ parts' = parts)
  <2>1. CASE Begin \/ Cancel \/ WriteTears \/ Crash \/ UNCHANGED vars
    BY <2>1 DEF Begin, Cancel, WriteTears, Crash, Goto, vars, data
  <2>2. CASE ToolEnds
    BY <2>2 DEF ToolEnds, MergeEnds, ToolFails, DecryptEnds, DecryptFails, MuxEnds
  <2>3. CASE Steps
    <3>1. CASE Wait \/ NoticeCancel \/ LoadSource \/ LoadFails \/ Pause \/ Select
               \/ SkipDownload \/ GoDownload \/ Probe
      BY <3>1 DEF Wait, NoticeCancel, LoadSource, LoadFails, Pause, Select, SkipDownload,
                  GoDownload, Probe, Goto, data
    <3>2. CASE Reserve \/ Finalize \/ DecryptionDone \/ SkipMerge \/ GroupsDone
      BY <3>2 DEF Reserve, Finalize, DecryptionDone, SkipMerge, GroupsDone, Goto, data
    <3>3. CASE StartMerge \/ NothingToMerge \/ LeaveEncrypted \/ StartMux \/ ForgeFails
               \/ WriteSubtitle \/ BinaryMerge \/ ToolCancelled
      BY <3>3 DEF StartMerge, NothingToMerge, LeaveEncrypted, StartMux, ForgeFails,
                  WriteSubtitle, BinaryMerge, ToolCancelled, Goto, data
    <3>4. CASE StartDecrypt \/ DecryptCancelled \/ RemoveSource \/ RenameDecrypted \/ Forge
               \/ Sweep \/ NameOutput
      BY <3>4 DEF StartDecrypt, DecryptCancelled, RemoveSource, RenameDecrypted, Forge,
                  Sweep, NameOutput
    <3> QED BY <2>3, <3>1, <3>2, <3>3, <3>4 DEF Steps
  <2> QED BY <2>1, <2>2, <2>3 DEF Next
<1> QED BY <1>1, <1>2, <1>3, <1>4, <1>5, <1>6, <1>7, <1>8, <1>9, <1>10

LEMMA TrackSame ==
  ASSUME UNCHANGED <<setup, opts, files>>, pc \in Probed, pc' \in Probed
  PROVE  \A q, s : Track(q, s)' <=> Track(q, s)
<1>1. \A s : Wanted(s)' = Wanted(s) /\ Stays(s)' = Stays(s)
  BY PlansSame
<1>2. \A q, s : IsTrack(q, s)' <=> IsTrack(q, s)
  BY <1>1 DEF IsTrack
<1> QED BY <1>1, <1>2 DEF Track

\* With all streams that are closed and those to come, the one in work decides.
LEMMA ClosedKept ==
  TypeInv /\ BitsInv /\ FilesOk /\ ClosedOk /\ cur \in Streams /\ Placed(cur) =>
    \A s \in Streams : Kept(s)
<1> SUFFICES ASSUME TypeInv, BitsInv, FilesOk, ClosedOk, cur \in Streams, Placed(cur),
                    NEW s \in Streams
             PROVE  Kept(s)
  OBVIOUS
<1>1. CASE s = cur
  BY <1>1, PlacedKept
<1>2. CASE s > cur
  BY <1>2, PlacedKept DEF ClosedOk, Placed
<1>3. CASE s < cur
  <2>1. s \in 1..Len(merged)
    <3>1. s \in Nat /\ s >= 1 /\ cur \in Nat /\ Len(merged) = cur - 1
      BY StreamsShape DEF TypeInv, Streams, ClosedOk
    <3> QED BY <1>3, <3>1
  <2>2. Placed(s)
    BY <2>1 DEF ClosedOk, Placed
  <2> QED BY <2>2, PlacedKept
<1> QED BY <1>1, <1>2, <1>3, ItemNames

LEMMA CurPlaced ==
  ASSUME TypeInv, BitsInv, FilesOk, CurOk, pc \in Closers, pc # "skipping", cur \in Streams
  PROVE  Placed(cur)
<1>0. Len(Inputs(cur)) \in Nat /\ pos \in Nat /\ GroupSize \in Nat \ {0}
  BY FilesShape, SessionAssumption DEF TypeInv
<1>1. CASE pc \in {"decrypting", "subtitling", "imaging"}
  BY <1>1 DEF CurOk, Placed
<1>2. CASE pc = "writing"
  BY <1>2 DEF CurOk, Placed
<1>3. CASE pc = "grouping"
  <2>1. InTemp(cur, Inputs(cur), pos) /\ (pos > 0 => InParts(cur, Inputs(cur), Upto(pos, cur)))
    BY <1>3 DEF CurOk
  <2> QED BY <1>0, <2>1 DEF Placed
<1>4. CASE pc = "dropping"
  <2>1. /\ InTemp(cur, Inputs(cur), pos)
        /\ InParts(cur, Inputs(cur), Upto(pos + GroupSize, cur))
        /\ pos + GroupSize \in Nat /\ pos + GroupSize >= pos
    BY <1>0, <1>4 DEF CurOk
  <2> QED BY <1>0, <2>1 DEF Placed
<1>5. CASE pc \in {"merging", "ffmpeg merging"}
  <2>1. CASE Grouped(cur)
    <3>1. InParts(cur, Inputs(cur), Upto(Len(Inputs(cur)), cur))
      BY <1>5, <2>1 DEF CurOk, Upto
    <3>2. InTemp(cur, Inputs(cur), Len(Inputs(cur)))
      BY <1>0 DEF InTemp
    <3> QED BY <1>0, <3>1, <3>2 DEF Placed
  <2>2. CASE ~Grouped(cur)
    <3>1. InTemp(cur, Inputs(cur), 0)
      BY <1>5, <2>2 DEF CurOk
    <3>2. 0 \in Nat /\ ~(0 > 0)
      OBVIOUS
    <3> QED BY <3>1, <3>2 DEF Placed
  <2> QED BY <2>1, <2>2
<1>6. CASE pc \in {"deciphering", "decrypt tool", "removing", "renaming"}
  <2>1. ~Stays(cur) /\ \E p : HasAll(p, cur)
    BY <1>6 DEF CurOk, Stays
  <2> QED BY <2>1 DEF Placed
<1>7. CASE pc = "closing"
  BY <1>7 DEF CurOk, Placed
<1> QED BY <1>1, <1>2, <1>3, <1>4, <1>5, <1>6, <1>7 DEF Closers, InStream

LEMMA MuxKept ==
  \A s \in Streams :
    TypeInv /\ BitsInv /\ FilesOk
      /\ (Stays(s) => InParts(s, files[s], Len(files[s]))) /\ (\E p : HasAll(p, s)) => Kept(s)
BY PlacedKept DEF Placed

\* While a session runs nothing is lost.
LEMMA RunsKept ==
  ASSUME Inv, BitsInv, HoldInv, pc \notin Final, NEW s \in Streams
  PROVE  Kept(s)
<1>0. TypeInv /\ pc \in Labels
  BY DEF Inv, TypeInv
<1>1. CASE pc \in Early
  <2>1. files[s] = <<>>
    BY <1>1 DEF HoldInv
  <2> QED BY <2>1 DEF Kept
<1>2. CASE pc \in Downloaded
  <2>1. FilesOk /\ Placed(s)
    BY <1>2 DEF HoldInv, AllInTemp, Placed
  <2> QED BY <1>0, <2>1, PlacedKept
<1>3. CASE pc \in Closers
  <2>1. cur \in Streams /\ FilesOk
    BY <1>0, <1>3 DEF TypeInv, Closers, HoldInv
  <2>2. CASE setup.skipMerge
    <3>1. Placed(s)
      BY <1>3, <2>2 DEF HoldInv, AllInTemp, Placed
    <3> QED BY <1>0, <2>1, <3>1, PlacedKept
  <2>3. CASE ~setup.skipMerge
    <3>1. pc # "skipping" /\ ClosedOk /\ CurOk
      BY <1>3, <2>3 DEF HoldInv
    <3> QED BY <1>0, <1>3, <2>1, <3>1, ClosedKept, CurPlaced
  <2> QED BY <2>2, <2>3
<1>4. CASE pc \in Muxers
  <2>1. FilesOk /\ MuxOk /\ s \in 1..Len(merged)
    BY <1>4 DEF HoldInv, MuxOk, Streams
  <2>2. (Stays(s) => InParts(s, files[s], Len(files[s]))) /\ (\E p : HasAll(p, s))
    BY <2>1 DEF MuxOk
  <2> QED BY <1>0, <2>1, <2>2, MuxKept
<1>5. CASE pc = "clearing"
  <2>1. FilesOk /\ ClearOk
    BY <1>5 DEF HoldInv
  <2>2. CASE setup.skipMerge
    <3>1. Placed(s)
      BY <2>1, <2>2 DEF ClearOk, AllInTemp, Placed
    <3> QED BY <1>0, <2>1, <3>1, PlacedKept
  <2>3. CASE ~setup.skipMerge
    BY <1>0, <2>1, <2>3, MuxKept DEF ClearOk, HasAll
  <2> QED BY <2>2, <2>3
<1> QED BY <1>0, <1>1, <1>2, <1>3, <1>4, <1>5 DEF Labels, Late, Closers, Muxers

-----------------------------------------------------------------------------
(* What a step has to keep, by where it leads.                                 *)

LEMMA EarlyHold ==
  ASSUME pc' \in Early, setup' = setup, merged' = <<>>, \A s \in Streams : files'[s] = <<>>
  PROVE  HoldInv'
<1>1. pc' \notin Downloaded \cup Closers \cup Muxers \cup Final \cup {"clearing"}
  BY DEF Early, Downloaded, Closers, InStream, Muxers, Final
<1>2. Streams' = Streams
  BY DEF Streams
<1> QED BY <1>1, <1>2 DEF HoldInv, Downloaded, Closers, InStream, Muxers, Final

LEMMA DownHold ==
  ASSUME pc' \in Downloaded, merged' = <<>>, FilesOk', AllInTemp'
  PROVE  HoldInv'
<1>1. pc' \notin Early \cup Closers \cup Muxers \cup Final \cup {"clearing"}
  BY DEF Early, Downloaded, Closers, InStream, Muxers, Final
<1> QED BY <1>1 DEF HoldInv, Early, Closers, InStream, Muxers, Final

LEMMA CloserHold ==
  ASSUME pc' \in Closers, FilesOk',
         IF setup'.skipMerge THEN pc' \in {"decrypting", "skipping"} /\ merged' = <<>> /\ AllInTemp'
                             ELSE pc' # "skipping" /\ ClosedOk' /\ CurOk'
  PROVE  HoldInv'
<1>1. pc' \notin Early \cup Downloaded \cup Muxers \cup Final \cup {"clearing"}
  BY DEF Early, Downloaded, Closers, InStream, Muxers, Final
<1> QED BY <1>1 DEF HoldInv, Early, Downloaded, Muxers, Final

LEMMA MuxHold ==
  ASSUME pc' \in Muxers, FilesOk', ~setup'.skipMerge, MuxOk'
  PROVE  HoldInv'
<1>1. pc' \notin Early \cup Downloaded \cup Closers \cup Final \cup {"clearing"}
  BY DEF Early, Downloaded, Closers, InStream, Muxers, Final
<1> QED BY <1>1 DEF HoldInv, Early, Downloaded, Closers, InStream, Final

LEMMA ClearHold ==
  ASSUME pc' = "clearing", FilesOk', ClearOk'
  PROVE  HoldInv'
<1>1. pc' \notin Early \cup Downloaded \cup Closers \cup Final \cup Muxers
  BY DEF Early, Downloaded, Closers, InStream, Muxers, Final
<1> QED BY <1>1 DEF HoldInv, Early, Downloaded, Closers, InStream, Final, Muxers

LEMMA FinalHold ==
  ASSUME pc' \in Final, EndOk'
  PROVE  HoldInv'
<1>1. pc' \notin Early \cup Downloaded \cup Closers \cup Muxers \cup {"clearing"}
  BY DEF Early, Downloaded, Closers, InStream, Muxers, Final
<1> QED BY <1>1 DEF HoldInv, Early, Downloaded, Closers, InStream, Muxers

\* A session that fails, with everything in its place.
LEMMA FailHold ==
  ASSUME pc' \in {"failed", "cancelled", "refused"}, \A s \in Streams' : Kept(s)'
  PROVE  HoldInv'
<1>1. FinishedIsWhole'
  BY DEF FinishedIsWhole
<1>2. EndOk'
  BY <1>1 DEF EndOk
<1> QED BY <1>2, FinalHold DEF Final

LEMMA QuietFail ==
  ASSUME Inv, BitsInv, HoldInv, pc \notin Final, pc' \in {"failed", "cancelled", "refused"},
         UNCHANGED <<setup, temp, parts, files>>,
         disk' = disk \/ \E v : target \notin DOMAIN disk /\ disk' = Put(disk, target, v)
  PROVE  HoldInv'
<1>1. Streams' = Streams /\ \A s : Stream(s)' = Stream(s)
  BY DEF Streams, Stream
<1>2. \A s : DropsInit(s)' = DropsInit(s)
  BY <1>1 DEF DropsInit, RealTime, NeedsTool
<1>3. \A p \in DOMAIN disk : p \in DOMAIN disk' /\ disk'[p] = disk[p]
  BY DEF Put
<1>4. \A s, i : Held(s, i) => Held(s, i)'
  BY <1>1, <1>3 DEF Held
<1>5. \A s \in Streams : Kept(s)'
  <2>1. ASSUME NEW s \in Streams PROVE Kept(s)'
    <3>1. Kept(s) /\ pc # "finished"
      BY RunsKept DEF Final
    <3> QED BY <1>1, <1>2, <1>4, <3>1 DEF Kept
  <2> QED BY <2>1
<1> QED BY <1>1, <1>5, FailHold

\* While streams are closed, a step leaves every output but that of its stream alone.
Untouched(p) == (p \in DOMAIN disk <=> p \in DOMAIN disk') /\ (p \in DOMAIN disk => disk'[p] = disk[p])

LEMMA OwnUntouched ==
  ASSUME Inv, PathInv, PlainNames, [Next]_vars, pc \in Closers,
         NEW p, Own(p), p # out[cur], pc \in Targeted => p # target
  PROVE  Untouched(p)
<1>1. Touches
  BY StepTouches DEF PathInv, DiskInv
<1>2. setup \in Setups
  BY DEF Inv, TypeInv
<1>3. pc \in Targeted => p \notin WorkPaths
  <2>1. SUFFICES ASSUME pc \in Targeted PROVE p \notin WorkPaths
    OBVIOUS
  <2>2. target \in Path /\ PlainName(p.name)
    BY <2>1 DEF PathInv, TargetInv, Own
  <2>3. ~PlainName(DecPath(target).name) /\ ~PlainName(AsidePath(target).name)
    BY <1>2, <2>2, WorkApart
  <2> QED BY <2>1, <2>2, <2>3 DEF WorkPaths
<1>4. pc \notin {"forging", "tool muxing", "sweeping", "naming"}
  BY DEF Closers, InStream
<1>5. CASE disk' = disk
  BY <1>5 DEF Untouched
<1>6. CASE pc \in {"subtitling", "writing", "merging"} /\ Differ(disk, disk', {out[cur]})
  BY <1>6 DEF Differ, Untouched
<1>7. CASE pc = "ffmpeg merging" /\ Differ(disk, disk', {target})
  BY <1>7 DEF Differ, Untouched, Targeted
<1>8. CASE pc \in {"deciphering", "decrypt tool", "removing", "renaming"}
           /\ Differ(disk, disk', WorkPaths)
  BY <1>3, <1>8 DEF Differ, Untouched, Targeted
<1> QED BY <1>1, <1>4, <1>5, <1>6, <1>7, <1>8 DEF Touches

LEMMA ClosedUntouched ==
  ASSUME Inv, PathInv, PlainNames, HoldInv, [Next]_vars, pc \in Closers, ~setup.skipMerge,
         NEW k \in 1..Len(merged)
  PROVE  Untouched(merged[k].path)
<1>1. /\ cur \in Streams /\ ClosedOk /\ CurOk /\ pc # "skipping"
      /\ Own(merged[k].path)
  BY DEF Inv, TypeInv, HoldInv, Closers, PathInv, TargetInv
<1>2. k # cur
  BY <1>1, StreamsShape DEF Inv, TypeInv, ClosedOk
<1>3. Len(out) = Len(setup.streams) /\ cur \in 1..Len(out)
  BY <1>1, StreamsShape DEF PathInv, OutInv, Inv, TypeInv, Closers
<1>4. merged[k].path # out[cur]
  BY <1>1, <1>2, <1>3 DEF ClosedOk
<1>5. pc \in Targeted => merged[k].path # target
  BY <1>1 DEF CurOk, TargetApart
<1> QED BY <1>1, <1>4, <1>5, OwnUntouched

LEMMA ClosedStays ==
  ASSUME Inv, PathInv, PlainNames, HoldInv, [Next]_vars, pc \in Closers, ~setup.skipMerge,
         pc' \in Probed, UNCHANGED <<setup, opts, files, out, merged, cur, told>>,
         \A s \in Streams : s # cur => temp'[s] = temp[s] /\ parts'[s] = parts[s]
  PROVE  FilesOk' /\ ClosedOk'
<1>1. ClosedOk /\ FilesOk /\ cur \in Streams /\ Len(merged) = cur - 1
  BY DEF HoldInv, ClosedOk, Inv, TypeInv, Closers
<1>2. /\ \A q, s : Track(q, s)' <=> Track(q, s)
      /\ Streams' = Streams
      /\ \A s : Wanted(s)' = Wanted(s) /\ Stays(s)' = Stays(s)
  BY TrackSame, PlansSame DEF Probed
<1>3. FilesOk'
  BY <1>1, FilesSame DEF Probed
<1>4. \A k \in 1..Len(merged) : k \in Streams /\ k # cur
  BY <1>1, StreamsShape DEF Inv, TypeInv
<1>5. ASSUME NEW k \in 1..Len(merged) PROVE HasAll(merged[k].path, k)'
  <2>1. HasAll(merged[k].path, k) /\ Untouched(merged[k].path)
    BY <1>1, ClosedUntouched DEF ClosedOk
  <2> QED BY <1>2, <2>1 DEF HasAll, Has, Untouched
<1>6. ASSUME NEW s \in Streams, s > cur PROVE InTemp(s, files[s], 0)'
  <2>1. s # cur /\ InTemp(s, files[s], 0)
    BY <1>1, <1>6, ItemNames DEF ClosedOk, Inv
  <2> QED BY <2>1 DEF InTemp
<1>7. ASSUME NEW k \in 1..Len(merged), Stays(k) PROVE InParts(k, files[k], Len(files[k]))'
  <2>1. InParts(k, files[k], Len(files[k])) /\ parts'[k] = parts[k]
    BY <1>1, <1>4, <1>7 DEF ClosedOk
  <2> QED BY <2>1 DEF InParts
<1>8. \A k \in 1..Len(merged') :
       /\ merged'[k].stream = k /\ HasAll(merged[k].path, k)' /\ merged'[k].path \in told'
       /\ Stays(k)' => InParts(k, files[k], Len(files[k]))'
       /\ Wanted(k)' = <<>> => merged'[k].path = out'[k]
       /\ \A j \in 1..Len(out') : j # k => merged'[k].path # out'[j]
  BY <1>1, <1>2, <1>5, <1>7 DEF ClosedOk
<1>9. /\ Len(merged') = cur' - 1
      /\ \A s \in Streams' : s > cur' => InTemp(s, files[s], 0)'
      /\ \A j, k \in 1..Len(merged') : j # k => merged'[j].path # merged'[k].path
  BY <1>1, <1>2, <1>6 DEF ClosedOk
<1> QED BY <1>3, <1>8, <1>9 DEF ClosedOk

-----------------------------------------------------------------------------
(* Up to the end of the download.                                              *)

LEMMA BeginHolds ==
  ASSUME Begin
  PROVE  HoldInv'
<1>1. /\ merged' = <<>> /\ files' = [s \in Streams |-> <<>>] /\ setup' = setup
      /\ pc' \in {"refused", "waiting", "loading"}
  BY DEF Begin
<1>2. CASE pc' = "refused"
  <2>1. Streams' = Streams
    BY <1>1 DEF Streams
  <2>2. \A s \in Streams' : Kept(s)'
    BY <1>1, <2>1 DEF Kept
  <2> QED BY <1>2, <2>2, FailHold
<1>3. CASE pc' \in {"waiting", "loading"}
  BY <1>1, <1>3, EarlyHold DEF Early
<1> QED BY <1>1, <1>2, <1>3

LEMMA EarlyStepHolds ==
  ASSUME Inv, BitsInv, HoldInv,
         \/ Wait \/ LoadSource \/ LoadFails \/ Pause \/ Select \/ SkipDownload \/ GoDownload
         \/ DownloadFails
  PROVE  HoldInv'
<1>1. /\ pc \in Early /\ UNCHANGED <<setup, files, merged>>
      /\ pc' \in Early \cup {"failed", "refused", "finished"}
      /\ pc' = "finished" => setup.skipDownload
  <2>1. CASE Wait \/ LoadSource \/ LoadFails \/ Pause
    BY <2>1 DEF Wait, LoadSource, LoadFails, Pause, Goto, Early, plans, works
  <2>2. CASE Select \/ SkipDownload \/ GoDownload \/ DownloadFails
    BY <2>2 DEF Select, SkipDownload, GoDownload, DownloadFails, Goto, Early, plans, works
  <2> QED BY <2>1, <2>2
<1>2. merged' = <<>> /\ Streams' = Streams /\ \A s \in Streams : files'[s] = <<>>
  BY <1>1 DEF HoldInv, Streams
<1>3. CASE pc' \in Early
  BY <1>1, <1>2, <1>3, EarlyHold
<1>4. CASE pc' \in {"failed", "refused", "finished"}
  <2>1. \A s \in Streams' : Kept(s)'
    BY <1>2 DEF Kept
  <2>2. FinishedIsWhole'
    BY <1>1 DEF FinishedIsWhole
  <2> QED BY <1>4, <2>1, <2>2, FinalHold DEF EndOk, Final
<1> QED BY <1>1, <1>3, <1>4

LEMMA DownloadHolds ==
  ASSUME Inv, HoldInv, Download
  PROVE  HoldInv'
<1>1. PICK got \in Gots : temp' = Fetched(got) /\ files' = got
  BY DEF Download
<1>2. pc = "downloading" /\ pc' = "probing" /\ UNCHANGED <<setup, merged>>
  BY DEF Download, works
<1>3. merged' = <<>>
  BY <1>2 DEF HoldInv, Early
<1>4. /\ Streams' = Streams
      /\ \A s : Items(s)' = Items(s) /\ InOrder(s)' = InOrder(s) /\ Offset(s)' = Offset(s)
  BY <1>2, SetupKept DEF Offset
<1>5. FilesOk'
  BY <1>1, <1>4 DEF FilesOk, Gots
<1>6. ASSUME NEW s \in Streams PROVE InTemp(s, files[s], 0)'
  <2>1. got[s] \in InOrder(s)
    BY <1>1 DEF Gots
  <2>2. PICK n \in 0..Cardinality(Items(s)) : got[s] \in [1..n -> Items(s)]
    BY <2>1 DEF InOrder
  <2>3. Len(got[s]) = n /\ DOMAIN got[s] = 1..n
    BY <2>2, MadeSeq
  <2>4. \A k \in 1..Len(got[s]) : got[s][k] \in Items(s) /\ got[s][k] \in Range(got[s])
    BY <2>2, <2>3 DEF Range
  <2>5. Arrives(s) # "none"
    BY DEF Arrives
  <2>6. \A i \in Items(s) : i \in Range(got[s]) => temp'[s][i] # "none"
    BY <1>1, <2>5 DEF Fetched
  <2> QED BY <1>1, <2>4, <2>6 DEF InTemp
<1> QED BY <1>2, <1>3, <1>4, <1>5, <1>6, DownHold DEF Downloaded, AllInTemp

LEMMA DownHolds ==
  ASSUME Inv, HoldInv, Probe \/ Reserve
  PROVE  HoldInv'
<1>1. /\ pc \in Downloaded /\ pc' \in Downloaded /\ UNCHANGED <<setup, temp, files, merged>>
  BY DEF Probe, Reserve, Downloaded, data, works
<1>2. /\ Streams' = Streams
      /\ \A s : Items(s)' = Items(s) /\ InOrder(s)' = InOrder(s) /\ Offset(s)' = Offset(s)
  BY <1>1, SetupKept DEF Offset
<1>3. FilesOk /\ AllInTemp /\ merged = <<>>
  BY <1>1 DEF HoldInv
<1>4. FilesOk' /\ AllInTemp'
  BY <1>1, <1>2, <1>3 DEF FilesOk, AllInTemp, InTemp
<1> QED BY <1>1, <1>3, <1>4, DownHold

LEMMA FinalizeHolds ==
  ASSUME Inv, HoldInv, Finalize
  PROVE  HoldInv'
<1>1. /\ pc = "probed" /\ pc' = "decrypting" /\ cur' = 1 /\ 1 \in Streams
      /\ UNCHANGED <<setup, opts, out, temp, files, merged>>
  BY DEF Finalize, data, plans, Inv, TypeInv, Chosen, Downloaded
<1>2. FilesOk /\ AllInTemp /\ merged = <<>>
  BY <1>1 DEF HoldInv, Downloaded
<1>3. FilesOk' /\ Streams' = Streams
  BY <1>1, <1>2, FilesSame, PlansSame DEF Probed, Downloaded, Closers
<1>4. AllInTemp'
  BY <1>1, <1>2, <1>3 DEF AllInTemp, InTemp
<1>5. Len(merged') = 0 /\ 1..0 = {}
  BY <1>1, <1>2
<1>6. ClosedOk'
  <2>1. \A s \in Streams' : InTemp(s, files[s], 0)'
    BY <1>4 DEF AllInTemp
  <2> QED BY <1>1, <1>5, <2>1 DEF ClosedOk
<1>7. CurOk'
  <2>1. InTemp(cur, files[cur], 0)'
    BY <1>1, <1>3, <1>4 DEF AllInTemp, InTemp
  <2> QED BY <1>1, <2>1 DEF CurOk, Targeted
<1> QED BY <1>1, <1>2, <1>3, <1>4, <1>6, <1>7, CloserHold DEF Closers

-----------------------------------------------------------------------------
(* A stream after another: decryption of segments, subtitles, groups.          *)

LEMMA InClosers ==
  ASSUME Inv, HoldInv, pc \in Closers
  PROVE  /\ cur \in Streams /\ cur \in Nat /\ FilesOk /\ TypeInv /\ pos \in Nat
         /\ setup.skipMerge => pc \in {"decrypting", "skipping"} /\ merged = <<>> /\ AllInTemp
         /\ ~setup.skipMerge => pc # "skipping" /\ ClosedOk /\ CurOk
BY DEF Inv, TypeInv, HoldInv, Closers

LEMMA WorkHolds ==
  ASSUME Inv, PathInv, PlainNames, HoldInv, [Next]_vars, pc \in Closers, ~setup.skipMerge,
         pc' \in Closers, pc' # "skipping",
         UNCHANGED <<setup, opts, files, out, merged, cur, told>>,
         \A s \in Streams : s # cur => temp'[s] = temp[s] /\ parts'[s] = parts[s],
         CurOk'
  PROVE  HoldInv'
<1>1. FilesOk' /\ ClosedOk'
  BY ClosedStays DEF Probed
<1> QED BY <1>1, CloserHold

LEMMA DecryptSegmentHolds ==
  ASSUME Inv, PathInv, PlainNames, HoldInv, [Next]_vars, DecryptSegment
  PROVE  HoldInv'
<1>1. /\ pc = "decrypting" /\ pc' = pc
      /\ UNCHANGED <<setup, disk, parts, opts, files, out, merged, cur, target, told>>
  BY DEF DecryptSegment, plans
<1>2. PICK i, n : temp' = [temp EXCEPT ![cur][i] = Decrypted(@, i, n)]
  BY DEF DecryptSegment
<1>3. /\ cur \in Streams /\ FilesOk /\ TypeInv
      /\ setup.skipMerge => merged = <<>> /\ AllInTemp
      /\ ~setup.skipMerge => ClosedOk /\ CurOk
  BY <1>1, InClosers DEF Closers
<1>4. /\ \A s \in Streams : s # cur => temp'[s] = temp[s]
      /\ \A s \in Streams : \A j \in Items(s) : temp[s][j] # "none" => temp'[s][j] # "none"
  <2>1. \A x : Decrypted(x, i, n) # "none"
    BY DEF Decrypted
  <2> QED BY <1>2, <1>3, <2>1 DEF TypeInv
<1>5. \A s \in Streams : InTemp(s, files[s], 0) => InTemp(s, files[s], 0)'
  <2>1. \A s \in Streams : \A k \in 1..Len(files[s]) : files[s][k] \in Items(s)
    BY <1>3, FilesShape, LenProperties
  <2> QED BY <1>1, <1>4, <2>1 DEF InTemp
<1>6. FilesOk' /\ Streams' = Streams
  BY <1>1, <1>3, FilesSame, PlansSame DEF Probed, Closers
<1>7. CASE setup.skipMerge
  <2>1. AllInTemp' /\ merged' = <<>>
    BY <1>1, <1>3, <1>5, <1>6, <1>7 DEF AllInTemp
  <2> QED BY <1>1, <1>6, <1>7, <2>1, CloserHold DEF Closers
<1>8. CASE ~setup.skipMerge
  <2>1. InTemp(cur, files[cur], 0)'
    BY <1>1, <1>3, <1>5, <1>8 DEF CurOk
  <2>2. CurOk'
    BY <1>1, <2>1 DEF CurOk, Targeted
  <2> QED BY <1>1, <1>4, <1>8, <2>2, WorkHolds DEF Closers
<1> QED BY <1>7, <1>8

\* The inputs of a merge are among the files.
LEMMA InputsThere ==
  ASSUME TypeInv, FilesOk, NEW s \in Streams, InTemp(s, files[s], 0), NEW n \in Nat
  PROVE  InTemp(s, Inputs(s), n)
<1>1. \A k \in 1..Len(files[s]) : temp[s][files[s][k]] # "none"
  <2>1. \A k \in 1..Len(files[s]) : k > 0
    BY FilesShape
  <2> QED BY <2>1 DEF InTemp
<1>2. \A j \in 1..Len(Inputs(s)) : \E k \in 1..Len(files[s]) : Inputs(s)[j] = files[s][k]
  BY FilesShape
<1> QED BY <1>1, <1>2 DEF InTemp

LEMMA DecryptionDoneHolds ==
  ASSUME Inv, PathInv, PlainNames, HoldInv, [Next]_vars, DecryptionDone
  PROVE  HoldInv'
<1>1. /\ pc = "decrypting" /\ pc' = AfterDecrypt /\ pos' = 0
      /\ UNCHANGED <<setup, disk, temp, parts, opts, files, out, merged, cur, target, told>>
  BY DEF DecryptionDone, plans, data
<1>2. /\ cur \in Streams /\ FilesOk /\ TypeInv
      /\ setup.skipMerge => merged = <<>> /\ AllInTemp
      /\ ~setup.skipMerge => ClosedOk /\ CurOk
  BY <1>1, InClosers DEF Closers
<1>3. pc' \in {"skipping", "subtitling", "grouping", "merging"}
  BY <1>1 DEF AfterDecrypt
<1>4. pc \in Probed /\ pc' \in Probed /\ pc' \in Closers
  BY <1>1, <1>3 DEF Probed, Closers, InStream
<1>5. /\ FilesOk' /\ Streams' = Streams
      /\ \A s : /\ Subtitled(s)' = Subtitled(s) /\ Grouped(s)' = Grouped(s)
                /\ Inputs(s)' = Inputs(s)
  BY <1>1, <1>2, <1>4, FilesSame, PlansSame
<1>6. /\ UNCHANGED <<setup, opts, files, out, merged, cur, told>>
      /\ pc \in Closers /\ pc' \in Closers
      /\ \A s \in Streams : s # cur => temp'[s] = temp[s] /\ parts'[s] = parts[s]
  BY <1>1, <1>4 DEF Closers
<1>7. CASE setup.skipMerge
  <2>1. pc' = "skipping"
    BY <1>1, <1>7 DEF AfterDecrypt
  <2>2. AllInTemp' /\ merged' = <<>>
    BY <1>1, <1>2, <1>5, <1>7 DEF AllInTemp, InTemp
  <2> QED BY <1>1, <1>4, <1>5, <1>7, <2>1, <2>2, CloserHold
<1>8. CASE ~setup.skipMerge
  <2>1. InTemp(cur, files[cur], 0)
    BY <1>1, <1>2, <1>8 DEF CurOk
  <2>2. InTemp(cur, Inputs(cur), 0)
    BY <1>2, <2>1, InputsThere
  <2>3. InTemp(cur, files[cur], 0)' /\ InTemp(cur, Inputs(cur), 0)'
    BY <1>1, <1>5, <2>1, <2>2 DEF InTemp
  <2>4. \/ pc' = "subtitling" /\ Subtitled(cur)
        \/ pc' = "grouping" /\ ~Subtitled(cur) /\ Grouped(cur)
        \/ pc' = "merging" /\ ~Subtitled(cur) /\ ~Grouped(cur)
    BY <1>1, <1>8 DEF AfterDecrypt
  <2>5. CASE pc' = "subtitling" /\ Subtitled(cur)
    <3>1. Subtitled(cur)'
      BY <1>1, <1>5, <2>5
    <3>2. CurOk'
      BY <2>3, <2>5, <3>1 DEF CurOk, Targeted
    <3>3. pc' # "skipping"
      BY <2>5
    <3> QED BY <1>8, <1>6, <3>2, <3>3, WorkHolds
  <2>6. CASE pc' = "grouping" /\ ~Subtitled(cur) /\ Grouped(cur)
    <3>1. ~Subtitled(cur)' /\ Grouped(cur)' /\ ~(pos' > 0)
      BY <1>1, <1>5, <2>6
    <3>2. InTemp(cur, Inputs(cur), pos)'
      BY <1>1, <2>3
    <3>3. CurOk'
      BY <2>6, <3>1, <3>2 DEF CurOk, Targeted
    <3>4. pc' # "skipping"
      BY <2>6
    <3> QED BY <1>8, <1>6, <3>3, <3>4, WorkHolds
  <2>7. CASE pc' = "merging" /\ ~Subtitled(cur) /\ ~Grouped(cur)
    <3>1. ~Subtitled(cur)' /\ ~Grouped(cur)'
      BY <1>1, <1>5, <2>7
    <3>2. CurOk'
      BY <2>3, <2>7, <3>1 DEF CurOk, Targeted
    <3>3. pc' # "skipping"
      BY <2>7
    <3> QED BY <1>8, <1>6, <3>2, <3>3, WorkHolds
  <2> QED BY <2>4, <2>5, <2>6, <2>7
<1> QED BY <1>7, <1>8

LEMMA SkipMergeHolds ==
  ASSUME Inv, HoldInv, SkipMerge
  PROVE  HoldInv'
<1>1. /\ pc = "skipping" /\ NextStream(merged)
      /\ UNCHANGED <<setup, temp, opts, files, merged>>
  BY DEF SkipMerge, plans, data
<1>2. /\ FilesOk /\ setup.skipMerge /\ merged = <<>> /\ AllInTemp
  <2>1. pc \in Closers
    BY <1>1 DEF Closers, InStream
  <2> QED BY <1>1, <2>1, InClosers
<1>3. pc' \in {"decrypting", "clearing"}
  BY <1>1, <1>2 DEF NextStream, Muxes
<1>4. FilesOk' /\ Streams' = Streams
  BY <1>1, <1>2, <1>3, FilesSame, PlansSame DEF Probed, Closers, InStream, Late
<1>5. AllInTemp' /\ merged' = <<>>
  BY <1>1, <1>2, <1>4 DEF AllInTemp, InTemp
<1>6. CASE pc' = "decrypting"
  BY <1>1, <1>2, <1>4, <1>5, <1>6, CloserHold DEF Closers
<1>7. CASE pc' = "clearing"
  BY <1>1, <1>2, <1>4, <1>5, <1>7, ClearHold DEF ClearOk
<1> QED BY <1>3, <1>6, <1>7

LEMMA SavePngsHolds ==
  ASSUME Inv, PathInv, BitsInv, PlainNames, HoldInv, [Next]_vars, SavePngs
  PROVE  HoldInv'
<1>1. /\ pc = "subtitling" /\ pc' = "imaging" /\ Stream(cur).image
      /\ parts' = [parts EXCEPT ![cur] = Pieces(cur, files[cur])]
      /\ UNCHANGED <<setup, disk, temp, opts, files, out, merged, cur, pos, target, told>>
  BY DEF SavePngs, plans, works
<1>2. pc \in Closers /\ pc' \in Closers
  BY <1>1 DEF Closers, InStream
<1>3. cur \in Streams /\ FilesOk /\ TypeInv /\ ~setup.skipMerge /\ CurOk
  BY <1>1, <1>2, InClosers
<1>4. /\ \A s : Subtitled(s)' = Subtitled(s) /\ Stream(s)' = Stream(s)
  BY <1>1, <1>2, PlansSame DEF Probed
<1>5. /\ files[cur] \in Seq(Items(cur)) /\ Len(files[cur]) \in Nat
      /\ \A k \in 1..Len(files[cur]) : temp[cur][files[cur][k]] # "none"
  <2>1. files[cur] \in Seq(Items(cur)) /\ Len(files[cur]) \in Nat
    BY <1>3, FilesShape
  <2>2. InTemp(cur, files[cur], 0)
    BY <1>1, <1>3 DEF CurOk
  <2> QED BY <2>1, <2>2 DEF InTemp
<1>6. InParts(cur, files[cur], Len(files[cur]))'
  <2>1. parts'[cur] = Pieces(cur, files[cur])
    BY <1>1, <1>3 DEF BitsInv
  <2>2. /\ Len(Pieces(cur, files[cur])) = Len(files[cur])
        /\ \A k \in 1..Len(files[cur]) : Good(Pieces(cur, files[cur])[k], cur, files[cur][k])
    BY <1>3, <1>5, PiecesShape
  <2> QED BY <1>1, <2>1, <2>2 DEF InParts
<1>7. InTemp(cur, files[cur], 0)' /\ Subtitled(cur)' /\ Stream(cur)'.image
  BY <1>1, <1>3, <1>4 DEF CurOk, InTemp
<1>8. CurOk'
  BY <1>1, <1>6, <1>7 DEF CurOk, Targeted
<1> QED BY <1>1, <1>2, <1>3, <1>8, WorkHolds DEF BitsInv

LEMMA DropImageSegmentsHolds ==
  ASSUME Inv, PathInv, BitsInv, PlainNames, HoldInv, [Next]_vars, DropImageSegments
  PROVE  HoldInv'
<1>1. /\ pc = "imaging" /\ pc' = "writing"
      /\ temp' = [temp EXCEPT ![cur] = [i \in Items(cur) |-> "none"]]
      /\ UNCHANGED <<setup, disk, parts, opts, files, out, merged, cur, pos, target, told>>
  BY DEF DropImageSegments, plans, works
<1>2. pc \in Closers /\ pc' \in Closers
  BY <1>1 DEF Closers, InStream
<1>3. cur \in Streams /\ FilesOk /\ TypeInv /\ ~setup.skipMerge /\ CurOk
  BY <1>1, <1>2, InClosers
<1>4. /\ \A s : Subtitled(s)' = Subtitled(s) /\ Stream(s)' = Stream(s)
  BY <1>1, <1>2, PlansSame DEF Probed
<1>5. InParts(cur, files[cur], Len(files[cur]))' /\ Subtitled(cur)' /\ Stream(cur)'.image
  BY <1>1, <1>3, <1>4 DEF CurOk, InParts
<1>6. CurOk'
  BY <1>1, <1>5 DEF CurOk, Targeted
<1>7. \A s \in Streams : s # cur => temp'[s] = temp[s]
  BY <1>1, <1>3 DEF TypeInv
<1> QED BY <1>1, <1>2, <1>3, <1>6, <1>7, WorkHolds

LEMMA CombineGroupHolds ==
  ASSUME Inv, PathInv, BitsInv, PlainNames, HoldInv, [Next]_vars, CombineGroup
  PROVE  HoldInv'
<1> DEFINE q == SubSeq(parts[cur], 1, pos) \o Pieces(cur, Chunk(cur))
<1>1. /\ pc = "grouping" /\ pc' = "dropping" /\ pos < Len(Inputs(cur))
      /\ UNCHANGED <<setup, disk, temp, opts, files, out, merged, cur, pos, target, told>>
  BY DEF CombineGroup, plans, works
<1>2. pc \in Closers /\ pc' \in Closers
  BY <1>1 DEF Closers, InStream
<1>3. /\ cur \in Streams /\ FilesOk /\ ~setup.skipMerge /\ CurOk
      /\ parts' = [parts EXCEPT ![cur] = q]
      /\ Len(q) = Upto(pos + GroupSize, cur)
      /\ \A k \in 1..Len(q) : Good(q[k], cur, Inputs(cur)[k])
  BY GroupCombined
<1> HIDE DEF q
<1>4. \A s : Subtitled(s)' = Subtitled(s) /\ Grouped(s)' = Grouped(s) /\ Inputs(s)' = Inputs(s)
  BY <1>1, <1>2, PlansSame DEF Probed
<1>5. DOMAIN parts = Streams
  BY DEF BitsInv
<1>6. Upto(pos + GroupSize, cur)' = Upto(pos + GroupSize, cur)
  BY <1>1, <1>4 DEF Upto
<1>7. InParts(cur, Inputs(cur), Upto(pos + GroupSize, cur))'
  BY <1>1, <1>3, <1>4, <1>5, <1>6 DEF InParts
<1>8. InTemp(cur, Inputs(cur), pos)' /\ Grouped(cur)' /\ ~Subtitled(cur)'
  BY <1>1, <1>3, <1>4 DEF CurOk, InTemp
<1>9. pos' < Len(Inputs(cur))'
  BY <1>1, <1>4
<1>10. CurOk'
  BY <1>1, <1>7, <1>8, <1>9 DEF CurOk, Targeted
<1> QED BY <1>1, <1>2, <1>3, <1>5, <1>10, WorkHolds

LEMMA DropGroupedHolds ==
  ASSUME Inv, PathInv, BitsInv, PlainNames, HoldInv, [Next]_vars, DropGrouped
  PROVE  HoldInv'
<1>1. /\ pc = "dropping" /\ pc' = "grouping" /\ pos' = pos + GroupSize
      /\ temp' = [temp EXCEPT ![cur] = [i \in Items(cur) |->
                    IF i \in ToSet(Chunk(cur)) THEN "none" ELSE temp[cur][i]]]
      /\ UNCHANGED <<setup, disk, parts, opts, files, out, merged, cur, target, told>>
  BY DEF DropGrouped, plans
<1>2. pc \in Closers /\ pc' \in Closers
  BY <1>1 DEF Closers, InStream
<1>3. /\ cur \in Streams /\ FilesOk /\ TypeInv /\ ~setup.skipMerge /\ CurOk /\ pos \in Nat
      /\ GroupSize \in Nat \ {0} /\ pos < Len(Inputs(cur))
      /\ InTemp(cur, Inputs(cur), pos)
      /\ InParts(cur, Inputs(cur), Upto(pos + GroupSize, cur))
      /\ Grouped(cur) /\ ~Subtitled(cur)
  <2>1. cur \in Streams /\ FilesOk /\ TypeInv /\ ~setup.skipMerge /\ CurOk /\ pos \in Nat
    BY <1>1, <1>2, InClosers
  <2> QED BY <1>1, <2>1, SessionAssumption DEF CurOk
<1>4. \A s : Subtitled(s)' = Subtitled(s) /\ Grouped(s)' = Grouped(s) /\ Inputs(s)' = Inputs(s)
  BY <1>1, <1>2, PlansSame DEF Probed
<1> DEFINE r == Inputs(cur)
           e == Upto(pos + GroupSize, cur)
<1>5. /\ Chunk(cur) \in Seq(Items(cur)) /\ Len(Chunk(cur)) = e - pos
      /\ \A k \in 1..Len(Chunk(cur)) : Chunk(cur)[k] = r[pos + k] /\ pos + k \in 1..Len(r)
      /\ e \in Nat /\ pos < e
  BY <1>3, ChunkShape
<1>6. /\ Len(r) \in Nat /\ r \in Seq(Items(cur)) /\ \A k \in 1..Len(r) : r[k] \in Items(cur)
      /\ \A j, k \in 1..Len(r) : j # k => r[j] # r[k]
  BY <1>3, FilesShape, LenProperties
<1>7. e <= pos + GroupSize
  BY <1>3, <1>6 DEF Upto
<1> HIDE DEF r, e
<1>8. ASSUME NEW k \in 1..Len(r), k > pos + GroupSize PROVE temp'[cur][r[k]] # "none"
  <2>1. \A j \in 1..Len(Chunk(cur)) : Chunk(cur)[j] # r[k]
    <3>1. ASSUME NEW j \in 1..Len(Chunk(cur)) PROVE Chunk(cur)[j] # r[k]
      <4>1. pos + j \in 1..Len(r) /\ pos + j # k
        BY <1>3, <1>5, <1>6, <1>7, <1>8
      <4> QED BY <1>5, <1>6, <4>1
    <3> QED BY <3>1
  <2>2. r[k] \notin ToSet(Chunk(cur))
    <3>1. DOMAIN Chunk(cur) = 1..Len(Chunk(cur))
      BY <1>5, LenProperties
    <3> QED BY <2>1, <3>1 DEF ToSet
  <2>3. k > pos
    BY <1>3, <1>6, <1>8
  <2>4. temp[cur][r[k]] # "none"
    BY <1>3, <2>3 DEF InTemp, r
  <2> QED BY <1>1, <1>3, <1>6, <2>2, <2>4 DEF TypeInv
<1>9. InTemp(cur, Inputs(cur), pos)'
  BY <1>1, <1>4, <1>8 DEF InTemp, r
<1>10. InParts(cur, Inputs(cur), Upto(pos, cur))'
  <2>1. Upto(pos, cur)' = Upto(pos + GroupSize, cur)
    BY <1>1, <1>4 DEF Upto
  <2> QED BY <1>1, <1>3, <1>4, <2>1 DEF InParts
<1>11. Grouped(cur)' /\ ~Subtitled(cur)'
  BY <1>1, <1>3, <1>4
<1>12. CurOk'
  BY <1>1, <1>9, <1>10, <1>11 DEF CurOk, Targeted
<1>13. \A s \in Streams : s # cur => temp'[s] = temp[s]
  BY <1>1, <1>3 DEF TypeInv
<1> QED BY <1>1, <1>2, <1>3, <1>12, <1>13, WorkHolds

LEMMA GroupsDoneHolds ==
  ASSUME Inv, PathInv, PlainNames, HoldInv, [Next]_vars, GroupsDone
  PROVE  HoldInv'
<1>1. /\ pc = "grouping" /\ pc' = "merging" /\ pos >= Len(Inputs(cur))
      /\ UNCHANGED <<setup, disk, temp, parts, opts, files, out, merged, cur, pos, target, told>>
  BY DEF GroupsDone, Goto, plans, works, data
<1>2. pc \in Closers /\ pc' \in Closers
  BY <1>1 DEF Closers, InStream
<1>3. cur \in Streams /\ FilesOk /\ TypeInv /\ ~setup.skipMerge /\ CurOk /\ pos \in Nat
  BY <1>1, <1>2, InClosers
<1>4. \A s : Subtitled(s)' = Subtitled(s) /\ Grouped(s)' = Grouped(s) /\ Inputs(s)' = Inputs(s)
  BY <1>1, <1>2, PlansSame DEF Probed
<1>5. Grouped(cur) /\ ~Subtitled(cur) /\ (pos > 0 => InParts(cur, Inputs(cur), Upto(pos, cur)))
  BY <1>1, <1>3 DEF CurOk
<1>6. Upto(pos, cur) = Len(Inputs(cur)) /\ pos > 0
  <2>1. Len(Inputs(cur)) \in Nat
    BY <1>3, FilesShape
  <2>2. Len(Inputs(cur)) >= MergeLimit /\ MergeLimit \in Nat \ {0}
    BY <1>5, SessionAssumption DEF Grouped
  <2> QED BY <1>1, <1>3, <2>1, <2>2 DEF Upto
<1>7. InParts(cur, Inputs(cur), Len(Inputs(cur)))'
  BY <1>1, <1>4, <1>5, <1>6 DEF InParts
<1>8. Grouped(cur)' /\ ~Subtitled(cur)'
  BY <1>1, <1>4, <1>5
<1>9. CurOk'
  BY <1>1, <1>7, <1>8 DEF CurOk, Targeted
<1> QED BY <1>1, <1>2, <1>3, <1>9, WorkHolds

-----------------------------------------------------------------------------
(* The output of a stream: written, decrypted.                                 *)

LEMMA FromFirst == \A n \in Nat : \A k \in 1..n : k > 0
OBVIOUS

LEMMA InWork ==
  ASSUME Inv, PathInv, HoldInv, pc \in Closers, pc # "decrypting", pc # "skipping"
  PROVE  /\ cur \in Streams /\ FilesOk /\ TypeInv /\ ~setup.skipMerge /\ ClosedOk /\ CurOk
         /\ Len(out) = Len(setup.streams) /\ Streams = 1..Len(out)
         /\ \A k \in 1..Len(merged) : k \in Streams /\ k # cur
<1>1. cur \in Streams /\ FilesOk /\ TypeInv /\ ~setup.skipMerge /\ ClosedOk /\ CurOk
  BY InClosers
<1>2. Len(out) = Len(setup.streams)
  BY DEF PathInv, OutInv, Closers
<1>3. \A k \in 1..Len(merged) : k \in Streams /\ k # cur
  BY <1>1, StreamsShape DEF TypeInv, ClosedOk
<1> QED BY <1>1, <1>2, <1>3 DEF Streams

\* The frame of a step between the outputs of a stream.
Frame == /\ UNCHANGED <<setup, temp, parts, opts, files, out, merged, cur, told>>
         /\ pc \in InStream /\ pc # "skipping" /\ pc' \in Probed

LEMMA FrameHolds ==
  ASSUME Inv, PathInv, PlainNames, HoldInv, [Next]_vars, Frame, pc' \in InStream \ {"skipping"}, CurOk'
  PROVE  HoldInv'
<1>1. pc \in Closers /\ pc' \in Closers /\ pc # "decrypting"
  BY DEF Frame, Closers, InStream
<1>2. ~setup.skipMerge
  BY <1>1, InClosers DEF Frame
<1>3. /\ UNCHANGED <<setup, opts, files, out, merged, cur, told>>
      /\ \A s \in Streams : s # cur => temp'[s] = temp[s] /\ parts'[s] = parts[s]
      /\ pc' # "skipping"
  BY DEF Frame
<1> QED BY <1>1, <1>2, <1>3, WorkHolds

LEMMA FramePlans ==
  ASSUME Frame
  PROVE  /\ \A q, s : Track(q, s)' <=> Track(q, s)
         /\ \A s : /\ Subtitled(s)' = Subtitled(s) /\ Stays(s)' = Stays(s)
                   /\ Grouped(s)' = Grouped(s) /\ Binary(s)' = Binary(s)
                   /\ Inputs(s)' = Inputs(s) /\ Wanted(s)' = Wanted(s)
                   /\ Stream(s)' = Stream(s)
<1>1. pc \in Probed /\ pc' \in Probed
  BY DEF Frame, Probed, Closers
<1>2. UNCHANGED <<setup, opts, files>>
  BY DEF Frame
<1> QED BY <1>1, <1>2, PlansSame, TrackSame

LEMMA TargetStays ==
  ASSUME Frame, target' = target, TargetApart
  PROVE  TargetApart'
<1>1. \A s : Wanted(s)' = Wanted(s)
  BY FramePlans
<1> QED BY <1>1 DEF TargetApart, Frame

\* The planned output is no other stream's.
LEMMA OutApart ==
  ASSUME Inv, PathInv, HoldInv, Frame, pc # "decrypting", target' = out[cur]
  PROVE  TargetApart'
<1>1. /\ ClosedOk /\ Streams = 1..Len(out) /\ cur \in Streams
      /\ \A k \in 1..Len(merged) : k \in Streams /\ k # cur
  BY InWork DEF Closers, Frame
<1>2. \A j \in 1..Len(out) : j # cur => target' # out[j]
  BY <1>1 DEF PathInv, OutInv
<1>3. \A k \in 1..Len(merged) : target' # merged[k].path
  BY <1>1 DEF ClosedOk
<1> QED BY <1>2, <1>3 DEF TargetApart, Frame

\* What is merged is the whole stream.
LEMMA MergeTrack ==
  ASSUME Inv, PathInv, BitsInv, HoldInv, pc \in {"merging", "ffmpeg merging"}
  PROVE  Track(MergeInput(cur), cur)
<1>1. /\ cur \in Streams /\ FilesOk /\ TypeInv /\ CurOk
      /\ pc \in Closers /\ pc # "decrypting" /\ pc # "skipping"
  BY InWork DEF Closers, InStream
<1>2. /\ ~Subtitled(cur) /\ Wanted(cur) = Inputs(cur) /\ Len(Inputs(cur)) \in Nat
      /\ Inputs(cur) \in Seq(Items(cur))
  BY <1>1, WantedShape, FilesShape DEF CurOk
<1> DEFINE q == MergeInput(cur)
<1>3. /\ q \in Seq(Bits) /\ Len(q) = Len(Inputs(cur))
      /\ \A k \in 1..Len(q) : Good(q[k], cur, Inputs(cur)[k])
  <2>1. CASE Grouped(cur)
    <3>1. q = parts[cur]
      BY <2>1 DEF MergeInput
    <3>2. InParts(cur, Inputs(cur), Len(Inputs(cur)))
      BY <1>1, <2>1 DEF CurOk
    <3> QED BY <1>1, <3>1, <3>2 DEF InParts, BitsInv
  <2>2. CASE ~Grouped(cur)
    <3>1. q = Pieces(cur, Inputs(cur))
      BY <2>2 DEF MergeInput
    <3>2. InTemp(cur, Inputs(cur), 0)
      BY <1>1, <2>2 DEF CurOk
    <3>3. \A k \in 1..Len(Inputs(cur)) : temp[cur][Inputs(cur)[k]] # "none"
      BY <1>2, <3>2, FromFirst DEF InTemp
    <3> HIDE DEF q
    <3> QED BY <1>1, <1>2, <3>1, <3>3, PiecesShape
  <2> QED BY <2>1, <2>2
<1> HIDE DEF q
<1>4. IsTrack(q, cur)
  BY <1>2, <1>3 DEF IsTrack, Good
<1>5. \A k \in 1..Len(q) : Good(q[k], cur, Wanted(cur)[k])
  BY <1>2, <1>3
<1> QED BY <1>3, <1>4, <1>5 DEF Track, q

LEMMA WriteSubtitleHolds ==
  ASSUME Inv, PathInv, BitsInv, PlainNames, HoldInv, [Next]_vars, WriteSubtitle
  PROVE  HoldInv'
<1> DEFINE t == IF pc = "writing" THEN References(parts[cur]) ELSE Pieces(cur, files[cur])
<1>1. /\ pc \in {"subtitling", "writing"} /\ (pc = "subtitling" => ~Stream(cur).image)
      /\ disk' = Put(disk, out[cur], {t}) /\ target' = out[cur] /\ pc' = "closing" /\ Frame
  BY DEF WriteSubtitle, plans, Frame, InStream, Probed, Closers
<1>2. /\ pc \in Closers /\ pc # "decrypting" /\ pc # "skipping"
      /\ cur \in Streams /\ FilesOk /\ TypeInv /\ CurOk
  <2>1. pc \in Closers /\ pc # "decrypting" /\ pc # "skipping"
    BY <1>1 DEF Closers, InStream
  <2> QED BY <2>1, InWork
<1>3. /\ Subtitled(cur) /\ Wanted(cur) = files[cur] /\ files[cur] \in Seq(Items(cur))
      /\ Len(files[cur]) \in Nat
  BY <1>1, <1>2, WantedShape, FilesShape DEF CurOk
<1>4. Track(t, cur) /\ (Stays(cur) => InParts(cur, files[cur], Len(files[cur])))
  <2>1. CASE pc = "writing"
    <3>1. /\ Stream(cur).image /\ Stays(cur) /\ t = References(parts[cur])
          /\ InParts(cur, files[cur], Len(files[cur])) /\ parts[cur] \in Seq(Bits)
      BY <1>2, <1>3, <2>1 DEF CurOk, Stays, BitsInv
    <3> HIDE DEF t
    <3>2. Len(parts[cur]) = Len(files[cur]) /\ \A k \in 1..Len(parts[cur]) : parts[cur][k] \in Bits
      BY <3>1, LenProperties DEF InParts
    <3>3. /\ t \in [1..Len(files[cur]) -> Bits]
          /\ \A k \in 1..Len(files[cur]) :
               t[k].stream = parts[cur][k].stream /\ t[k].item = parts[cur][k].item
      BY <3>1, <3>2 DEF References, Bits
    <3>4. t \in Seq(Bits) /\ Len(t) = Len(files[cur])
      BY <1>3, <3>3, MadeSeq
    <3>5. \A k \in 1..Len(t) : t[k].stream = cur /\ t[k].item = files[cur][k]
      BY <3>1, <3>3, <3>4 DEF InParts, Good
    <3> QED BY <1>3, <3>1, <3>4, <3>5 DEF Track, IsTrack
  <2>2. CASE pc = "subtitling"
    <3>1. /\ ~Stays(cur) /\ t = Pieces(cur, files[cur]) /\ InTemp(cur, files[cur], 0)
      BY <1>1, <1>2, <2>2 DEF CurOk, Stays
    <3>2. \A k \in 1..Len(files[cur]) : temp[cur][files[cur][k]] # "none"
      BY <1>3, <3>1 DEF InTemp
    <3> HIDE DEF t
    <3>3. /\ t \in Seq(Bits) /\ Len(t) = Len(files[cur])
          /\ \A k \in 1..Len(t) : Good(t[k], cur, files[cur][k])
      BY <1>2, <1>3, <3>1, <3>2, PiecesShape
    <3>4. IsTrack(t, cur)
      BY <1>3, <3>3 DEF IsTrack, Good
    <3>5. \A k \in 1..Len(t) : Good(t[k], cur, Wanted(cur)[k])
      BY <1>3, <3>3
    <3> QED BY <3>1, <3>3, <3>4, <3>5 DEF Track
  <2> QED BY <1>1, <2>1, <2>2
<1> HIDE DEF t
<1>5. TargetApart'
  BY <1>1, <1>2, OutApart
<1>6. HasAll(target, cur)'
  <2>1. out[cur] \in DOMAIN disk' /\ disk'[out[cur]] = {t}
    BY <1>1 DEF Put
  <2>2. cur' = cur /\ \E q \in disk'[out[cur]] : Track(q, cur)'
    BY <1>1, <1>4, <2>1, FramePlans DEF Frame
  <2> QED BY <1>1, <2>1, <2>2 DEF HasAll, Has
<1>7. Stays(cur)' => InParts(cur, files[cur], Len(files[cur]))'
  BY <1>1, <1>4, FramePlans DEF InParts, Frame
<1>8. CurOk'
  BY <1>1, <1>5, <1>6, <1>7 DEF CurOk
<1> QED BY <1>1, <1>8, FrameHolds DEF InStream

LEMMA BinaryMergeHolds ==
  ASSUME Inv, PathInv, BitsInv, PlainNames, HoldInv, [Next]_vars, BinaryMerge
  PROVE  HoldInv'
<1>1. /\ pc = "merging" /\ pc' = "deciphering" /\ target' = out[cur] /\ Frame
      /\ disk' = IF Inputs(cur) = <<>> THEN disk ELSE Put(disk, out[cur], {MergeInput(cur)})
  BY DEF BinaryMerge, plans, Frame, InStream, Probed, Closers
<1>2. /\ pc \in Closers /\ pc # "decrypting" /\ pc # "skipping"
      /\ cur \in Streams /\ FilesOk /\ TypeInv /\ CurOk
  <2>1. pc \in Closers /\ pc # "decrypting" /\ pc # "skipping"
    BY <1>1 DEF Closers, InStream
  <2> QED BY <2>1, InWork
<1>3. ~Subtitled(cur) /\ Wanted(cur) = Inputs(cur)
  BY <1>1, <1>2, WantedShape DEF CurOk
<1>4. TargetApart'
  BY <1>1, <1>2, OutApart
<1>5. HasAll(target, cur)'
  <2>1. CASE Wanted(cur) = <<>>
    <3>1. Wanted(cur)' = <<>>
      BY <1>1, <2>1, FramePlans DEF Frame
    <3> QED BY <3>1 DEF HasAll
  <2>2. CASE Wanted(cur) # <<>>
    <3>1. out[cur] \in DOMAIN disk' /\ disk'[out[cur]] = {MergeInput(cur)}
      BY <1>1, <1>3, <2>2 DEF Put
    <3>2. Track(MergeInput(cur), cur) /\ cur' = cur
      BY <1>1, MergeTrack DEF Frame
    <3>3. \E q \in disk'[out[cur]] : Track(q, cur)'
      BY <1>1, <3>1, <3>2, FramePlans
    <3> QED BY <1>1, <3>1, <3>2, <3>3 DEF HasAll, Has
  <2> QED BY <2>1, <2>2
<1>6. ~Subtitled(cur)'
  BY <1>1, <1>3, FramePlans DEF Frame
<1>7. CurOk'
  BY <1>1, <1>4, <1>5, <1>6 DEF CurOk
<1> QED BY <1>1, <1>7, FrameHolds DEF InStream

\* The path that ffmpeg merges to is free, and by OutputsApart no other stream's.
LEMMA StartMergeHolds ==
  ASSUME Inv, PathInv, BitsInv, PlainNames, HoldInv, [Next]_vars, StartMerge, OutputsApart'
  PROVE  HoldInv'
<1>1. /\ pc = "merging" /\ pc' = "ffmpeg merging" /\ target' = MergeTarget(cur) /\ Frame
      /\ ~Binary(cur) /\ Inputs(cur) # <<>> /\ disk' = disk
  BY DEF StartMerge, plans, data, Frame, InStream, Probed, Closers
<1>2. /\ cur \in Streams /\ FilesOk /\ TypeInv /\ CurOk /\ ClosedOk /\ Streams = 1..Len(out)
      /\ \A k \in 1..Len(merged) : k \in Streams /\ k # cur
  <2>1. pc \in Closers /\ pc # "decrypting" /\ pc # "skipping"
    BY <1>1 DEF Closers, InStream
  <2> QED BY <2>1, InWork
<1>3. ~Subtitled(cur) /\ Wanted(cur) = Inputs(cur)
  BY <1>1, <1>2, WantedShape DEF CurOk
<1>4. target' \notin DOMAIN disk
  BY <1>1, MergeTargetFree
<1>5. \A j \in 1..Len(out) : j # cur => target' # out[j]
  <2>1. Streams' = Streams /\ cur' = cur /\ out' = out
    BY <1>1 DEF Frame, Streams
  <2>2. \A s \in Streams' \ {cur'} : target' # out'[s]
    BY <1>1 DEF OutputsApart
  <2> QED BY <1>2, <2>1, <2>2
<1>6. ASSUME NEW k \in 1..Len(merged) PROVE target' # merged[k].path
  <2>1. CASE Wanted(k) = <<>>
    BY <1>2, <1>5, <2>1 DEF ClosedOk
  <2>2. CASE Wanted(k) # <<>>
    BY <1>2, <1>4, <2>2 DEF ClosedOk, HasAll, Has
  <2> QED BY <2>1, <2>2
<1>7. TargetApart'
  <2>1. Wanted(cur)' # <<>>
    BY <1>1, <1>3, FramePlans DEF Frame
  <2> QED BY <1>1, <1>5, <1>6, <2>1 DEF TargetApart, Frame
<1>8. ~Subtitled(cur)' /\ ~Binary(cur)' /\ target' \notin DOMAIN disk'
  BY <1>1, <1>3, <1>4, FramePlans DEF Frame
<1>9. IF Grouped(cur)' THEN InParts(cur, Inputs(cur), Len(Inputs(cur)))'
                       ELSE InTemp(cur, Inputs(cur), 0)'
  <2>1. IF Grouped(cur) THEN InParts(cur, Inputs(cur), Len(Inputs(cur)))
                        ELSE InTemp(cur, Inputs(cur), 0)
    BY <1>1, <1>2 DEF CurOk
  <2> QED BY <1>1, <2>1, FramePlans DEF Frame, InParts, InTemp
<1>10. CurOk'
  BY <1>1, <1>7, <1>8, <1>9 DEF CurOk
<1> QED BY <1>1, <1>10, FrameHolds DEF InStream

LEMMA MergeEndsHolds ==
  ASSUME Inv, PathInv, BitsInv, PlainNames, HoldInv, [Next]_vars, MergeEnds
  PROVE  HoldInv'
<1>1. /\ pc = "ffmpeg merging" /\ pc' = "deciphering" /\ target' = target /\ Frame
      /\ disk' = Put(disk, target, {MergeInput(cur)})
  BY DEF MergeEnds, plans, works, Frame, InStream, Probed, Closers
<1>2. TargetApart /\ ~Subtitled(cur)
  <2>1. pc \in Closers /\ pc # "decrypting" /\ pc # "skipping"
    BY <1>1 DEF Closers, InStream
  <2>2. CurOk
    BY <2>1, InWork
  <2> QED BY <1>1, <2>2 DEF CurOk, Targeted
<1>3. TargetApart'
  BY <1>1, <1>2, TargetStays
<1>4. HasAll(target, cur)'
  <2>1. target \in DOMAIN disk' /\ disk'[target] = {MergeInput(cur)}
    BY <1>1 DEF Put
  <2>2. Track(MergeInput(cur), cur) /\ cur' = cur
    BY <1>1, MergeTrack DEF Frame
  <2>3. \E q \in disk'[target] : Track(q, cur)'
    BY <1>1, <2>1, <2>2, FramePlans
  <2> QED BY <1>1, <2>1, <2>2, <2>3 DEF HasAll, Has
<1>5. ~Subtitled(cur)'
  BY <1>1, <1>2, FramePlans DEF Frame
<1>6. CurOk'
  BY <1>1, <1>3, <1>4, <1>5 DEF CurOk
<1> QED BY <1>1, <1>6, FrameHolds DEF InStream

\* A path that takes over the content of another one, or keeps its own.
LEMMA Carried ==
  ASSUME Frame, NEW a, HasAll(a, cur), NEW b,
         a \in DOMAIN disk => b \in DOMAIN disk' /\ disk'[b] = disk[a]
  PROVE  HasAll(b, cur)'
<1>1. CASE Wanted(cur) = <<>>
  <2>1. Wanted(cur)' = <<>>
    BY <1>1, FramePlans DEF Frame
  <2> QED BY <2>1 DEF HasAll
<1>2. CASE Wanted(cur) # <<>>
  <2>1. PICK q \in disk[a] : a \in DOMAIN disk /\ Track(q, cur)
    BY <1>2 DEF HasAll, Has
  <2>2. b \in DOMAIN disk' /\ q \in disk'[b] /\ Track(q, cur)' /\ cur' = cur
    BY <2>1, FramePlans DEF Frame
  <2> QED BY <2>2 DEF HasAll, Has
<1> QED BY <1>1, <1>2

\* The work on an output that is a video or audio file.
InTool == pc \in {"deciphering", "decrypt tool", "removing", "renaming"}
LEMMA ToolFacts ==
  ASSUME Inv, PathInv, HoldInv, PlainNames, InTool
  PROVE  /\ cur \in Streams /\ CurOk /\ TargetApart /\ ~Subtitled(cur) /\ ~Stays(cur)
         /\ DecPath(target) # target /\ AsidePath(target) # target
         /\ pc \in Closers /\ pc \in InStream /\ pc # "decrypting" /\ pc # "skipping"
<1>1. pc \in Closers /\ pc \in InStream /\ pc # "decrypting" /\ pc # "skipping" /\ pc \in Targeted
  BY DEF InTool, Closers, InStream, Targeted
<1>2. cur \in Streams /\ CurOk
  BY <1>1, InWork
<1>3. TargetApart /\ ~Subtitled(cur)
  BY <1>1, <1>2 DEF CurOk, InTool
<1>4. DecPath(target) # target /\ AsidePath(target) # target
  BY <1>1, WorkApart DEF PathInv, TargetInv, Own, Inv, TypeInv
<1> QED BY <1>1, <1>2, <1>3, <1>4 DEF Stays

LEMMA ToolHolds ==
  ASSUME Inv, PathInv, HoldInv, PlainNames, [Next]_vars, InTool, Frame, target' = target,
         \/ pc' = "deciphering" /\ HasAll(target, cur)'
         \/ pc' = "closing" /\ HasAll(target, cur)'
         \/ /\ pc' = "decrypt tool"
            /\ \E p : /\ HasAll(p, cur)'
                      /\ p = IF setup.engine = "mp4decrypt" THEN AsidePath(target) ELSE target
         \/ /\ pc' \in {"removing", "renaming"}
            /\ \E p : HasAll(p, cur)' /\ p = DecPath(target)
  PROVE  HoldInv'
<1>1. TargetApart' /\ ~Subtitled(cur)' /\ ~Stays(cur)'
  BY ToolFacts, TargetStays, FramePlans DEF Frame
<1>2. /\ setup' = setup /\ AsidePath(target)' = AsidePath(target)
      /\ DecPath(target)' = DecPath(target)
  BY DEF Frame, AsidePath, DecPath
<1>3. CurOk'
  <2>1. CASE pc' = "deciphering" /\ HasAll(target, cur)'
    BY <1>1, <2>1 DEF CurOk
  <2>2. CASE pc' = "closing" /\ HasAll(target, cur)'
    BY <1>1, <2>2 DEF CurOk
  <2>3. CASE /\ pc' = "decrypt tool"
             /\ \E p : /\ HasAll(p, cur)'
                       /\ p = IF setup.engine = "mp4decrypt" THEN AsidePath(target) ELSE target
    <3>1. HasAll(IF setup.engine = "mp4decrypt" THEN AsidePath(target) ELSE target, cur)'
      BY <1>2, <2>3
    <3> QED BY <1>1, <2>3, <3>1 DEF CurOk
  <2>4. CASE /\ pc' \in {"removing", "renaming"}
             /\ \E p : HasAll(p, cur)' /\ p = DecPath(target)
    <3>1. HasAll(DecPath(target), cur)'
      BY <1>2, <2>4
    <3> QED BY <1>1, <2>4, <3>1 DEF CurOk
  <2> QED BY <2>1, <2>2, <2>3, <2>4
<1>4. pc' \in InStream \ {"skipping"}
  BY DEF InStream
<1> QED BY <1>3, <1>4, FrameHolds

LEMMA LeaveEncryptedHolds ==
  ASSUME Inv, PathInv, HoldInv, PlainNames, [Next]_vars, LeaveEncrypted
  PROVE  HoldInv'
<1>1. pc = "deciphering" /\ InTool /\ pc' = "closing" /\ Frame /\ disk' = disk /\ target' = target
  BY DEF LeaveEncrypted, Goto, plans, works, data, Frame, InStream, Probed, Closers, InTool
<1>2. HasAll(target, cur)
  BY <1>1, ToolFacts DEF CurOk
<1>3. HasAll(target, cur)'
  BY <1>1, <1>2, Carried
<1> QED BY <1>1, <1>3, ToolHolds

LEMMA StartDecryptHolds ==
  ASSUME Inv, PathInv, HoldInv, PlainNames, [Next]_vars, StartDecrypt
  PROVE  HoldInv'
<1> DEFINE p == IF setup.engine = "mp4decrypt" THEN AsidePath(target) ELSE target
<1>1. /\ pc = "deciphering" /\ InTool /\ pc' = "decrypt tool" /\ Frame /\ target' = target
      /\ target \in DOMAIN disk
      /\ disk' = IF setup.engine = "mp4decrypt" THEN Move(disk, target, AsidePath(target))
                 ELSE disk
  BY DEF StartDecrypt, plans, works, Frame, InStream, Probed, Closers, InTool
<1>2. HasAll(target, cur)
  BY <1>1, ToolFacts DEF CurOk
<1>3. p \in DOMAIN disk' /\ disk'[p] = disk[target]
  BY <1>1 DEF Move, Put
<1>4. \E b : HasAll(b, cur)' /\ b = p
  <2>1. \A b : b = p => HasAll(b, cur)'
    BY <1>1, <1>2, <1>3, Carried
  <2> QED BY <2>1
<1> QED BY <1>1, <1>4, ToolHolds

\* The file of the source is put back, if it was moved.
LEMMA RestoredHas ==
  ASSUME Inv, PathInv, HoldInv, PlainNames, pc = "decrypt tool", Wanted(cur) # <<>>
  PROVE  target \in DOMAIN Restored /\ \E q \in Restored[target] : Track(q, cur)
<1>1. HasAll(IF setup.engine = "mp4decrypt" THEN AsidePath(target) ELSE target, cur)
  BY ToolFacts DEF CurOk, InTool
<1>2. CASE setup.engine = "mp4decrypt"
  <2>1. AsidePath(target) \in DOMAIN disk /\ \E q \in disk[AsidePath(target)] : Track(q, cur)
    BY <1>1, <1>2 DEF HasAll, Has
  <2>2. target \in DOMAIN Restored /\ Restored[target] = disk[AsidePath(target)]
    BY <1>2 DEF Restored, Move, Put
  <2> QED BY <2>1, <2>2
<1>3. CASE setup.engine # "mp4decrypt"
  <2>1. target \in DOMAIN disk /\ \E q \in disk[target] : Track(q, cur)
    BY <1>1, <1>3 DEF HasAll, Has
  <2>2. Restored = disk
    BY <1>3 DEF Restored
  <2> QED BY <2>1, <2>2
<1> QED BY <1>2, <1>3

\* Decryption of a file changes the states of its pieces only.
ClearTrack(q) == [k \in 1..Len(q) |-> IF q[k].stream = cur /\ q[k].state = "cipher"
                                      THEN [q[k] EXCEPT !.state = "clear"] ELSE q[k]]
LEMMA Cleared ==
  ASSUME ~Stays(cur), NEW q, Track(q, cur)
  PROVE  Track(ClearTrack(q), cur)
<1> DEFINE c == ClearTrack(q)
<1>1. q \in Seq(Bits) /\ Len(q) \in Nat /\ \A k \in 1..Len(q) : q[k] \in Bits
  BY LenProperties DEF Track
<1>2. ASSUME NEW k \in 1..Len(q)
      PROVE  /\ c[k] \in Bits /\ c[k].stream = q[k].stream /\ c[k].item = q[k].item
             /\ q[k].state \notin {"none", "reference"} => c[k].state \notin {"none", "reference"}
  <2>1. q[k] \in Bits
    BY <1>1
  <2>2. c[k] = IF q[k].stream = cur /\ q[k].state = "cipher"
               THEN [q[k] EXCEPT !.state = "clear"] ELSE q[k]
    BY DEF ClearTrack
  <2> QED BY <2>1, <2>2 DEF Bits
<1>3. c \in [1..Len(q) -> Bits]
  BY <1>2 DEF ClearTrack
<1> HIDE DEF c
<1>4. c \in Seq(Bits) /\ Len(c) = Len(q)
  BY <1>1, <1>3, MadeSeq
<1>5. IsTrack(q, cur) /\ \A k \in 1..Len(q) : Good(q[k], cur, Wanted(cur)[k])
  BY DEF Track
<1>6. IsTrack(c, cur)
  BY <1>2, <1>4, <1>5 DEF IsTrack
<1>7. \A k \in 1..Len(c) : Good(c[k], cur, Wanted(cur)[k])
  BY <1>2, <1>4, <1>5 DEF Good
<1> QED BY <1>4, <1>6, <1>7 DEF Track, c

LEMMA DecryptEndsHolds ==
  ASSUME Inv, PathInv, HoldInv, PlainNames, [Next]_vars, DecryptEnds
  PROVE  HoldInv'
<1>1. /\ pc = "decrypt tool" /\ InTool /\ pc' = "removing" /\ Frame /\ target' = target
      /\ disk' = Put(Restored, DecPath(target), Clear(Restored[target]))
  BY DEF DecryptEnds, plans, works, Frame, InStream, Probed, Closers, InTool
<1>2. \A b : b = DecPath(target) => HasAll(b, cur)'
  <2>1. SUFFICES ASSUME NEW b, b = DecPath(target), Wanted(cur)' # <<>> PROVE Has(b, cur)'
    BY DEF HasAll
  <2>2. Wanted(cur) # <<>> /\ cur' = cur
    BY <1>1, <2>1, FramePlans DEF Frame
  <2>3. PICK q \in Restored[target] : Track(q, cur)
    BY <1>1, <2>2, RestoredHas
  <2>4. Track(ClearTrack(q), cur)
    BY <1>1, <2>3, ToolFacts, Cleared
  <2>5. ClearTrack(q) \in Clear(Restored[target])
    BY <2>3 DEF Clear, ClearTrack
  <2>6. b \in DOMAIN disk' /\ disk'[b] = Clear(Restored[target])
    BY <1>1, <2>1 DEF Put
  <2>7. \E r \in disk'[b] : Track(r, cur)
    BY <2>4, <2>5, <2>6
  <2>8. \E r \in disk'[b] : Track(r, cur)'
    BY <1>1, <2>2, <2>7, FramePlans
  <2> QED BY <2>2, <2>6, <2>8 DEF Has
<1>3. \E b : HasAll(b, cur)' /\ b = DecPath(target)
  BY <1>2
<1> QED BY <1>1, <1>3, ToolHolds

\* Whatever a tool left, the output is there.
LEMMA AbortedHas ==
  ASSUME Inv, PathInv, HoldInv, PlainNames, pc = "decrypt tool", Frame, target' = target,
         Aborted(disk')
  PROVE  HasAll(target, cur)'
<1>1. SUFFICES ASSUME Wanted(cur)' # <<>> PROVE Has(target, cur)'
  BY DEF HasAll
<1>2. Wanted(cur) # <<>> /\ cur' = cur
  BY <1>1, FramePlans DEF Frame
<1>3. target \in DOMAIN Restored /\ \E q \in Restored[target] : Track(q, cur)
  BY <1>2, RestoredHas
<1>4. target \in DOMAIN disk' /\ disk'[target] = Restored[target]
  <2>1. CASE disk' = Restored
    BY <1>3, <2>1
  <2>2. CASE setup.engine # "mp4decrypt" /\ disk' = Put(disk, DecPath(target), Torn)
    <3>1. Restored = disk /\ DecPath(target) # target
      BY <2>2, ToolFacts DEF Restored, InTool
    <3> QED BY <1>3, <2>2, <3>1 DEF Put
  <2> QED BY <2>1, <2>2 DEF Aborted
<1>5. \E q \in disk'[target] : Track(q, cur)'
  BY <1>2, <1>3, <1>4, FramePlans
<1> QED BY <1>2, <1>4, <1>5 DEF Has

LEMMA DecryptAborts ==
  ASSUME Inv, PathInv, BitsInv, HoldInv, PlainNames, [Next]_vars, DecryptFails \/ DecryptCancelled
  PROVE  HoldInv'
<1>1. /\ pc = "decrypt tool" /\ InTool /\ pc' \in {"closing", "failed", "cancelled"} /\ Frame
      /\ target' = target /\ Aborted(disk')
  BY DEF DecryptFails, DecryptCancelled, plans, works, Frame, InStream, Probed, Closers, InTool,
         Late, Final
<1>2. HasAll(target, cur)'
  BY <1>1, AbortedHas
<1>3. CASE pc' = "closing"
  BY <1>1, <1>2, <1>3, ToolHolds
<1>4. CASE pc' \in {"failed", "cancelled"}
  <2>1. pc \in Closers /\ pc # "decrypting" /\ pc # "skipping" /\ cur \in Streams /\ ~Stays(cur)
    BY <1>1, ToolFacts
  <2>2. ~setup.skipMerge
    BY <2>1, InWork
  <2>3. FilesOk' /\ ClosedOk'
    BY <1>1, <2>1, <2>2, ClosedStays DEF Frame
  <2>4. Inv' /\ BitsInv'
    BY StepKeeps, BitsKept
  <2>5. cur' \in Streams' /\ ~Stays(cur)'
    BY <1>1, <2>1, FramePlans DEF Frame, Streams
  <2>6. Placed(cur)'
    BY <1>2, <2>5 DEF Placed
  <2>7. (TypeInv /\ BitsInv /\ FilesOk /\ ClosedOk /\ cur \in Streams /\ Placed(cur) =>
           \A s \in Streams : Kept(s))'
    BY ClosedKept, PTL
  <2>8. \A s \in Streams' : Kept(s)'
    BY <2>3, <2>4, <2>5, <2>6, <2>7 DEF Inv
  <2> QED BY <1>4, <2>8, FailHold
<1> QED BY <1>1, <1>3, <1>4

LEMMA RemoveSourceHolds ==
  ASSUME Inv, PathInv, HoldInv, PlainNames, [Next]_vars, RemoveSource
  PROVE  HoldInv'
<1>1. /\ pc = "removing" /\ InTool /\ pc' = "renaming" /\ Frame /\ target' = target
      /\ disk' = Deleted(disk, {target})
  BY DEF RemoveSource, plans, works, Frame, InStream, Probed, Closers, InTool
<1>2. HasAll(DecPath(target), cur) /\ DecPath(target) # target
  BY <1>1, ToolFacts DEF CurOk
<1>3. \A b : b = DecPath(target) => HasAll(b, cur)'
  <2>1. DecPath(target) \in DOMAIN disk =>
          DecPath(target) \in DOMAIN disk' /\ disk'[DecPath(target)] = disk[DecPath(target)]
    BY <1>1, <1>2 DEF Deleted, Restrict
  <2> QED BY <1>1, <1>2, <2>1, Carried
<1> QED BY <1>1, <1>3, ToolHolds

LEMMA RenameDecryptedHolds ==
  ASSUME Inv, PathInv, HoldInv, PlainNames, [Next]_vars, RenameDecrypted
  PROVE  HoldInv'
<1>1. /\ pc = "renaming" /\ InTool /\ pc' = "closing" /\ Frame /\ target' = target
      /\ disk' = Move(disk, DecPath(target), target)
  BY DEF RenameDecrypted, plans, works, Frame, InStream, Probed, Closers, InTool
<1>2. HasAll(DecPath(target), cur)
  BY <1>1, ToolFacts DEF CurOk
<1>3. HasAll(target, cur)'
  <2>1. target \in DOMAIN disk' /\ disk'[target] = disk[DecPath(target)]
    BY <1>1 DEF Move, Put
  <2> QED BY <1>1, <1>2, <2>1, Carried
<1> QED BY <1>1, <1>3, ToolHolds

-----------------------------------------------------------------------------
(* A stream is closed; then the mux and the end.                               *)

\* An output that is announced.
Shut(k) ==
  /\ merged[k].stream = k /\ HasAll(merged[k].path, k) /\ merged[k].path \in told
  /\ Stays(k) => InParts(k, files[k], Len(files[k]))
  /\ Wanted(k) = <<>> => merged[k].path = out[k]
  /\ \A j \in 1..Len(out) : j # k => merged[k].path # out[j]

LEMMA CloseShuts ==
  ASSUME Inv, BitsInv, PathInv, HoldInv, CloseStream
  PROVE  /\ FilesOk /\ FilesOk' /\ ~setup.skipMerge /\ cur \in Streams /\ Streams' = Streams
         /\ Len(merged') = cur
         /\ \A k \in 1..Len(merged') : Shut(k)'
         /\ \A j, k \in 1..Len(merged') : j # k => merged'[j].path # merged'[k].path
         /\ \A s \in Streams : s > cur => InTemp(s, files[s], 0)'
<1> DEFINE m == [stream |-> cur, path |-> target]
<1>1. /\ pc = "closing" /\ pc' \in {"decrypting", "muxing", "clearing"}
      /\ UNCHANGED <<setup, opts, files, out, disk, target>>
      /\ merged' = Append(merged, m) /\ told' = told \cup {target}
  BY DEF CloseStream, NextStream, plans
<1>2. pc \in Probed /\ pc' \in Probed /\ pc \in Closers /\ pc # "decrypting" /\ pc # "skipping"
      /\ pc \in Targeted
  BY <1>1 DEF Probed, Closers, InStream, Late, Targeted
<1>3. /\ cur \in Streams /\ FilesOk /\ TypeInv /\ ~setup.skipMerge /\ ClosedOk /\ CurOk
      /\ \A k \in 1..Len(merged) : k \in Streams /\ k # cur
  BY <1>2, InWork
<1>4. /\ HasAll(target, cur) /\ (Stays(cur) => InParts(cur, files[cur], Len(files[cur])))
      /\ TargetApart
  BY <1>1, <1>2, <1>3 DEF CurOk
<1>5. /\ \A q, s : Track(q, s)' <=> Track(q, s)
      /\ Streams' = Streams
      /\ \A s : Wanted(s)' = Wanted(s) /\ Stays(s)' = Stays(s)
  BY <1>1, <1>2, TrackSame, PlansSame
<1>6. FilesOk'
  BY <1>1, <1>2, <1>3, FilesSame
<1>7. /\ \A s \in Streams : s # cur => temp'[s] = temp[s] /\ parts'[s] = parts[s]
      /\ Stays(cur) => parts' = parts
  <2>1. CASE setup.delete /\ ~(Subtitled(cur) /\ Stream(cur).image)
    BY <1>3, <2>1 DEF CloseStream, TypeInv, BitsInv, Stays
  <2>2. CASE ~(setup.delete /\ ~(Subtitled(cur) /\ Stream(cur).image))
    BY <2>2 DEF CloseStream
  <2> QED BY <2>1, <2>2
<1>8. /\ Len(merged) = cur - 1 /\ Len(merged) \in Nat /\ cur \in Nat
      /\ Len(merged') = cur /\ merged'[cur] = m
      /\ \A k \in 1..Len(merged) : merged'[k] = merged[k]
  <2>1. Len(merged) = cur - 1 /\ cur \in Nat /\ merged \in Seq([stream : Nat, path : Path])
    BY <1>3, ItemNames DEF ClosedOk, PathInv, TargetInv
  <2>2. m \in [stream : Nat, path : Path]
    BY <1>2, <2>1 DEF PathInv, TargetInv, Own
  <2> HIDE DEF m
  <2>3. /\ Len(merged') = Len(merged) + 1 /\ Len(merged) \in Nat
        /\ \A k \in 1..Len(merged) : merged'[k] = merged[k]
        /\ merged'[Len(merged) + 1] = m
    BY <1>1, <2>1, <2>2, AppendProperties, LenProperties
  <2> QED BY <2>1, <2>3
<1>9. m.stream = cur /\ m.path = target
  OBVIOUS
<1> HIDE DEF m
<1>10. ASSUME NEW k \in 1..Len(merged) PROVE Shut(k)'
  <2>1. /\ merged[k].stream = k /\ HasAll(merged[k].path, k) /\ merged[k].path \in told
        /\ Stays(k) => InParts(k, files[k], Len(files[k]))
        /\ Wanted(k) = <<>> => merged[k].path = out[k]
        /\ \A j \in 1..Len(out) : j # k => merged[k].path # out[j]
    BY <1>3 DEF ClosedOk
  <2>2. HasAll(merged[k].path, k)'
    BY <1>1, <1>5, <1>8, <2>1 DEF HasAll, Has
  <2>3. Stays(k)' => InParts(k, files[k], Len(files[k]))'
    BY <1>1, <1>3, <1>5, <1>7, <2>1 DEF InParts
  <2> QED BY <1>1, <1>5, <1>8, <2>1, <2>2, <2>3 DEF Shut
<1>11. \A k : k = cur => Shut(k)'
  <2>1. SUFFICES ASSUME NEW k, k = cur PROVE Shut(k)'
    OBVIOUS
  <2>2. HasAll(merged[k].path, k)'
    BY <1>1, <1>4, <1>5, <1>8, <1>9, <2>1 DEF HasAll, Has
  <2>3. Stays(k)' => InParts(k, files[k], Len(files[k]))'
    BY <1>1, <1>4, <1>5, <1>7, <2>1 DEF InParts
  <2>4. Wanted(k)' = <<>> => merged'[k].path = out'[k]
    BY <1>1, <1>4, <1>5, <1>8, <1>9, <2>1 DEF TargetApart
  <2>5. \A j \in 1..Len(out') : j # k => merged'[k].path # out'[j]
    BY <1>1, <1>4, <1>8, <1>9, <2>1 DEF TargetApart
  <2> QED BY <1>1, <1>8, <1>9, <2>1, <2>2, <2>3, <2>4, <2>5 DEF Shut
<1>12. \A k \in 1..Len(merged') : Shut(k)'
  <2>1. \A k \in 1..Len(merged') : k \in 1..Len(merged) \/ k = cur
    BY <1>8
  <2> QED BY <1>10, <1>11, <2>1
<1>13. \A j, k \in 1..Len(merged') : j # k => merged'[j].path # merged'[k].path
  <2>1. \A k \in 1..Len(merged') : k \in 1..Len(merged) \/ k = cur
    BY <1>8
  <2>2. \A j, k \in 1..Len(merged) : j # k => merged[j].path # merged[k].path
    BY <1>3 DEF ClosedOk
  <2>3. \A k \in 1..Len(merged) : target # merged[k].path
    BY <1>4 DEF TargetApart
  <2> QED BY <1>8, <1>9, <2>1, <2>2, <2>3
<1>14. ASSUME NEW s \in Streams, s > cur PROVE InTemp(s, files[s], 0)'
  <2>1. InTemp(s, files[s], 0) /\ s # cur
    BY <1>3, <1>8, <1>14 DEF ClosedOk
  <2> QED BY <1>1, <1>7, <2>1 DEF InTemp
<1> QED BY <1>3, <1>5, <1>6, <1>8, <1>12, <1>13, <1>14

LEMMA CloseStreamHolds ==
  ASSUME Inv, BitsInv, PathInv, HoldInv, CloseStream
  PROVE  HoldInv'
<1>1. /\ pc = "closing" /\ NextStream(merged') /\ setup' = setup
  BY DEF CloseStream
<1>2. /\ FilesOk' /\ ~setup.skipMerge /\ cur \in Streams /\ Streams' = Streams
      /\ Len(merged') = cur
      /\ \A k \in 1..Len(merged') : Shut(k)'
      /\ \A j, k \in 1..Len(merged') : j # k => merged'[j].path # merged'[k].path
      /\ \A s \in Streams : s > cur => InTemp(s, files[s], 0)'
  BY CloseShuts
<1>3. cur \in Nat /\ Len(setup.streams) \in Nat /\ Streams = 1..Len(setup.streams)
  BY <1>2, ItemNames, StreamsShape DEF Inv, TypeInv, Streams
<1>4. CASE cur < Len(setup.streams)
  <2>1. pc' = "decrypting" /\ cur' = cur + 1 /\ cur' \in Streams
    BY <1>1, <1>2, <1>3, <1>4 DEF NextStream
  <2>2. ClosedOk'
    <3>1. Len(merged') = cur' - 1
      BY <1>2, <1>3, <2>1
    <3>2. \A s \in Streams' : s > cur' => InTemp(s, files[s], 0)'
      BY <1>2, <1>3, <2>1
    <3> QED BY <1>2, <3>1, <3>2 DEF ClosedOk, Shut
  <2>3. InTemp(cur, files[cur], 0)'
    <3>1. \A s : s = cur' => InTemp(s, files[s], 0)'
      BY <1>2, <1>3, <2>1
    <3> QED BY <3>1 DEF InTemp
  <2>4. CurOk'
    BY <2>1, <2>3 DEF CurOk, Targeted
  <2> QED BY <1>1, <1>2, <2>1, <2>2, <2>4, CloserHold DEF Closers
<1>5. CASE ~(cur < Len(setup.streams)) /\ Muxes(merged')
  <2>1. pc' = "muxing" /\ Len(merged') = Len(setup'.streams)
    BY <1>1, <1>2, <1>3, <1>5 DEF NextStream
  <2>2. MuxOk'
    BY <1>2, <2>1 DEF MuxOk, Shut, Swallowed
  <2> QED BY <1>1, <1>2, <2>1, <2>2, MuxHold DEF Muxers
<1>6. CASE ~(cur < Len(setup.streams)) /\ ~Muxes(merged')
  <2>1. pc' = "clearing" /\ Len(merged') = Len(setup'.streams)
    BY <1>1, <1>2, <1>3, <1>6 DEF NextStream
  <2>2. ASSUME NEW s \in Streams'
        PROVE  /\ Stays(s)' => InParts(s, files[s], Len(files[s]))'
               /\ Wanted(s)' # <<>> => \E p \in told' : Has(p, s)'
    <3>1. Shut(s)'
      BY <1>1, <1>2, <1>3, <2>1, <2>2
    <3> QED BY <3>1 DEF Shut, HasAll
  <2>3. ClearOk'
    BY <1>1, <1>2, <2>2 DEF ClearOk
  <2> QED BY <1>2, <2>1, <2>3, ClearHold
<1> QED BY <1>4, <1>5, <1>6

-----------------------------------------------------------------------------
(* The mux of all outputs.                                                     *)

MuxFrame == /\ UNCHANGED <<setup, temp, parts, opts, files, merged>>
            /\ pc \in Muxers /\ pc' \in Probed

LEMMA InMux ==
  ASSUME Inv, PathInv, HoldInv, PlainNames, pc \in Muxers
  PROVE  /\ TypeInv /\ setup \in Setups /\ ~setup.skipMerge /\ FilesOk /\ MuxOk
         /\ Streams = 1..Len(merged) /\ pc \in Probed /\ pc \notin Final
         /\ \A k \in 1..Len(merged) : /\ merged[k].path \notin Imports /\ merged[k].path # Muxed
                                      /\ merged[k] \in ToSet(merged)
<1>1. /\ TypeInv /\ setup \in Setups /\ ~setup.skipMerge /\ FilesOk /\ MuxOk
      /\ pc \in Probed /\ pc \notin Final
  BY DEF Inv, TypeInv, HoldInv, Probed, Muxers, Late, Final
<1>2. \A k \in 1..Len(merged) : Own(merged[k].path)
  BY DEF PathInv, TargetInv
<1>3. ~PlainName(Muxed.name)
  BY <1>1, MuxNames
<1>4. \A k \in 1..Len(merged) : /\ merged[k].path \notin Imports /\ merged[k].path # Muxed
  BY <1>2, <1>3 DEF Own, Foreign
<1>5. \A k \in 1..Len(merged) : merged[k] \in ToSet(merged)
  <2>1. DOMAIN merged = 1..Len(merged)
    BY LenProperties DEF PathInv, TargetInv
  <2> QED BY <2>1 DEF ToSet
<1> QED BY <1>1, <1>4, <1>5 DEF MuxOk, Streams

LEMMA MuxSame ==
  ASSUME MuxFrame
  PROVE  /\ MuxInputs' = MuxInputs /\ MuxPaths' = MuxPaths /\ Streams' = Streams
         /\ \A q, s : Track(q, s)' <=> Track(q, s)
         /\ \A s : Wanted(s)' = Wanted(s) /\ Stays(s)' = Stays(s)
         /\ \A s : InParts(s, files[s], Len(files[s]))' <=> InParts(s, files[s], Len(files[s]))
<1>1. pc \in Probed /\ pc' \in Probed /\ UNCHANGED <<setup, opts, files, merged>>
  BY DEF MuxFrame, Muxers, Probed, Late
<1>2. /\ \A q, s : Track(q, s)' <=> Track(q, s)
      /\ Streams' = Streams /\ Imports' = Imports
      /\ \A s : Wanted(s)' = Wanted(s) /\ Stays(s)' = Stays(s) /\ Kind(s)' = Kind(s)
  BY <1>1, TrackSame, PlansSame
<1>3. MuxInputs' = MuxInputs
  BY <1>1, <1>2 DEF MuxInputs
<1>4. MuxPaths' = MuxPaths
  BY <1>2, <1>3 DEF MuxPaths
<1>5. \A s : InParts(s, files[s], Len(files[s]))' <=> InParts(s, files[s], Len(files[s]))
  BY DEF InParts, MuxFrame
<1> QED BY <1>2, <1>3, <1>4, <1>5

\* What a file of the mux has, another one may have later.
LEMMA MuxCarried ==
  ASSUME MuxFrame, NEW s, NEW a, HasAll(a, s), NEW b,
         a \in DOMAIN disk => b \in DOMAIN disk' /\ disk[a] \subseteq disk'[b]
  PROVE  HasAll(b, s)'
<1>1. /\ \A q : Track(q, s)' <=> Track(q, s)
      /\ Wanted(s)' = Wanted(s)
  BY MuxSame
<1> QED BY <1>1 DEF HasAll, Has

LEMMA MuxFrameHolds ==
  ASSUME Inv, PathInv, HoldInv, PlainNames, MuxFrame, pc' \in Muxers, told' = told,
         pc \in Swallowed => pc' \in Swallowed,
         \A k \in 1..Len(merged) :
           /\ pc' # "muxing" /\ merged[k] \notin MuxInputs => merged[k].path # target'
           /\ IF pc' \in Swallowed /\ merged[k] \in MuxInputs THEN HasAll(target, k)'
              ELSE HasAll(merged[k].path, k)'
  PROVE  HoldInv'
<1>1. MuxOk /\ FilesOk /\ ~setup.skipMerge /\ pc \in Probed
  BY InMux DEF MuxFrame
<1>2. /\ setup' = setup /\ merged' = merged /\ MuxInputs' = MuxInputs
      /\ \A s : Stays(s)' = Stays(s)
      /\ \A s : InParts(s, files[s], Len(files[s]))' <=> InParts(s, files[s], Len(files[s]))
  BY MuxSame DEF MuxFrame
<1>3. FilesOk'
  BY <1>1, FilesSame DEF MuxFrame
<1>4. \A k \in 1..Len(merged) :
        ~(pc' \in Swallowed /\ merged[k] \in MuxInputs) => merged[k].path \in told'
  BY <1>1 DEF MuxOk
<1>5. MuxOk'
  BY <1>1, <1>2, <1>4 DEF MuxOk
<1> QED BY <1>1, <1>2, <1>3, <1>5, MuxHold

\* The name of the mux is free of the outputs that are left out of it.
LEMMA StartMuxHolds ==
  ASSUME Inv, PathInv, BitsInv, HoldInv, PlainNames, OutputsApart', StartMux \/ ForgeFails
  PROVE  HoldInv'
<1>1. /\ pc \in {"muxing", "forging"} /\ pc \in Muxers
      /\ pc' \in {"refused", "failed", "forging", "tool muxing"}
      /\ UNCHANGED <<setup, disk, temp, parts, opts, files, merged, told>>
      /\ pc' = "tool muxing" => target' = Muxed
  BY DEF StartMux, ForgeFails, data, plans, Muxers, MuxTarget, Muxed
<1>2. /\ pc \notin Final /\ MuxOk
      /\ \A k \in 1..Len(merged) : merged[k].path # Muxed /\ merged[k] \in ToSet(merged)
  BY <1>1, InMux
<1>3. CASE pc' \in {"refused", "failed"}
  BY <1>1, <1>2, <1>3, QuietFail
<1>4. CASE pc' \in {"forging", "tool muxing"}
  <2>1. MuxFrame /\ pc' \in Muxers /\ pc' \notin Swallowed /\ pc \notin Swallowed
    BY <1>1, <1>4 DEF MuxFrame, Muxers, Probed, Late, Swallowed
  <2>2. \A k \in 1..Len(merged) : merged[k] \notin MuxInputs => merged[k].path # target'
    <3>1. CASE pc' = "tool muxing"
      BY <1>1, <1>2, <3>1
    <3>2. CASE pc' = "forging"
      <4>1. \A m \in ToSet(merged) \ MuxInputs : target' # m.path
        BY <1>1, <2>1, <3>2, MuxSame DEF OutputsApart
      <4> QED BY <1>2, <4>1
    <3> QED BY <1>4, <3>1, <3>2
  <2>3. ASSUME NEW k \in 1..Len(merged) PROVE HasAll(merged[k].path, k)'
    <3>1. HasAll(merged[k].path, k)
      BY <1>1, <1>2 DEF MuxOk, Swallowed
    <3>2. \A b : b = merged[k].path => HasAll(b, k)'
      BY <1>1, <2>1, <3>1, MuxCarried
    <3> QED BY <1>1, <3>2
  <2> QED BY <1>1, <2>1, <2>2, <2>3, MuxFrameHolds
<1> QED BY <1>1, <1>3, <1>4

LEMMA MuxEndsHolds ==
  ASSUME Inv, PathInv, HoldInv, PlainNames, Forge \/ MuxEnds
  PROVE  HoldInv'
<1>1. /\ pc \in {"forging", "tool muxing"} /\ pc' = "sweeping"
      /\ disk' = Put(disk, target, MuxContent)
      /\ UNCHANGED <<setup, temp, parts, opts, files, merged, told, target>>
  BY DEF Forge, MuxEnds, plans, works
<1>2. /\ pc \in Muxers /\ MuxFrame /\ pc \notin Swallowed /\ pc' \in Swallowed /\ pc # "muxing"
      /\ pc' \in Muxers
  BY <1>1 DEF MuxFrame, Muxers, Probed, Late, Swallowed
<1>3. MuxOk
  BY <1>2, InMux
<1>4. target \in DOMAIN disk' /\ disk'[target] = MuxContent
  BY <1>1 DEF Put
<1>5. ASSUME NEW k \in 1..Len(merged)
      PROVE  /\ HasAll(merged[k].path, k)
             /\ merged[k] \notin MuxInputs => merged[k].path # target
  BY <1>2, <1>3 DEF MuxOk
<1>6. ASSUME NEW k \in 1..Len(merged), merged[k] \in MuxInputs PROVE HasAll(target, k)'
  <2>1. merged[k].path \in DOMAIN disk => disk[merged[k].path] \subseteq MuxContent
    BY <1>6 DEF MuxContent, MuxPaths
  <2>2. \A b : b = target => HasAll(b, k)'
    BY <1>2, <1>4, <1>5, <2>1, MuxCarried
  <2> QED BY <1>1, <2>2
<1>7. ASSUME NEW k \in 1..Len(merged), merged[k] \notin MuxInputs PROVE HasAll(merged[k].path, k)'
  <2>1. merged[k].path \in DOMAIN disk =>
          merged[k].path \in DOMAIN disk' /\ disk[merged[k].path] \subseteq disk'[merged[k].path]
    BY <1>1, <1>5, <1>7 DEF Put
  <2>2. \A b : b = merged[k].path => HasAll(b, k)'
    BY <1>2, <1>5, <2>1, MuxCarried
  <2> QED BY <1>1, <2>2
<1> QED BY <1>1, <1>2, <1>5, <1>6, <1>7, MuxFrameHolds

\* The sweep takes the inputs and leaves what was left out of the mux.
LEMMA SweepHolds ==
  ASSUME Inv, PathInv, HoldInv, PlainNames, Sweep
  PROVE  HoldInv'
<1>1. /\ pc = "sweeping" /\ pc' = "naming"
      /\ disk' = IF setup.keep THEN disk ELSE Deleted(disk, MuxPaths \ {target})
      /\ UNCHANGED <<setup, temp, parts, opts, files, merged, told, target>>
  BY DEF Sweep, plans, works
<1>2. /\ pc \in Muxers /\ MuxFrame /\ pc \in Swallowed /\ pc' \in Swallowed /\ pc' \in Muxers
  BY <1>1 DEF MuxFrame, Muxers, Probed, Late, Swallowed
<1>3. MuxOk /\ \A k \in 1..Len(merged) : merged[k].path \notin Imports
  BY <1>2, InMux
<1>4. \A p : p \in DOMAIN disk /\ (p \notin MuxPaths \/ p = target) =>
               p \in DOMAIN disk' /\ disk'[p] = disk[p]
  BY <1>1 DEF Deleted, Restrict
<1>5. ASSUME NEW k \in 1..Len(merged), merged[k] \in MuxInputs PROVE HasAll(target, k)'
  <2>1. HasAll(target, k)
    BY <1>2, <1>3, <1>5 DEF MuxOk
  <2>2. \A b : b = target => HasAll(b, k)'
    BY <1>2, <1>4, <2>1, MuxCarried
  <2> QED BY <1>1, <2>2
<1>6. ASSUME NEW k \in 1..Len(merged), merged[k] \notin MuxInputs
      PROVE  HasAll(merged[k].path, k)' /\ merged[k].path # target
  <2>1. HasAll(merged[k].path, k) /\ merged[k].path # target
    BY <1>1, <1>3, <1>6 DEF MuxOk, Swallowed
  <2>2. ASSUME NEW m \in MuxInputs PROVE m.path # merged[k].path
    <3>1. m \in ToSet(merged)
      BY DEF MuxInputs
    <3>2. PICK j \in 1..Len(merged) : m = merged[j]
      BY <3>1, LenProperties DEF ToSet, PathInv, TargetInv
    <3>3. j # k
      BY <1>6, <3>2
    <3> QED BY <1>3, <3>2, <3>3 DEF MuxOk
  <2>3. merged[k].path \notin MuxPaths
    BY <1>3, <2>2 DEF MuxPaths
  <2>4. \A b : b = merged[k].path => HasAll(b, k)'
    BY <1>2, <1>4, <2>1, <2>3, MuxCarried
  <2> QED BY <1>1, <2>1, <2>4
<1> QED BY <1>1, <1>2, <1>5, <1>6, MuxFrameHolds

LEMMA NameOutputHolds ==
  ASSUME Inv, PathInv, HoldInv, PlainNames, NameOutput
  PROVE  HoldInv'
<1>1. /\ pc = "naming" /\ pc' = "clearing"
      /\ UNCHANGED <<setup, temp, parts, opts, files, merged>>
      /\ told' = told \cup {target'}
      /\ \/ disk' = disk /\ target' = target
         \/ /\ target' # target /\ target' \notin DOMAIN disk
            /\ disk' = Move(disk, target, target')
  BY DEF NameOutput, plans
<1>2. /\ pc \in Muxers /\ MuxFrame /\ pc \in Swallowed /\ pc # "muxing"
  BY <1>1 DEF MuxFrame, Muxers, Probed, Late, Swallowed
<1>3. MuxOk /\ ~setup.skipMerge /\ FilesOk /\ Streams = 1..Len(merged) /\ pc \in Probed
  BY <1>2, InMux
<1>4. FilesOk'
  BY <1>1, <1>2, <1>3, FilesSame DEF MuxFrame
<1>5. target \in DOMAIN disk => target' \in DOMAIN disk' /\ disk'[target'] = disk[target]
  BY <1>1 DEF Move, Put
<1>6. \A p \in DOMAIN disk : p # target => p \in DOMAIN disk' /\ disk'[p] = disk[p]
  BY <1>1 DEF Move, Put, Deleted, Restrict
<1>7. ASSUME NEW s \in Streams', Wanted(s)' # <<>> PROVE \E p \in told' : Has(p, s)'
  <2>1. s \in 1..Len(merged)
    BY <1>2, <1>3, MuxSame
  <2>2. CASE merged[s] \in MuxInputs
    <3>1. HasAll(target, s)
      BY <1>2, <1>3, <2>1, <2>2 DEF MuxOk
    <3>2. \A b : b = target' => HasAll(b, s)'
      BY <1>2, <1>5, <3>1, MuxCarried
    <3>3. \A b : b = target' => b \in told' /\ Has(b, s)'
      BY <1>1, <1>7, <3>2 DEF HasAll
    <3> QED BY <3>3
  <2>3. CASE merged[s] \notin MuxInputs
    <3>1. HasAll(merged[s].path, s) /\ merged[s].path # target /\ merged[s].path \in told
      BY <1>2, <1>3, <2>1, <2>3 DEF MuxOk
    <3>2. \A b : b = merged[s].path => HasAll(b, s)'
      BY <1>2, <1>6, <3>1, MuxCarried
    <3>3. \A b : b = merged[s].path => b \in told' /\ Has(b, s)'
      BY <1>1, <1>7, <3>1, <3>2 DEF HasAll
    <3> QED BY <3>3
  <2> QED BY <2>2, <2>3
<1>8. ASSUME NEW s \in Streams', Stays(s)' PROVE InParts(s, files[s], Len(files[s]))'
  BY <1>2, <1>3, <1>8, MuxSame DEF MuxOk
<1>9. ClearOk'
  BY <1>1, <1>3, <1>7, <1>8 DEF ClearOk
<1> QED BY <1>1, <1>4, <1>9, ClearHold

-----------------------------------------------------------------------------
(* The ends of a session.                                                      *)

\* What a tool leaves torn was nobody's.
LEMMA ToolStopsHolds ==
  ASSUME Inv, PathInv, BitsInv, HoldInv, PlainNames, [Next]_vars, ToolCancelled \/ ToolFails
  PROVE  HoldInv'
<1>1. /\ pc \in {"ffmpeg merging", "tool muxing"} /\ pc' \in {"failed", "cancelled"}
      /\ disk' = disk \/ disk' = Put(disk, target, Torn)
      /\ UNCHANGED <<setup, temp, parts, opts, files, merged, told, target>>
  BY DEF ToolCancelled, ToolFails, plans, works
<1>2. CASE pc = "ffmpeg merging"
  <2>1. pc \in Closers /\ pc # "decrypting" /\ pc # "skipping" /\ pc \notin Final
    BY <1>2 DEF Closers, InStream, Final
  <2>2. CurOk
    BY <2>1, InWork
  <2>3. target \notin DOMAIN disk
    BY <1>2, <2>2 DEF CurOk
  <2> QED BY <1>1, <2>1, <2>3, QuietFail
<1>3. CASE pc = "tool muxing"
  <2>1. /\ pc \in Muxers /\ MuxFrame /\ pc \notin Swallowed /\ pc # "muxing"
    BY <1>1, <1>3 DEF MuxFrame, Muxers, Probed, Late, Swallowed, Final
  <2>2. /\ MuxOk /\ FilesOk /\ Streams = 1..Len(merged) /\ pc \in Probed /\ target = Muxed
        /\ \A k \in 1..Len(merged) : merged[k].path # Muxed
    BY <1>3, <2>1, InMux DEF PathInv, TargetInv, Muxed
  <2>3. FilesOk' /\ TypeInv' /\ BitsInv'
    BY <2>1, <2>2, FilesSame, StepKeeps, BitsKept DEF MuxFrame, Inv
  <2>4. \A p \in DOMAIN disk : p # Muxed => p \in DOMAIN disk' /\ disk'[p] = disk[p]
    BY <1>1, <2>2 DEF Put
  <2>5. ASSUME NEW s \in Streams'
        PROVE  /\ Stays(s)' => InParts(s, files[s], Len(files[s]))'
               /\ \E p : HasAll(p, s)'
    <3>1. s \in 1..Len(merged)
      BY <2>1, <2>2, MuxSame
    <3>2. HasAll(merged[s].path, s) /\ (Stays(s) => InParts(s, files[s], Len(files[s])))
      BY <2>1, <2>2, <3>1 DEF MuxOk
    <3>3. \A b : b = merged[s].path => HasAll(b, s)'
      BY <2>1, <2>2, <2>4, <3>1, <3>2, MuxCarried
    <3> QED BY <2>1, <3>2, <3>3, MuxSame
  <2>6. (\A s \in Streams :
           TypeInv /\ BitsInv /\ FilesOk
             /\ (Stays(s) => InParts(s, files[s], Len(files[s]))) /\ (\E p : HasAll(p, s))
           => Kept(s))'
    BY MuxKept, PTL
  <2>7. \A s \in Streams' : Kept(s)'
    BY <2>3, <2>5, <2>6
  <2> QED BY <1>1, <2>7, FailHold
<1> QED BY <1>1, <1>2, <1>3

\* The temporary directories go when everything is in an announced file.
LEMMA ClearTempHolds ==
  ASSUME Inv, PathInv, BitsInv, HoldInv, PlainNames, [Next]_vars, ClearTemp
  PROVE  HoldInv'
<1>1. /\ pc = "clearing" /\ pc' = "finished" /\ pc \in Probed /\ pc' \in Probed
      /\ UNCHANGED <<setup, disk, opts, files, merged, told>>
      /\ setup.skipMerge => UNCHANGED <<temp, parts>>
  BY DEF ClearTemp, plans, works, Probed, Late, Final
<1>2. FilesOk /\ ClearOk
  BY <1>1 DEF HoldInv
<1>3. /\ \A q, s : Track(q, s)' <=> Track(q, s)
      /\ Streams' = Streams
      /\ \A s : Wanted(s)' = Wanted(s) /\ Stays(s)' = Stays(s) /\ Stream(s)' = Stream(s)
  BY <1>1, TrackSame, PlansSame
<1>4. FilesOk' /\ TypeInv' /\ BitsInv'
  BY <1>1, <1>2, FilesSame, StepKeeps, BitsKept DEF Inv
<1>5. (\A s \in Streams : TypeInv /\ BitsInv /\ FilesOk /\ Placed(s) => Kept(s))'
  BY PlacedKept, PTL
<1>6. CASE setup.skipMerge
  <2>1. \A s \in Streams' : InTemp(s, files[s], 0)'
    BY <1>1, <1>2, <1>3, <1>6 DEF ClearOk, AllInTemp, InTemp
  <2>2. \A s \in Streams' : Placed(s)'
    BY <2>1 DEF Placed
  <2>3. \A s \in Streams' : Kept(s)'
    BY <1>4, <1>5, <2>2
  <2>4. FinishedIsWhole'
    BY <1>1, <1>6 DEF FinishedIsWhole
  <2> QED BY <1>1, <2>3, <2>4, FinalHold DEF EndOk, Final
<1>7. CASE ~setup.skipMerge
  <2>1. \A s \in Streams : Wanted(s) # <<>> => \E p \in told : Has(p, s)
    BY <1>2, <1>7 DEF ClearOk
  <2>2. ASSUME NEW s \in Streams', Wanted(s)' # <<>>
        PROVE  \E p \in told' : p \in DOMAIN disk' /\ \E q \in disk'[p] : Track(q, s)'
    <3>1. PICK p \in told : p \in DOMAIN disk /\ \E q \in disk[p] : Track(q, s)
      BY <1>3, <2>1, <2>2 DEF Has
    <3> QED BY <1>1, <1>3, <3>1
  <2>3. FinishedIsWhole'
    <3>1. \A q, s : Track(q, s)' => IsTrack(q, s)'
      BY DEF Track
    <3> QED BY <2>2, <3>1 DEF FinishedIsWhole
  <2>4. ASSUME NEW s \in Streams' PROVE Kept(s)'
    <3>1. CASE Stays(s)'
      BY <1>1, <3>1 DEF Kept, Stays
    <3>2. CASE ~Stays(s)'
      <4>1. \E p : HasAll(p, s)'
        <5>1. CASE Wanted(s)' = <<>>
          BY <5>1 DEF HasAll
        <5>2. CASE Wanted(s)' # <<>>
          BY <2>2, <5>2 DEF HasAll, Has
        <5> QED BY <5>1, <5>2
      <4>2. Placed(s)'
        BY <3>2, <4>1 DEF Placed
      <4> QED BY <1>4, <1>5, <4>2
    <3> QED BY <3>1, <3>2
  <2> QED BY <1>1, <2>3, <2>4, FinalHold DEF EndOk, Final
<1> QED BY <1>6, <1>7

LEMMA QuietEnds ==
  ASSUME Inv, PathInv, BitsInv, HoldInv, NothingToMerge \/ NoticeCancel \/ Crash
  PROVE  HoldInv'
<1>1. /\ pc \notin Final /\ pc' \in {"failed", "cancelled"}
      /\ UNCHANGED <<setup, disk, temp, parts, files>>
  BY DEF NothingToMerge, NoticeCancel, Crash, Goto, Running, Final, Checks, data, plans
<1> QED BY <1>1, QuietFail

\* A request to cancel changes nothing of this.
LEMMA HoldSame ==
  ASSUME HoldInv, UNCHANGED <<setup, pc, disk, temp, parts, opts, files, out, merged, cur, pos,
                              target, told>>
  PROVE  HoldInv'
<1>1. /\ Streams' = Streams
      /\ \A s : /\ Stream(s)' = Stream(s) /\ Items(s)' = Items(s) /\ Offset(s)' = Offset(s)
                /\ Kind(s)' = Kind(s) /\ InOrder(s)' = InOrder(s)
  BY DEF Streams, Stream, Items, Offset, Kind, InOrder
<1>2. \A s : /\ DropsInit(s)' = DropsInit(s) /\ NeedsTool(s)' = NeedsTool(s)
             /\ Subtitled(s)' = Subtitled(s) /\ Stays(s)' = Stays(s)
  BY <1>1 DEF DropsInit, RealTime, NeedsTool, Subtitled, Stays
<1>3. \A s : /\ Inputs(s)' = Inputs(s) /\ Wanted(s)' = Wanted(s) /\ Binary(s)' = Binary(s)
             /\ Grouped(s)' = Grouped(s) /\ \A n : Upto(n, s)' = Upto(n, s)
  BY <1>1, <1>2 DEF Inputs, Wanted, Binary, Grouped, Upto
<1>4. /\ \A q, s : Track(q, s)' <=> Track(q, s)
      /\ \A q, s : IsTrack(q, s)' <=> IsTrack(q, s)
  BY <1>2, <1>3 DEF Track, IsTrack
<1>5. \A p, s : Has(p, s)' <=> Has(p, s)
  BY <1>4 DEF Has
<1>6. /\ \A p, s : HasAll(p, s)' <=> HasAll(p, s)
      /\ \A s, q, n : InTemp(s, q, n)' <=> InTemp(s, q, n)
      /\ \A s, q, n : InParts(s, q, n)' <=> InParts(s, q, n)
      /\ FilesOk' <=> FilesOk
  BY <1>1, <1>3, <1>5 DEF HasAll, InTemp, InParts, FilesOk
<1>7. AllInTemp' <=> AllInTemp
  BY <1>1, <1>6 DEF AllInTemp
<1>8. ClosedOk' <=> ClosedOk
  BY <1>1, <1>2, <1>3, <1>6 DEF ClosedOk
<1>9. TargetApart' <=> TargetApart
  BY <1>3 DEF TargetApart
<1>10. CurOk' <=> CurOk
  <2>1. AsidePath(target)' = AsidePath(target) /\ DecPath(target)' = DecPath(target)
    BY DEF AsidePath, DecPath, Extended
  <2> QED BY <1>1, <1>2, <1>3, <1>6, <1>9, <2>1 DEF CurOk
<1>11. MuxOk' <=> MuxOk
  <2>1. MuxInputs' = MuxInputs
    BY <1>1 DEF MuxInputs
  <2> QED BY <1>2, <1>6, <2>1 DEF MuxOk
<1>12. ClearOk' <=> ClearOk
  BY <1>1, <1>2, <1>3, <1>5, <1>6, <1>7 DEF ClearOk
<1>13. EndOk' <=> EndOk
  <2>1. \A s, i : Held(s, i)' <=> Held(s, i)
    BY <1>1 DEF Held
  <2>2. \A s : Kept(s)' <=> Kept(s)
    BY <1>1, <1>2, <2>1 DEF Kept
  <2>3. FinishedIsWhole' <=> FinishedIsWhole
    BY <1>1, <1>3, <1>4 DEF FinishedIsWhole
  <2> QED BY <1>1, <2>2, <2>3 DEF EndOk
<1> QED BY <1>1, <1>6, <1>7, <1>8, <1>10, <1>11, <1>12, <1>13 DEF HoldInv

\* An output that is torn is no other stream's, and its own is still where it was.
LEMMA WriteTearsHolds ==
  ASSUME Inv, PathInv, BitsInv, HoldInv, PlainNames, [Next]_vars, WriteTears
  PROVE  HoldInv'
<1>1. /\ pc \in {"subtitling", "writing", "merging"} /\ pc' = "failed" /\ Frame
      /\ pc \in Closers /\ pc # "decrypting" /\ pc # "skipping"
  BY DEF WriteTears, plans, works, Frame, InStream, Probed, Closers, Late, Final
<1>2. /\ cur \in Streams /\ FilesOk /\ TypeInv /\ ~setup.skipMerge /\ CurOk
      /\ Len(Inputs(cur)) \in Nat
  BY <1>1, InWork, FilesShape
<1>3. FilesOk' /\ ClosedOk'
  BY <1>1, <1>2, ClosedStays DEF Frame
<1>4. Inv' /\ BitsInv'
  BY StepKeeps, BitsKept
<1>5. /\ cur' = cur /\ files' = files /\ Streams' = Streams
      /\ Inputs(cur)' = Inputs(cur) /\ \A n : Upto(n, cur)' = Upto(n, cur)
      /\ \A q, n : InTemp(cur, q, n)' <=> InTemp(cur, q, n)
      /\ \A q, n : InParts(cur, q, n)' <=> InParts(cur, q, n)
  BY <1>1, FramePlans DEF Frame, Streams, Upto, InTemp, InParts
<1>6. Placed(cur)'
  <2>1. CASE pc \in {"subtitling", "writing"}
    BY <1>2, <1>5, <2>1 DEF CurOk, Placed
  <2>2. CASE pc = "merging" /\ Grouped(cur)
    <3>1. InParts(cur, Inputs(cur), Upto(Len(Inputs(cur)), cur))
      BY <1>2, <2>2 DEF CurOk, Upto
    <3>2. InTemp(cur, Inputs(cur), Len(Inputs(cur)))
      BY <1>2 DEF InTemp
    <3> QED BY <1>2, <1>5, <3>1, <3>2 DEF Placed
  <2>3. CASE pc = "merging" /\ ~Grouped(cur)
    <3>1. InTemp(cur, Inputs(cur), 0) /\ 0 \in Nat /\ ~(0 > 0)
      BY <1>2, <2>3 DEF CurOk
    <3> QED BY <1>5, <3>1 DEF Placed
  <2> QED BY <1>1, <2>1, <2>2, <2>3
<1>7. (TypeInv /\ BitsInv /\ FilesOk /\ ClosedOk /\ cur \in Streams /\ Placed(cur) =>
         \A s \in Streams : Kept(s))'
  BY ClosedKept, PTL
<1>8. \A s \in Streams' : Kept(s)'
  BY <1>2, <1>3, <1>4, <1>5, <1>6, <1>7 DEF Inv
<1> QED BY <1>1, <1>8, FailHold

\* A file that is torn is still there, and no other file is touched.
LEMMA TearsHolds ==
  ASSUME Inv, BitsInv, HoldInv, [Next]_vars, DecryptTears
  PROVE  HoldInv'
<1>1. /\ pc = "decrypting" /\ pc' = "failed" /\ pc \in Closers /\ pc \notin Final
      /\ UNCHANGED <<setup, disk, parts, files>>
      /\ \E i : temp' = [temp EXCEPT ![cur][i] = "torn"]
  BY DEF DecryptTears, plans, Closers, Final
<1>2. Streams' = Streams /\ \A s : Stream(s)' = Stream(s)
  BY <1>1 DEF Streams, Stream
<1>3. \A s : DropsInit(s)' = DropsInit(s)
  BY <1>1, <1>2 DEF DropsInit, RealTime, NeedsTool
<1>4. \A s \in Streams : \A i \in Items(s) : temp[s][i] # "none" => temp'[s][i] # "none"
  BY <1>1 DEF Inv, TypeInv
<1>5. ASSUME NEW s \in Streams' PROVE Kept(s)'
  <2>1. Kept(s) /\ s \in Streams /\ FilesOk /\ TypeInv
    BY <1>1, <1>2, RunsKept, InClosers
  <2>2. ASSUME NEW k \in DOMAIN files[s], Held(s, files[s][k]) PROVE Held(s, files[s][k])'
    <3>1. files[s][k] \in Items(s)
      BY <2>1, FilesShape, LenProperties
    <3> QED BY <1>1, <1>2, <1>4, <2>1, <2>2, <3>1 DEF Held
  <2> QED BY <1>1, <1>2, <1>3, <2>1, <2>2 DEF Kept
<1> QED BY <1>1, <1>5, FailHold

LEMMA HoldInit == Init => BitsInv /\ HoldInv
<1> SUFFICES ASSUME Init PROVE BitsInv /\ HoldInv
  OBVIOUS
<1>1. /\ pc = "idle" /\ merged = <<>> /\ temp = [s \in Streams |-> [i \in Items(s) |-> "none"]]
      /\ parts = [s \in Streams |-> <<>>] /\ files = [s \in Streams |-> <<>>]
  BY DEF Init
<1>2. <<>> \in Seq(Bits)
  BY EmptySeq
<1>3. BitsInv
  BY <1>1, <1>2 DEF BitsInv, Fates
<1>4. HoldInv
  BY <1>1 DEF HoldInv, Early, Downloaded, Closers, InStream, Muxers, Final
<1> QED BY <1>3, <1>4

LEMMA HoldKept ==
  PlainNames /\ Inv /\ PathInv /\ BitsInv /\ HoldInv /\ OutputsApart' /\ [Next]_vars => HoldInv'
<1> SUFFICES ASSUME PlainNames, Inv, PathInv, BitsInv, HoldInv, OutputsApart', [Next]_vars
             PROVE  HoldInv'
  OBVIOUS
<1>1. CASE Begin
  BY <1>1, BeginHolds
<1>2. CASE Wait \/ LoadSource \/ LoadFails \/ Pause \/ Select \/ SkipDownload \/ GoDownload
           \/ DownloadFails
  BY <1>2, EarlyStepHolds
<1>3. CASE Download \/ Probe \/ Reserve \/ Finalize
  BY <1>3, DownloadHolds, DownHolds, FinalizeHolds
<1>4. CASE DecryptSegment \/ DecryptionDone \/ SkipMerge \/ SavePngs \/ DropImageSegments
  BY <1>4, DecryptSegmentHolds, DecryptionDoneHolds, SkipMergeHolds, SavePngsHolds,
     DropImageSegmentsHolds
<1>5. CASE WriteSubtitle \/ CombineGroup \/ DropGrouped \/ GroupsDone
  BY <1>5, WriteSubtitleHolds, CombineGroupHolds, DropGroupedHolds, GroupsDoneHolds
<1>6. CASE BinaryMerge \/ StartMerge \/ MergeEnds
  BY <1>6, BinaryMergeHolds, StartMergeHolds, MergeEndsHolds
<1>7. CASE LeaveEncrypted \/ StartDecrypt \/ DecryptEnds \/ DecryptFails \/ DecryptCancelled
  BY <1>7, LeaveEncryptedHolds, StartDecryptHolds, DecryptEndsHolds, DecryptAborts
<1>8. CASE RemoveSource \/ RenameDecrypted \/ CloseStream
  BY <1>8, RemoveSourceHolds, RenameDecryptedHolds, CloseStreamHolds
<1>9. CASE StartMux \/ ForgeFails \/ Forge \/ MuxEnds
  BY <1>9, StartMuxHolds, MuxEndsHolds
<1>10. CASE Sweep \/ NameOutput \/ ClearTemp
  BY <1>10, SweepHolds, NameOutputHolds, ClearTempHolds
<1>11. CASE ToolCancelled \/ ToolFails
  BY <1>11, ToolStopsHolds
<1>12. CASE NothingToMerge \/ NoticeCancel \/ Crash
  BY <1>12, QuietEnds
<1>14. CASE DecryptTears \/ WriteTears
  BY <1>14, TearsHolds, WriteTearsHolds
<1>13. CASE Cancel \/ UNCHANGED vars
  <2>1. UNCHANGED <<setup, pc, disk, temp, parts, opts, files, out, merged, cur, pos, target, told>>
    BY <1>13 DEF Cancel, vars, data, plans, works
  <2> QED BY <2>1, HoldSame
<1> QED
  BY <1>1, <1>2, <1>3, <1>4, <1>5, <1>6, <1>7, <1>8, <1>9, <1>10, <1>11, <1>12, <1>13, <1>14
  DEF Next, Steps, ToolEnds

-----------------------------------------------------------------------------
(* The content of the imported files.                                          *)

User(p) == p \in DOMAIN disk /\ UserFile \subseteq disk[p]
ImportInv ==
  /\ \A p \in Imports : p \in DOMAIN disk => User(p)
  /\ Imports # {} => \E p \in DOMAIN disk : User(p)
  /\ Imports # {} /\ pc \in {"sweeping", "naming"} => User(target)

\* Where the files that were there change, and where the mux output is chosen.
LEMMA OtherSteps ==
  ASSUME [Next]_vars, ~Forge, ~MuxEnds, ~Sweep, ~NameOutput
  PROVE  /\ pc \in {"forging", "sweeping"} \cup Swept => disk' = disk
         /\ pc' \in {"sweeping", "naming"} => pc' = pc /\ target' = target
<1>1. CASE Begin \/ Cancel \/ DecryptTears \/ WriteTears \/ Crash \/ UNCHANGED vars
  BY <1>1 DEF Begin, Cancel, DecryptTears, WriteTears, Crash, Goto, vars, data, works, Swept, Final
<1>2. CASE ToolEnds
  BY <1>2 DEF ToolEnds, MergeEnds, ToolFails, DecryptEnds, DecryptFails, Swept, Final
<1>3. CASE Steps
  <2>1. CASE Wait \/ NoticeCancel \/ LoadSource \/ LoadFails \/ Pause \/ Select
             \/ SkipDownload \/ GoDownload \/ Download \/ DownloadFails \/ Probe
    BY <2>1 DEF Wait, NoticeCancel, LoadSource, LoadFails, Pause, Select, SkipDownload,
                GoDownload, Download, DownloadFails, Probe, Goto, data
  <2>2. CASE Reserve \/ Finalize \/ DecryptSegment \/ DecryptionDone \/ SkipMerge
             \/ SavePngs \/ DropImageSegments \/ CombineGroup \/ DropGrouped \/ GroupsDone
    BY <2>2 DEF Reserve, Finalize, DecryptSegment, DecryptionDone, AfterDecrypt, SkipMerge,
                NextStream, SavePngs, DropImageSegments, CombineGroup, DropGrouped, GroupsDone,
                Goto, data
  <2>3. CASE StartMerge \/ NothingToMerge \/ LeaveEncrypted \/ CloseStream \/ StartMux
             \/ ForgeFails \/ ClearTemp
    BY <2>3 DEF StartMerge, NothingToMerge, LeaveEncrypted, CloseStream, NextStream, StartMux,
                ForgeFails, ClearTemp, Goto, data
  <2>4. CASE WriteSubtitle \/ BinaryMerge \/ ToolCancelled \/ StartDecrypt \/ DecryptCancelled
             \/ RemoveSource \/ RenameDecrypted
    BY <2>4 DEF WriteSubtitle, BinaryMerge, ToolCancelled, StartDecrypt, DecryptCancelled,
                RemoveSource, RenameDecrypted, Swept, Final
  <2> QED BY <1>3, <2>1, <2>2, <2>3, <2>4 DEF Steps
<1> QED BY <1>1, <1>2, <1>3 DEF Next

LEMMA ImportInit == Init => ImportInv
BY DEF Init, ImportInv, User, Foreign, Imports

LEMMA ImportKept ==
  PlainNames /\ Inv /\ PathInv /\ ImportInv /\ [Next]_vars => ImportInv'
<1> SUFFICES ASSUME PlainNames, Inv, PathInv, ImportInv, [Next]_vars PROVE ImportInv'
  OBVIOUS
<1>1. Imports' = Imports
  BY SetupStays DEF Imports
<1>2. pc \notin Swept => Imports \subseteq DOMAIN disk
  BY DEF PathInv, DiskInv
<1>3. CASE Forge \/ MuxEnds
  <2>1. /\ pc \in {"forging", "tool muxing"} /\ disk' = Put(disk, target, MuxContent)
        /\ target' = target
    BY <1>3 DEF Forge, MuxEnds, works
  <2>2. Imports \subseteq DOMAIN disk
    BY <1>2, <2>1 DEF Swept, Final
  <2>3. ASSUME Imports # {} PROVE UserFile \subseteq MuxContent
    <3>1. PICK p \in Imports : User(p)
      BY <2>2, <2>3 DEF ImportInv
    <3>2. p \in MuxPaths \cap DOMAIN disk /\ UserFile \subseteq disk[p]
      BY <3>1 DEF User, MuxPaths
    <3> QED BY <3>2 DEF MuxContent
  <2>4. Imports # {} => User(target)'
    BY <2>1, <2>3 DEF User, Put
  <2>5. \A p \in Imports : User(p)'
    BY <2>1, <2>2, <2>3 DEF ImportInv, User, Put
  <2>6. Imports # {} => \E p \in DOMAIN disk' : User(p)'
    BY <2>2, <2>5 DEF User
  <2> QED BY <1>1, <2>4, <2>5, <2>6 DEF ImportInv
<1>4. CASE Sweep
  <2>1. /\ pc = "sweeping" /\ target' = target
        /\ disk' = disk \/ disk' = Deleted(disk, MuxPaths \ {target})
    BY <1>4 DEF Sweep, works
  <2>2. /\ \A p \in DOMAIN disk' : p \in DOMAIN disk /\ disk'[p] = disk[p]
        /\ target \in DOMAIN disk => target \in DOMAIN disk'
    BY <2>1 DEF Deleted, Restrict
  <2>3. Imports # {} => User(target)'
    BY <2>1, <2>2 DEF ImportInv, User
  <2>4. \A p \in Imports : p \in DOMAIN disk' => User(p)'
    BY <2>2 DEF ImportInv, User
  <2>5. Imports # {} => \E p \in DOMAIN disk' : User(p)'
    BY <2>1, <2>3 DEF User
  <2> QED BY <1>1, <2>3, <2>4, <2>5 DEF ImportInv
<1>5. CASE NameOutput
  <2>1. /\ pc = "naming" /\ pc' = "clearing"
        /\ disk' = disk \/ disk' = Move(disk, target, target')
    BY <1>5 DEF NameOutput
  <2>2. Imports # {} => User(target)
    BY <2>1 DEF ImportInv
  <2>3. CASE disk' = disk
    BY <1>1, <2>1, <2>3 DEF ImportInv, User
  <2>4. CASE disk' = Move(disk, target, target')
    <3>1. /\ target' \in DOMAIN disk' /\ disk'[target'] = disk[target]
          /\ \A p \in DOMAIN disk' : p # target' => p \in DOMAIN disk /\ disk'[p] = disk[p]
      BY <2>4 DEF Move, Put, Deleted, Restrict
    <3>2. Imports # {} => User(target)'
      BY <2>2, <3>1 DEF User
    <3>3. \A p \in Imports : p \in DOMAIN disk' => User(p)'
      BY <2>2, <3>1 DEF ImportInv, User
    <3>4. Imports # {} => \E p \in DOMAIN disk' : User(p)'
      BY <3>1, <3>2
    <3> QED BY <1>1, <2>1, <3>3, <3>4 DEF ImportInv
  <2> QED BY <2>1, <2>3, <2>4
<1>6. CASE ~Forge /\ ~MuxEnds /\ ~Sweep /\ ~NameOutput
  <2>1. /\ pc \in {"forging", "sweeping"} \cup Swept => disk' = disk
        /\ pc' \in {"sweeping", "naming"} => pc' = pc /\ target' = target
    BY <1>6, OtherSteps
  <2>2. CASE disk' = disk
    BY <1>1, <2>1, <2>2 DEF ImportInv, User
  <2>3. CASE pc \notin {"forging", "sweeping"} \cup Swept
    <3>1. Imports \subseteq DOMAIN disk /\ Imports \subseteq Foreign
      BY <1>2, <2>3 DEF Foreign
    <3>2. \A p \in Imports : p \in DOMAIN disk' /\ disk'[p] = disk[p]
      <4>1. pc \notin {"forging", "sweeping", "naming"}
        BY <2>3 DEF Swept
      <4> QED BY <3>1, <4>1, ForeignTouched
    <3>3. \A p \in Imports : User(p)'
      BY <3>1, <3>2 DEF ImportInv, User
    <3>4. pc' \notin {"sweeping", "naming"}
      BY <2>1, <2>3 DEF Swept
    <3> QED BY <1>1, <3>2, <3>3, <3>4 DEF ImportInv
  <2> QED BY <2>1, <2>2, <2>3
<1> QED BY <1>3, <1>4, <1>5, <1>6

-----------------------------------------------------------------------------
LEMMA AllKept ==
  Inv /\ BitsInv /\ HoldInv /\ ImportInv => ContentKept
<1> SUFFICES ASSUME Inv, BitsInv, HoldInv, ImportInv PROVE ContentKept
  OBVIOUS
<1>1. ASSUME NEW s \in Streams PROVE Kept(s)
  <2>1. CASE pc \in Final
    BY <2>1 DEF HoldInv, EndOk
  <2>2. CASE pc \notin Final
    BY <2>2, RunsKept
  <2> QED BY <2>1, <2>2
<1>2. Imports # {} => Held(0, 0)
  <2>1. SUFFICES ASSUME NEW p \in DOMAIN disk, UserFile \subseteq disk[p] PROVE Held(0, 0)
    BY DEF ImportInv, User
  <2> DEFINE q == <<[stream |-> 0, item |-> 0, state |-> "user"]>>
  <2>2. q \in disk[p]
    BY <2>1 DEF UserFile
  <2>3. Holds(q, 0, 0)
    <3>1. 1 \in DOMAIN q /\ q[1] = [stream |-> 0, item |-> 0, state |-> "user"]
      OBVIOUS
    <3> QED BY <3>1 DEF Holds
  <2> QED BY <2>2, <2>3 DEF Held
<1>3. Interrupted \/ \A s \in Streams : \A i \in Items(s) : temp[s][i] # "torn"
  BY DEF BitsInv, Fates
<1> QED BY <1>1, <1>2, <1>3 DEF ContentKept, Kept

\* What every session keeps, if no tool writes to another stream's path.
LEMMA SessionKeeps ==
  ASSUME PlainNames
  PROVE  Spec /\ []OutputsApart => [](Inv /\ PathInv /\ BitsInv /\ HoldInv /\ ImportInv)
<1>1. Spec => Init /\ [][Next]_vars
  BY PTL DEF Spec
<1>2. Init => Inv /\ PathInv /\ BitsInv /\ HoldInv /\ ImportInv
  BY InitHolds, PathInit, HoldInit, ImportInit
<1>3. Inv /\ PathInv /\ BitsInv /\ HoldInv /\ ImportInv /\ OutputsApart' /\ [Next]_vars =>
        (Inv /\ PathInv /\ BitsInv /\ HoldInv /\ ImportInv)'
  <2>1. Inv /\ [Next]_vars => Inv'
    BY StepKeeps
  <2>2. Inv /\ PathInv /\ [Next]_vars => PathInv'
    BY PathKept
  <2>3. Inv /\ BitsInv /\ HoldInv /\ [Next]_vars => BitsInv'
    BY BitsKept
  <2>4. Inv /\ PathInv /\ BitsInv /\ HoldInv /\ OutputsApart' /\ [Next]_vars => HoldInv'
    BY HoldKept
  <2>5. Inv /\ PathInv /\ ImportInv /\ [Next]_vars => ImportInv'
    BY ImportKept
  <2> QED BY <2>1, <2>2, <2>3, <2>4, <2>5
<1> QED BY <1>1, <1>2, <1>3, PTL

\* Whatever was downloaded is kept: at every moment of every session, and however it
\* ends, each file of finalize_downloads is in its place, in a group or in an output,
\* and what the imported files held is in a file. The order of finalize_downloads and
\* run_mux_after_done (write, then delete) is what this rests on. An AES segment whose
\* rewriting in place was interrupted may be in its place as a torn file; before the
\* first interruption none is.
THEOREM NothingIsLost ==
  ASSUME PlainNames
  PROVE  Spec /\ []OutputsApart => []ContentKept
<1>1. Spec /\ []OutputsApart => [](Inv /\ PathInv /\ BitsInv /\ HoldInv /\ ImportInv)
  BY SessionKeeps
<1> QED BY <1>1, AllKept, PTL

\* A finished session announced a file for every stream that still exists and holds all
\* files of the stream in their order: nothing is lost or reordered by groups of
\* MergeLimit inputs, a decryption in place, the mux, its sweep and its new name.
THEOREM OutputsAreWhole ==
  ASSUME PlainNames
  PROVE  Spec /\ []OutputsApart => []FinishedIsWhole
<1>1. Spec /\ []OutputsApart => [](Inv /\ PathInv /\ BitsInv /\ HoldInv /\ ImportInv)
  BY SessionKeeps
<1>2. HoldInv => FinishedIsWhole
  BY DEF HoldInv, EndOk, FinishedIsWhole, Final
<1> QED BY <1>1, <1>2, PTL
=============================================================================
