--------------------------- MODULE SocketsProofs ---------------------------
(***************************************************************************)
(* Proofs about the writer of Sockets, for any messages, any size of the   *)
(* length and of the kernel's buffers.                                     *)
(***************************************************************************)
EXTENDS Sockets, SequenceTheorems, TLAPS

\* What a byte may be: a digit of a body or of a length.
Bytes == (0 .. Base - 1) \cup {htonl(n)[k] : n \in Nat, k \in 1 .. LengthSize}

Shape ==
  /\ m_message \in Seq(Bytes)
  /\ kernel \in Seq(Bytes) /\ Len(kernel) <= Window
  /\ m_index \in Nat
  /\ watched \in BOOLEAN

IInv == Shape /\ PendingIsWatched

LEMMA MinOfTwo ==
  ASSUME NEW a \in Nat, NEW b \in Nat
  PROVE  Min({a, b}) \in Nat /\ Min({a, b}) <= a /\ Min({a, b}) <= b
<1>1. \E x \in {a, b} : \A y \in {a, b} : x <= y OBVIOUS
<1>2. Min({a, b}) \in {a, b} /\ \A y \in {a, b} : Min({a, b}) <= y BY <1>1 DEF Min
<1> QED BY <1>2

\* A frame is a sequence of bytes, and not an empty one.
LEMMA FrameIs ==
  ASSUME NEW body \in Bodies
  PROVE  extract_data(body) \in Seq(Bytes) /\ Len(extract_data(body)) > 0
<1>1. body \in Seq(0 .. Base - 1) /\ LengthSize \in Nat /\ LengthSize > 0 BY SocketsAssumption
<1> DEFINE n == Len(body)
<1>2. n \in Nat BY <1>1
<1>3. htonl(n) = [k \in 1 .. LengthSize |-> htonl(n)[k]] BY DEF htonl
<1>4. \A k \in 1 .. LengthSize : htonl(n)[k] \in Bytes BY <1>2 DEF Bytes
<1> HIDE DEF n
<1>5. htonl(n) \in [1 .. LengthSize -> Bytes] BY <1>3, <1>4
<1>6. htonl(n) \in Seq(Bytes) /\ Len(htonl(n)) = LengthSize BY <1>1, <1>5
<1>7. body \in Seq(Bytes)
  <2>1. 0 .. Base - 1 \subseteq Bytes BY DEF Bytes
  <2> QED BY <1>1, <2>1, SeqMonotonic, Zenon
<1>8. Len(htonl(n) \o body) = LengthSize + Len(body) BY <1>6, <1>7
<1> QED BY <1>1, <1>6, <1>7, <1>8 DEF extract_data, n

\* What is left after an attempt to write is in the message, at the index.
LEMMA TryWrite ==
  ASSUME Shape, NEW message \in Seq(Bytes), NEW index \in Nat, index <= Len(message),
         try_write_all(message, index)
  PROVE  /\ m_message' \in Seq(Bytes) /\ m_index' \in Nat
         /\ kernel' \in Seq(Bytes) /\ Len(kernel') <= Window
         /\ m_message' = <<>> => m_index' = 0
         /\ m_message' # <<>> => m_index' < Len(m_message')
<1> DEFINE left == Len(message) - index
           space == IF SocketGone THEN left ELSE Window - Len(kernel)
<1>1. left \in Nat /\ Window \in Nat BY SocketsAssumption
<1>2. space \in Nat BY <1>1 DEF Shape
<1>3. PICK sent \in IF space = 0 \/ left = 0 THEN {0} ELSE 1 .. Min({space, left}) :
        /\ kernel' = IF SocketGone THEN <<>> ELSE kernel \o SubSeq(message, index + 1, index + sent)
        /\ m_message' = IF sent = left THEN <<>> ELSE message
        /\ m_index' = IF sent = left THEN 0 ELSE index + sent
  BY DEF try_write_all
<1>4. sent \in Nat /\ sent <= left /\ sent <= space
  <2> HIDE DEF left, space
  <2>1. Min({space, left}) \in Nat /\ Min({space, left}) <= left /\ Min({space, left}) <= space
    BY <1>1, <1>2, MinOfTwo
  <2>2. CASE space = 0 \/ left = 0 BY <1>1, <1>2, <2>2
  <2>3. CASE ~(space = 0 \/ left = 0) BY <1>1, <1>2, <2>1, <2>3
  <2> QED BY <2>2, <2>3
<1>5. m_message' \in Seq(Bytes) /\ m_index' \in Nat BY <1>3, <1>4
<1>6. kernel' \in Seq(Bytes) /\ Len(kernel') <= Window
  <2>1. CASE SocketGone BY <1>1, <1>3, <2>1
  <2>2. CASE ~SocketGone
    <3> DEFINE piece == SubSeq(message, index + 1, index + sent)
    <3>0. kernel \in Seq(Bytes) BY DEF Shape
    <3>1. piece \in Seq(Bytes) /\ Len(piece) = sent
      <4>1. index + 1 \in 1 .. Len(message) + 1 /\ index + sent \in index .. Len(message) BY <1>4
      <4> QED BY <1>4, <4>1
    <3>2. kernel' = kernel \o piece BY <1>3, <2>2, Zenon
    <3> HIDE DEF piece
    <3>3. kernel' \in Seq(Bytes) /\ Len(kernel') = Len(kernel) + sent
      BY <3>0, <3>1, <3>2, ConcatProperties, Zenon
    <3> QED BY <1>1, <1>4, <2>2, <3>3 DEF Shape
  <2> QED BY <2>1, <2>2
<1>7. (m_message' = <<>> => m_index' = 0) /\ (m_message' # <<>> => m_index' < Len(m_message'))
  BY <1>1, <1>3, <1>4
<1> QED BY <1>5, <1>6, <1>7

LEMMA Initially == SInit => IInv
<1> SUFFICES ASSUME SInit PROVE IInv OBVIOUS
<1>1. m_message = <<>> /\ m_index = 0 /\ kernel = <<>> /\ watched \in BOOLEAN BY Zenon DEF SInit
<1>2. Len(kernel) <= Window BY <1>1, SocketsAssumption
<1> QED BY <1>1, <1>2 DEF IInv, Shape, PendingIsWatched

LEMMA SendKeeps ==
  ASSUME IInv, NEW body \in Bodies, SendMessage(body)
  PROVE  IInv'
<1> DEFINE message == m_message \o extract_data(body)
<1>1. /\ m_message \in Seq(Bytes) /\ m_index \in Nat /\ m_index <= Len(m_message)
      /\ Len(m_message) \in Nat
  BY DEF IInv, Shape, PendingIsWatched
<1>2. message \in Seq(Bytes) /\ Len(message) = Len(m_message) + Len(extract_data(body))
  BY <1>1, FrameIs
<1>3. m_index <= Len(message) BY <1>1, <1>2, FrameIs
<1>4. /\ try_write_all(message, m_index)
      /\ watched' = (watched \/ (m_message = <<>> /\ m_message' # <<>>))
  BY DEF SendMessage, write
<1> HIDE DEF message
<1>5. /\ m_message' \in Seq(Bytes) /\ m_index' \in Nat
      /\ kernel' \in Seq(Bytes) /\ Len(kernel') <= Window
      /\ m_message' = <<>> => m_index' = 0
      /\ m_message' # <<>> => m_index' < Len(m_message')
  BY <1>1, <1>2, <1>3, <1>4, TryWrite DEF IInv
<1>6. watched' \in BOOLEAN BY <1>4
<1>7. m_message' # <<>> => watched'
  <2>1. CASE m_message = <<>> BY <1>4, <2>1, Zenon
  <2>2. CASE m_message # <<>> BY <1>4, <2>2, Zenon DEF IInv, PendingIsWatched
  <2> QED BY <2>1, <2>2
<1> QED BY <1>5, <1>6, <1>7 DEF IInv, Shape, PendingIsWatched

LEMMA ReadyKeeps ==
  ASSUME IInv, write_ready
  PROVE  IInv'
<1>1. m_message \in Seq(Bytes) /\ m_index \in Nat /\ m_index <= Len(m_message)
  BY DEF IInv, Shape, PendingIsWatched
<1>2. try_write_all(m_message, m_index) /\ watched' = (m_message' # <<>>)
  BY DEF write_ready
<1>3. /\ m_message' \in Seq(Bytes) /\ m_index' \in Nat
      /\ kernel' \in Seq(Bytes) /\ Len(kernel') <= Window
      /\ m_message' = <<>> => m_index' = 0
      /\ m_message' # <<>> => m_index' < Len(m_message')
  BY <1>1, <1>2, TryWrite DEF IInv
<1>4. watched' \in BOOLEAN /\ (m_message' # <<>> => watched') BY <1>2, Zenon
<1> QED BY <1>3, <1>4 DEF IInv, Shape, PendingIsWatched

LEMMA ArriveKeeps ==
  ASSUME IInv, Arrive
  PROVE  IInv'
<1>1. PICK k \in 1 .. Min({Len(kernel), Window - Len(arrived)}) :
        /\ kernel' = SubSeq(kernel, k + 1, Len(kernel))
        /\ UNCHANGED <<m_message, m_index, watched>>
  BY DEF Arrive
<1>2. kernel \in Seq(Bytes) /\ Len(kernel) <= Window /\ k \in Int /\ k >= 1 BY DEF IInv, Shape
<1>3. kernel' \in Seq(Bytes) /\ Len(kernel') <= Window
  BY <1>1, <1>2, SocketsAssumption
<1> QED BY <1>1, <1>3 DEF IInv, Shape, PendingIsWatched

LEMMA StepKeeps == IInv /\ [SNext]_svars => IInv'
<1> SUFFICES ASSUME IInv, [SNext]_svars PROVE IInv' OBVIOUS
<1>1. ASSUME UNCHANGED <<m_message, m_index, watched, kernel>> PROVE IInv'
  BY <1>1 DEF IInv, Shape, PendingIsWatched
<1>2. CASE WriteFails \/ read_ready \/ close
  BY <1>1, <1>2, Zenon DEF WriteFails, read_ready, close, writer
<1>3. CASE remove_client
  <2>1. m_message' = <<>> /\ m_index' = 0 /\ kernel' = kernel /\ watched' \in BOOLEAN
    BY <1>3, Zenon DEF remove_client
  <2> QED BY <2>1 DEF IInv, Shape, PendingIsWatched
<1>4. CASE UNCHANGED svars BY <1>1, <1>4 DEF svars
<1> QED BY <1>2, <1>3, <1>4, SendKeeps, ReadyKeeps, ArriveKeeps DEF SNext

\* Bytes that the kernel did not take are in the write epoll's care, for messages,
\* lengths and buffers of any size (SocketWriter::write and ready).
THEOREM NothingForgotten == SSpec => []PendingIsWatched
<1>1. IInv => PendingIsWatched BY DEF IInv
<1> QED BY <1>1, Initially, StepKeeps, PTL DEF SSpec

-----------------------------------------------------------------------------
(* The stream of bytes *)

\* Where the frame of the k-th body of W begins, if E are the ends.
Place(W, E, k) == E[k] - Len(W[k]) - LengthSize
Width(W, k) == LengthSize + Len(W[k])
LastEnd(E) == IF E = <<>> THEN 0 ELSE E[Len(E)]

\* The frames follow one another.
Laid(W, E) ==
  /\ W \in Seq(Bodies) /\ E \in Seq(Nat) /\ Len(E) = Len(W)
  /\ \A k \in DOMAIN W :
       /\ E[k] <= LastEnd(E)
       /\ Place(W, E, k) = IF k = 1 THEN 0 ELSE E[k - 1]

\* The bytes s are those of the stream from the place at on, as far as it goes.
LiesAt(W, E, s, at) ==
  \A k \in DOMAIN W : \A j \in 1 .. Width(W, k) :
    LET p == Place(W, E, k) + j IN
    at < p /\ p <= at + Len(s) => s[p - at] = extract_data(W[k])[j]

LEMMA PlaceIs ==
  ASSUME NEW W, NEW E, Laid(W, E), NEW k \in DOMAIN W
  PROVE  /\ W[k] \in Bodies /\ Len(W[k]) \in Nat /\ Len(W[k]) > 0
         /\ LengthSize \in Nat /\ LengthSize > 0
         /\ E[k] \in Nat /\ E[k] <= LastEnd(E)
         /\ Place(W, E, k) \in Nat /\ Width(W, k) \in Nat /\ Place(W, E, k) + Width(W, k) = E[k]
<1>1. W \in Seq(Bodies) /\ E \in Seq(Nat) /\ Len(E) = Len(W) /\ k \in 1 .. Len(W) BY DEF Laid
<1>2. W[k] \in Bodies /\ E[k] \in Nat BY <1>1
<1>3. Len(W[k]) \in Nat /\ Len(W[k]) > 0 /\ LengthSize \in Nat /\ LengthSize > 0
  <2>1. \A b \in Bodies : Len(b) \in 1 .. Base^LengthSize - 1 BY SocketsAssumption
  <2>2. Len(W[k]) \in 1 .. Base^LengthSize - 1 BY <1>2, <2>1, Zenon
  <2>3. LengthSize \in Nat /\ LengthSize > 0 BY SocketsAssumption
  <2> QED BY <2>2, <2>3
<1>4. Place(W, E, k) = IF k = 1 THEN 0 ELSE E[k - 1] BY DEF Laid
<1>5. Place(W, E, k) \in Nat BY <1>1, <1>4
<1>6. E[k] <= LastEnd(E) BY DEF Laid
<1>7. Width(W, k) \in Nat /\ Place(W, E, k) + Width(W, k) = E[k] BY <1>2, <1>3 DEF Place, Width
<1> QED BY <1>2, <1>3, <1>5, <1>6, <1>7, Zenon

LEMMA LastIs ==
  ASSUME NEW W, NEW E, Laid(W, E)
  PROVE  LastEnd(E) \in Nat
<1>1. E \in Seq(Nat) BY DEF Laid
<1>2. CASE E = <<>> BY <1>2 DEF LastEnd
<1>3. CASE E # <<>>
  <2>1. E[Len(E)] \in Nat BY <1>1, <1>3
  <2> QED BY <1>3, <2>1 DEF LastEnd
<1> QED BY <1>2, <1>3

LEMMA LiesNowhere ==
  ASSUME NEW W, NEW E, Laid(W, E), NEW at \in Int
  PROVE  LiesAt(W, E, <<>>, at)
<1> SUFFICES ASSUME NEW k \in DOMAIN W, NEW j \in 1 .. Width(W, k),
                    at < Place(W, E, k) + j, Place(W, E, k) + j <= at + Len(<<>>)
             PROVE  FALSE
  BY Zenon DEF LiesAt
<1>1. Place(W, E, k) + j \in Int BY PlaceIs
<1> QED BY <1>1

LEMMA LiesConcat ==
  ASSUME NEW W, NEW E, Laid(W, E), NEW S, NEW s \in Seq(S), NEW t \in Seq(S), NEW at \in Int,
         LiesAt(W, E, s, at), LiesAt(W, E, t, at + Len(s))
  PROVE  LiesAt(W, E, s \o t, at)
<1> SUFFICES ASSUME NEW k \in DOMAIN W, NEW j \in 1 .. Width(W, k),
                    at < Place(W, E, k) + j, Place(W, E, k) + j <= at + Len(s \o t)
             PROVE  (s \o t)[(Place(W, E, k) + j) - at] = extract_data(W[k])[j]
  BY Zenon DEF LiesAt
<1> DEFINE p == Place(W, E, k) + j
           x == extract_data(W[k])[j]
<1>1. p \in Int BY PlaceIs
<1>2. /\ at < p /\ p <= at + Len(s) => s[p - at] = x
      /\ at + Len(s) < p /\ p <= at + Len(s) + Len(t) => t[p - (at + Len(s))] = x
  BY Zenon DEF LiesAt
<1>3. at < p /\ p <= at + Len(s \o t) OBVIOUS
<1> HIDE DEF p, x
<1>4. (s \o t)[p - at] = x
  <2>1. CASE p <= at + Len(s) BY <1>1, <1>2, <1>3, <2>1
  <2>2. CASE p > at + Len(s)
    <3>1. Len(s \o t) = Len(s) + Len(t) /\ Len(s) \in Nat /\ Len(t) \in Nat OBVIOUS
    <3>2. t[p - (at + Len(s))] = x BY <1>1, <1>2, <1>3, <2>2, <3>1
    <3>3. (s \o t)[p - at] = t[p - at - Len(s)] BY <1>1, <1>3, <2>2, <3>1
    <3>4. p - at - Len(s) = p - (at + Len(s)) BY <1>1, <3>1
    <3> QED BY <3>2, <3>3, <3>4, Zenon
  <2>3. p <= at + Len(s) \/ p > at + Len(s) BY <1>1
  <2> QED BY <2>1, <2>2, <2>3
<1> QED BY <1>4, Zenon DEF p, x

LEMMA LiesPart ==
  ASSUME NEW W, NEW E, Laid(W, E), NEW S, NEW s \in Seq(S), NEW at \in Int,
         NEW a \in 0 .. Len(s), NEW b \in 0 .. Len(s), LiesAt(W, E, s, at)
  PROVE  LiesAt(W, E, SubSeq(s, a + 1, b), at + a)
<1> DEFINE u == SubSeq(s, a + 1, b)
<1> SUFFICES ASSUME NEW k \in DOMAIN W, NEW j \in 1 .. Width(W, k),
                    at + a < Place(W, E, k) + j, Place(W, E, k) + j <= at + a + Len(u)
             PROVE  u[(Place(W, E, k) + j) - (at + a)] = extract_data(W[k])[j]
  BY Zenon DEF LiesAt
<1> DEFINE p == Place(W, E, k) + j
           x == extract_data(W[k])[j]
<1>1. p \in Int BY PlaceIs
<1>2. at < p /\ p <= at + Len(s) => s[p - at] = x BY Zenon DEF LiesAt
<1>3. at + a < p /\ p <= at + a + Len(u) OBVIOUS
<1>4. /\ Len(u) = IF a + 1 <= b THEN b - a ELSE 0
      /\ \A i \in 1 .. b - a : u[i] = s[a + i]
  <2>1. \A i \in a + 1 .. b : s[i] \in S OBVIOUS
  <2>2. a + 1 \in Int /\ b \in Int OBVIOUS
  <2>3. /\ Len(u) = IF a + 1 <= b THEN b - (a + 1) + 1 ELSE 0
        /\ \A i \in 1 .. b - (a + 1) + 1 : u[i] = s[(a + 1) + i - 1]
    BY <2>1, <2>2, SubSeqProperties
  <2> HIDE DEF u
  <2> QED BY <2>2, <2>3
<1> HIDE DEF p, x, u
<1>5. u[p - (at + a)] = x
  <2>1. a < b /\ Len(u) = b - a BY <1>1, <1>3, <1>4
  <2>2. p - (at + a) \in 1 .. b - a /\ a + (p - (at + a)) = p - at BY <1>1, <1>3, <2>1
  <2>3. u[p - (at + a)] = s[p - at] BY <1>4, <2>2
  <2>4. at < p /\ p <= at + Len(s) BY <1>1, <1>3, <2>1
  <2> QED BY <1>2, <2>3, <2>4, Zenon
<1> QED BY <1>5, Zenon DEF p, x

LEMMA FrameBytes ==
  ASSUME NEW body \in Bodies
  PROVE  /\ body \in Seq(Bytes) /\ Len(body) \in Nat /\ Len(body) > 0
         /\ htonl(Len(body)) \in Seq(Bytes) /\ Len(htonl(Len(body))) = LengthSize
         /\ extract_data(body) \in Seq(Bytes) /\ Len(extract_data(body)) = LengthSize + Len(body)
         /\ \A j \in 1 .. LengthSize : extract_data(body)[j] = htonl(Len(body))[j]
         /\ \A j \in 1 .. Len(body) : extract_data(body)[LengthSize + j] = body[j]
<1>1. body \in Seq(0 .. Base - 1) /\ LengthSize \in Nat /\ LengthSize > 0 BY SocketsAssumption
<1>2. Len(body) \in Nat /\ Len(body) > 0
  <2>1. Len(body) \in 1 .. Base^LengthSize - 1 BY SocketsAssumption
  <2> QED BY <1>1, <2>1
<1>3. body \in Seq(Bytes)
  <2>1. 0 .. Base - 1 \subseteq Bytes BY DEF Bytes
  <2> QED BY <1>1, <2>1, SeqMonotonic, Zenon
<1> DEFINE h == htonl(Len(body))
<1>4. h \in Seq(Bytes) /\ Len(h) = LengthSize
  <2>1. h = [k \in 1 .. LengthSize |-> h[k]] BY DEF htonl
  <2>2. \A k \in 1 .. LengthSize : h[k] \in Bytes BY <1>2 DEF Bytes
  <2> HIDE DEF h
  <2>3. h \in [1 .. LengthSize -> Bytes] BY <2>1, <2>2
  <2> QED BY <1>1, <2>3
<1>5. extract_data(body) = h \o body BY DEF extract_data
<1> HIDE DEF h
<1>6. /\ h \o body \in Seq(Bytes) /\ Len(h \o body) = LengthSize + Len(body)
      /\ \A j \in 1 .. LengthSize : (h \o body)[j] = h[j]
      /\ \A j \in 1 .. Len(body) : (h \o body)[LengthSize + j] = body[j]
  BY <1>1, <1>2, <1>3, <1>4
<1> QED BY <1>2, <1>3, <1>4, <1>5, <1>6, Zenon DEF h

\* V and F are W and E with one more frame, at the end of the stream.
OneMore(W, E, V, F, body) ==
  /\ Laid(V, F) /\ LastEnd(F) = LastEnd(E) + Len(extract_data(body))
  /\ V[Len(W) + 1] = body /\ Place(V, F, Len(W) + 1) = LastEnd(E)
  /\ \A k \in DOMAIN W : /\ k \in DOMAIN V /\ V[k] = W[k] /\ F[k] = E[k]
                         /\ Place(V, F, k) = Place(W, E, k)

LEMMA LaidAppend ==
  ASSUME NEW W, NEW E, Laid(W, E), NEW body \in Bodies,
         NEW n, n = LastEnd(E) + Len(extract_data(body))
  PROVE  OneMore(W, E, Append(W, body), Append(E, n), body)
<1> DEFINE V == Append(W, body)
           F == Append(E, n)
<1>1. /\ W \in Seq(Bodies) /\ E \in Seq(Nat) /\ Len(E) = Len(W) /\ DOMAIN W = 1 .. Len(W)
      /\ Len(W) \in Nat
  BY DEF Laid
<1>2. LastEnd(E) \in Nat BY LastIs
<1>3. /\ Len(body) \in Nat /\ LengthSize \in Nat /\ n = LastEnd(E) + (LengthSize + Len(body))
  BY FrameBytes, SocketsAssumption
<1>4. n \in Nat /\ LastEnd(E) <= n BY <1>2, <1>3
<1>5. /\ V \in Seq(Bodies) /\ Len(V) = Len(W) + 1 /\ DOMAIN V = 1 .. Len(W) + 1
      /\ V[Len(W) + 1] = body /\ \A k \in 1 .. Len(W) : V[k] = W[k]
  BY <1>1
<1>6. /\ F \in Seq(Nat) /\ Len(F) = Len(W) + 1 /\ F # <<>>
      /\ F[Len(W) + 1] = n /\ \A k \in 1 .. Len(W) : F[k] = E[k]
  BY <1>1, <1>4
<1>7. LastEnd(F) = n BY <1>6 DEF LastEnd
<1> HIDE DEF V, F
<1>8. Place(V, F, Len(W) + 1) = LastEnd(E)
  <2>1. Place(V, F, Len(W) + 1) = n - Len(body) - LengthSize BY <1>5, <1>6, Zenon DEF Place
  <2> QED BY <1>2, <1>3, <2>1
<1>9. ASSUME NEW k \in 1 .. Len(W)
      PROVE  k \in DOMAIN V /\ V[k] = W[k] /\ F[k] = E[k] /\ Place(V, F, k) = Place(W, E, k)
  BY <1>1, <1>5, <1>6 DEF Place
<1>10. ASSUME NEW k \in 1 .. Len(W) + 1
       PROVE  F[k] <= n /\ Place(V, F, k) = IF k = 1 THEN 0 ELSE F[k - 1]
  <2>1. CASE k \in 1 .. Len(W)
    <3>1. E[k] <= LastEnd(E) /\ E[k] \in Nat /\ Place(W, E, k) = IF k = 1 THEN 0 ELSE E[k - 1]
      BY <1>1, <2>1, PlaceIs DEF Laid
    <3>2. k # 1 => k - 1 \in 1 .. Len(W) BY <1>1, <2>1
    <3>3. k # 1 => F[k - 1] = E[k - 1] BY <1>6, <3>2, Zenon
    <3>4. F[k] <= n BY <1>2, <1>4, <1>9, <2>1, <3>1
    <3> QED BY <1>9, <2>1, <3>1, <3>3, <3>4, Zenon
  <2>2. CASE k = Len(W) + 1
    <3>1. F[k] = n /\ n <= n BY <1>4, <1>6, <2>2
    <3>2. CASE Len(W) = 0
      <4>1. E = <<>> BY <1>1, <3>2
      <4> QED BY <1>8, <2>2, <3>1, <3>2, <4>1 DEF LastEnd
    <3>3. CASE Len(W) # 0
      <4>1. E # <<>> /\ Len(W) \in 1 .. Len(W) /\ k - 1 = Len(W) /\ k # 1 BY <1>1, <2>2, <3>3
      <4>2. F[k - 1] = LastEnd(E) BY <1>1, <1>6, <4>1, Zenon DEF LastEnd
      <4> QED BY <1>8, <2>2, <3>1, <4>1, <4>2, Zenon
    <3> QED BY <3>2, <3>3
  <2> QED BY <1>1, <2>1, <2>2
<1>11. Laid(V, F) BY <1>5, <1>6, <1>7, <1>10, Zenon DEF Laid
<1>12. OneMore(W, E, V, F, body) BY <1>1, <1>5, <1>7, <1>8, <1>9, <1>11, Zenon DEF OneMore
<1> QED BY <1>12, Zenon DEF V, F

LEMMA LiesStill ==
  ASSUME NEW W, NEW E, Laid(W, E), NEW body \in Bodies,
         NEW n, n = LastEnd(E) + Len(extract_data(body)),
         NEW S, NEW s \in Seq(S), NEW at \in Int, at + Len(s) <= LastEnd(E), LiesAt(W, E, s, at)
  PROVE  LiesAt(Append(W, body), Append(E, n), s, at)
<1> DEFINE V == Append(W, body)
           F == Append(E, n)
<1> SUFFICES ASSUME NEW k \in DOMAIN V, NEW j \in 1 .. Width(V, k),
                    at < Place(V, F, k) + j, Place(V, F, k) + j <= at + Len(s)
             PROVE  s[(Place(V, F, k) + j) - at] = extract_data(V[k])[j]
  BY Zenon DEF LiesAt
<1>0. OneMore(W, E, V, F, body) BY LaidAppend
<1>1. /\ Laid(V, F)
      /\ V[Len(W) + 1] = body /\ Place(V, F, Len(W) + 1) = LastEnd(E)
      /\ \A i \in DOMAIN W : V[i] = W[i] /\ Place(V, F, i) = Place(W, E, i)
  <2> HIDE DEF V, F
  <2> QED BY <1>0, Zenon DEF OneMore
<1>2. k \in DOMAIN W \/ k = Len(W) + 1
  <2>1. W \in Seq(Bodies) BY DEF Laid
  <2> QED BY <2>1
<1> HIDE DEF V, F
<1>3. CASE k = Len(W) + 1
  <2>1. LastEnd(E) \in Nat BY LastIs
  <2>2. Width(V, k) \in Nat BY <1>1, PlaceIs, Zenon
  <2> QED BY <1>1, <1>3, <2>1, <2>2
<1>4. CASE k \in DOMAIN W
  <2>1. Width(V, k) = Width(W, k) BY <1>1, <1>4, Zenon DEF Width
  <2>2. j \in 1 .. Width(W, k) BY <2>1, Zenon
  <2> QED BY <1>1, <1>4, <2>2, Zenon DEF LiesAt
<1> QED BY <1>2, <1>3, <1>4

LEMMA LiesNew ==
  ASSUME NEW W, NEW E, Laid(W, E), NEW body \in Bodies,
         NEW n, n = LastEnd(E) + Len(extract_data(body))
  PROVE  LiesAt(Append(W, body), Append(E, n), extract_data(body), LastEnd(E))
<1> DEFINE V == Append(W, body)
           F == Append(E, n)
           s == extract_data(body)
<1> SUFFICES ASSUME NEW k \in DOMAIN V, NEW j \in 1 .. Width(V, k),
                    LastEnd(E) < Place(V, F, k) + j, Place(V, F, k) + j <= LastEnd(E) + Len(s)
             PROVE  s[(Place(V, F, k) + j) - LastEnd(E)] = extract_data(V[k])[j]
  BY Zenon DEF LiesAt
<1>0. OneMore(W, E, V, F, body) BY LaidAppend
<1>1. /\ Laid(V, F)
      /\ V[Len(W) + 1] = body /\ Place(V, F, Len(W) + 1) = LastEnd(E)
      /\ \A i \in DOMAIN W : V[i] = W[i] /\ Place(V, F, i) = Place(W, E, i)
  <2> HIDE DEF V, F
  <2> QED BY <1>0, Zenon DEF OneMore
<1>2. k \in DOMAIN W \/ k = Len(W) + 1
  <2>1. W \in Seq(Bodies) BY DEF Laid
  <2> QED BY <2>1
<1>3. LastEnd(E) \in Nat /\ Width(V, k) \in Nat BY <1>1, LastIs, PlaceIs, Zenon
<1> HIDE DEF V, F, s
<1>4. CASE k = Len(W) + 1
  <2>1. (Place(V, F, k) + j) - LastEnd(E) = j BY <1>1, <1>3, <1>4
  <2> QED BY <1>1, <1>4, <2>1, Zenon DEF s
<1>5. CASE k \in DOMAIN W
  <2>1. Width(V, k) = Width(W, k) BY <1>1, <1>5, Zenon DEF Width
  <2>2. /\ Place(W, E, k) \in Nat /\ Width(W, k) \in Nat
        /\ Place(W, E, k) + Width(W, k) <= LastEnd(E)
    BY <1>5, PlaceIs
  <2>3. Place(V, F, k) = Place(W, E, k) BY <1>1, <1>5, Zenon
  <2>4. FALSE BY <1>3, <2>1, <2>2, <2>3
  <2> QED BY <2>4
<1> QED BY <1>2, <1>4, <1>5

-----------------------------------------------------------------------------
(* The invariant of the stream *)

Start(E, n) == IF n = 1 THEN 0 ELSE E[n - 1]

\* The bytes that arrived end at the place mv of the stream, those in the kernel follow,
\* and those the writer still has follow them, unless it is gone.
Flow(W, E, arr, ker, msg, index, mv, gone) ==
  /\ arr \in Seq(Bytes) /\ mv \in Nat /\ mv + Len(ker) <= LastEnd(E)
  /\ LiesAt(W, E, arr, mv - Len(arr))
  /\ LiesAt(W, E, ker, mv)
  /\ ~gone => /\ (mv + Len(ker)) - index + Len(msg) = LastEnd(E)
              /\ LiesAt(W, E, msg, (mv + Len(ker)) - index)

Headers(W, E) == {E[k] - Len(W[k]) - j : k \in DOMAIN W, j \in 0 .. LengthSize - 1}

\* The reader has read up to the place at, and is at the n-th body.
Reading(W, E, n, left, buffer, at) ==
  IF left = 0 THEN buffer = <<>> /\ at = Start(E, n)
  ELSE /\ left \in Nat /\ n <= Len(W) /\ buffer \in Seq(Bytes)
       /\ Len(buffer) + left = Len(W[n])
       /\ at = Start(E, n) + LengthSize + Len(buffer)
       /\ \A j \in 1 .. Len(buffer) : buffer[j] = W[n][j]

InOrder(W, D) ==
  /\ D \in Seq(Bodies) /\ Len(D) <= Len(W)
  /\ \A k \in 1 .. Len(D) : D[k] = W[k]

Connected ==
  /\ Flow(written, ends, arrived, kernel, m_message, m_index, moved, SenderGone)
  /\ moved \notin Headers(written, ends) \/ (SenderGone /\ kernel = <<>>)
  /\ Reading(written, ends, Len(delivered) + 1, m_message_left, m_buffer, moved - Len(arrived))

FInv ==
  /\ Laid(written, ends)
  /\ keeps_headers => reader # "down" /\ InOrder(written, delivered)
  /\ keeps_headers /\ ~SocketGone => Connected

LEMMA FInitially == SInit => FInv
<1> SUFFICES ASSUME SInit PROVE FInv OBVIOUS
<1>1. /\ written = <<>> /\ ends = <<>> /\ delivered = <<>> /\ arrived = <<>> /\ kernel = <<>>
      /\ m_message = <<>> /\ m_index = 0 /\ moved = 0 /\ m_message_left = 0 /\ m_buffer = <<>>
      /\ reader = "open"
  BY Zenon DEF SInit
<1>2. Laid(<<>>, <<>>) BY DEF Laid
<1>3. InOrder(<<>>, <<>>) BY DEF InOrder
<1>4. Flow(<<>>, <<>>, <<>>, <<>>, <<>>, 0, 0, SenderGone)
  <2>1. LiesAt(<<>>, <<>>, <<>>, 0) BY <1>2, LiesNowhere
  <2>2. Len(<<>>) = 0 /\ 0 - 0 = 0 /\ 0 + 0 = 0 /\ LastEnd(<<>>) = 0 /\ <<>> \in Seq(Bytes)
    BY DEF LastEnd
  <2> QED BY <2>1, <2>2 DEF Flow
<1>5. Headers(<<>>, <<>>) = {} BY DEF Headers
<1>6. Reading(<<>>, <<>>, Len(<<>>) + 1, 0, <<>>, 0 - Len(<<>>))
  <2>1. Len(<<>>) = 0 /\ 0 + 1 = 1 /\ 0 - 0 = 0 OBVIOUS
  <2>2. Reading(<<>>, <<>>, 1, 0, <<>>, 0) BY Zenon DEF Reading, Start
  <2> QED BY <2>1, <2>2, Zenon
<1>7. Connected BY <1>1, <1>4, <1>5, <1>6, Zenon DEF Connected
<1>8. reader # "down" BY <1>1
<1> QED BY <1>1, <1>2, <1>3, <1>7, <1>8, Zenon DEF FInv

\* What an attempt to write does while the other end is there.
LEMMA WriteSends ==
  ASSUME Shape, NEW message \in Seq(Bytes), NEW index \in Nat, index <= Len(message),
         try_write_all(message, index), ~SocketGone
  PROVE  \E sent \in 0 .. Len(message) - index :
           /\ kernel' = kernel \o SubSeq(message, index + 1, index + sent)
           /\ IF sent = Len(message) - index THEN m_message' = <<>> /\ m_index' = 0
              ELSE m_message' = message /\ m_index' = index + sent
<1> DEFINE left == Len(message) - index
           space == Window - Len(kernel)
<1>1. left \in Nat /\ space \in Nat BY SocketsAssumption DEF Shape
<1>2. PICK sent \in IF space = 0 \/ left = 0 THEN {0} ELSE 1 .. Min({space, left}) :
        /\ kernel' = kernel \o SubSeq(message, index + 1, index + sent)
        /\ m_message' = IF sent = left THEN <<>> ELSE message
        /\ m_index' = IF sent = left THEN 0 ELSE index + sent
  BY DEF try_write_all
<1> HIDE DEF left, space
<1>3. sent \in 0 .. left
  <2>1. Min({space, left}) \in Nat /\ Min({space, left}) <= left BY <1>1, MinOfTwo
  <2>2. CASE space = 0 \/ left = 0 BY <1>1, <1>2, <2>2
  <2>3. CASE ~(space = 0 \/ left = 0) BY <1>1, <1>2, <2>1, <2>3
  <2> QED BY <2>2, <2>3
<1> QED BY <1>2, <1>3, Zenon DEF left

LEMMA WriteFlows ==
  ASSUME Shape, NEW W, NEW E, Laid(W, E), NEW message \in Seq(Bytes), NEW index \in Nat,
         index <= Len(message), try_write_all(message, index), ~SocketGone,
         NEW arr, NEW mv, Flow(W, E, arr, kernel, message, index, mv, FALSE), NEW gone \in BOOLEAN
  PROVE  Flow(W, E, arr, kernel', m_message', m_index', mv, gone)
<1>1. PICK sent \in 0 .. Len(message) - index :
           /\ kernel' = kernel \o SubSeq(message, index + 1, index + sent)
           /\ IF sent = Len(message) - index THEN m_message' = <<>> /\ m_index' = 0
              ELSE m_message' = message /\ m_index' = index + sent
  BY WriteSends
<1> DEFINE piece == SubSeq(message, index + 1, index + sent)
           at == (mv + Len(kernel)) - index
<1>2. /\ arr \in Seq(Bytes) /\ mv \in Nat /\ mv + Len(kernel) <= LastEnd(E)
      /\ LiesAt(W, E, arr, mv - Len(arr)) /\ LiesAt(W, E, kernel, mv)
      /\ at + Len(message) = LastEnd(E) /\ LiesAt(W, E, message, at)
  BY Zenon DEF Flow
<1>3. kernel \in Seq(Bytes) /\ Len(kernel) \in Nat /\ LastEnd(E) \in Nat BY LastIs DEF Shape
<1>4. piece \in Seq(Bytes) /\ Len(piece) = sent
  <2>1. index + 1 \in 1 .. Len(message) + 1 /\ index + sent \in index .. Len(message) OBVIOUS
  <2> QED BY <2>1
<1>5. kernel' \in Seq(Bytes) /\ Len(kernel') = Len(kernel) + sent
  <2> HIDE DEF piece
  <2>1. kernel' = kernel \o piece BY <1>1 DEF piece
  <2>2. kernel \o piece \in Seq(Bytes) /\ Len(kernel \o piece) = Len(kernel) + Len(piece)
    BY <1>3, <1>4, ConcatProperties, Zenon
  <2> QED BY <1>4, <2>1, <2>2, Zenon
<1>6. at \in Int /\ at + index = mv + Len(kernel) /\ index + sent \in 0 .. Len(message) /\ index \in 0 .. Len(message)
  BY <1>2, <1>3
<1>7. LiesAt(W, E, piece, at + index) BY <1>2, <1>6, LiesPart
<1>8. LiesAt(W, E, kernel', mv)
  <2>1. kernel' = kernel \o piece BY <1>1
  <2>2. LiesAt(W, E, piece, mv + Len(kernel)) BY <1>6, <1>7, Zenon
  <2> HIDE DEF piece
  <2>3. mv \in Int BY <1>2
  <2>4. LiesAt(W, E, kernel \o piece, mv) BY <1>2, <1>3, <1>4, <2>2, <2>3, LiesConcat
  <2> QED BY <2>1, <2>4, Zenon
<1> HIDE DEF piece
<1>9. mv + Len(kernel') <= LastEnd(E)
  BY <1>2, <1>3, <1>5, <1>6
<1>10. (mv + Len(kernel')) - m_index' + Len(m_message') = LastEnd(E) /\ LiesAt(W, E, m_message', (mv + Len(kernel')) - m_index')
  <2>1. CASE sent = Len(message) - index
    <3>1. m_message' = <<>> /\ m_index' = 0 BY <1>1, <2>1, Zenon
    <3>2. (mv + Len(kernel')) - 0 + Len(<<>>) = LastEnd(E) /\ (mv + Len(kernel')) - 0 \in Int
      BY <1>2, <1>3, <1>5, <1>6, <2>1
    <3>3. LiesAt(W, E, <<>>, (mv + Len(kernel')) - 0) BY <3>2, LiesNowhere
    <3> QED BY <3>1, <3>2, <3>3, Zenon
  <2>2. CASE sent # Len(message) - index
    <3>1. m_message' = message /\ m_index' = index + sent BY <1>1, <2>2, Zenon
    <3>2. (mv + Len(kernel')) - (index + sent) = at BY <1>2, <1>3, <1>5, <1>6
    <3> HIDE DEF at
    <3> QED BY <1>2, <3>1, <3>2, Zenon
  <2> QED BY <2>1, <2>2
<1> QED BY <1>2, <1>8, <1>9, <1>10, Zenon DEF Flow

LEMMA OrderStays ==
  ASSUME NEW W, NEW D, NEW body \in Bodies, W \in Seq(Bodies), InOrder(W, D)
  PROVE  InOrder(Append(W, body), D)
BY DEF InOrder

LEMMA ReadingStays ==
  ASSUME NEW W, NEW E, Laid(W, E), NEW body \in Bodies,
         NEW n, n = LastEnd(E) + Len(extract_data(body)),
         NEW D, InOrder(W, D), NEW left, NEW buffer, NEW at,
         Reading(W, E, Len(D) + 1, left, buffer, at)
  PROVE  Reading(Append(W, body), Append(E, n), Len(D) + 1, left, buffer, at)
<1> DEFINE V == Append(W, body)
           F == Append(E, n)
           m == Len(D) + 1
<1>1. /\ W \in Seq(Bodies) /\ E \in Seq(Nat) /\ Len(E) = Len(W) /\ Len(W) \in Nat
      /\ D \in Seq(Bodies) /\ Len(D) <= Len(W) /\ Len(D) \in Nat
  BY DEF Laid, InOrder
<1>2. m = 1 \/ (m # 1 /\ m - 1 \in 1 .. Len(W)) BY <1>1
<1>3. /\ Len(V) = Len(W) + 1 /\ \A k \in 1 .. Len(W) : V[k] = W[k]
      /\ \A k \in 1 .. Len(W) : F[k] = E[k]
  BY <1>1
<1>4. m <= Len(W) => m \in 1 .. Len(W) /\ m <= Len(V) BY <1>1, <1>3
<1> HIDE DEF V, F, m
<1>5. Start(F, m) = Start(E, m) BY <1>2, <1>3, Zenon DEF Start
<1>6. m <= Len(W) => V[m] = W[m] /\ m <= Len(V) BY <1>3, <1>4, Zenon
<1>7. Reading(W, E, m, left, buffer, at) BY Zenon DEF m
<1>8. Reading(V, F, m, left, buffer, at)
  <2>1. CASE left = 0 BY <1>5, <1>7, <2>1, Zenon DEF Reading
  <2>2. CASE left # 0 BY <1>5, <1>6, <1>7, <2>2, Zenon DEF Reading
  <2> QED BY <2>1, <2>2
<1> QED BY <1>8, Zenon DEF V, F, m

LEMMA NoHeader ==
  ASSUME NEW W, NEW E, NEW mv,
         \A k \in DOMAIN W : \A j \in 0 .. LengthSize - 1 : mv # E[k] - Len(W[k]) - j
  PROVE  mv \notin Headers(W, E)
BY DEF Headers

LEMMA HeadersAhead ==
  ASSUME NEW W, NEW E, Laid(W, E), NEW body \in Bodies,
         NEW n, n = LastEnd(E) + Len(extract_data(body)),
         NEW mv \in Nat, mv <= LastEnd(E), mv \notin Headers(W, E)
  PROVE  mv \notin Headers(Append(W, body), Append(E, n))
<1> DEFINE V == Append(W, body)
           F == Append(E, n)
<1> SUFFICES ASSUME NEW k \in DOMAIN V, NEW j \in 0 .. LengthSize - 1, mv = F[k] - Len(V[k]) - j
             PROVE  FALSE
  BY NoHeader, Zenon
<1>0. OneMore(W, E, V, F, body) BY LaidAppend
<1>1. /\ Laid(V, F)
      /\ V[Len(W) + 1] = body /\ Place(V, F, Len(W) + 1) = LastEnd(E)
      /\ \A i \in DOMAIN W : V[i] = W[i] /\ F[i] = E[i]
  <2> HIDE DEF V, F
  <2> QED BY <1>0, Zenon DEF OneMore
<1>2. k \in DOMAIN W \/ k = Len(W) + 1
  <2>1. W \in Seq(Bodies) BY DEF Laid
  <2> QED BY <2>1
<1> HIDE DEF V, F
<1>3. CASE k = Len(W) + 1
  <2>1. LastEnd(E) \in Nat BY LastIs
  <2>2. F[k] \in Nat /\ Len(V[k]) \in Nat /\ LengthSize \in Nat BY <1>1, PlaceIs
  <2>3. F[k] - Len(V[k]) - LengthSize = LastEnd(E) BY <1>1, <1>3, Zenon DEF Place
  <2> QED BY <2>1, <2>2, <2>3
<1>4. CASE k \in DOMAIN W
  <2>1. mv = E[k] - Len(W[k]) - j BY <1>1, <1>4, Zenon
  <2> QED BY <1>4, <2>1 DEF Headers
<1> QED BY <1>2, <1>3, <1>4

LEMMA SendFlows ==
  ASSUME IInv, FInv, NEW body \in Bodies, SendMessage(body), keeps_headers' = keeps_headers
  PROVE  FInv'
<1> DEFINE n == LastEnd(ends) + Len(extract_data(body))
           W == Append(written, body)
           E == Append(ends, n)
           message == m_message \o extract_data(body)
<1>1. /\ written' = W /\ ends' = E /\ ~SenderGone
      /\ try_write_all(message, m_index)
      /\ arrived' = arrived /\ moved' = moved /\ m_buffer' = m_buffer
      /\ m_message_left' = m_message_left /\ delivered' = delivered /\ reader' = reader
  BY DEF SendMessage, write, LastEnd, StreamEnd
<1>2. Laid(written, ends) BY DEF FInv
<1>3. Laid(W, E) /\ LastEnd(E) = n
  <2>1. OneMore(written, ends, W, E, body) BY <1>2, LaidAppend
  <2> HIDE DEF W, E
  <2> QED BY <2>1, Zenon DEF OneMore
<1>4. ASSUME keeps_headers PROVE reader # "down" /\ InOrder(W, delivered)
  <2>1. reader # "down" /\ InOrder(written, delivered) BY <1>4, Zenon DEF FInv
  <2> QED BY <1>2, <2>1, OrderStays DEF Laid
<1>5. ASSUME keeps_headers, ~SocketGone PROVE Connected'
  <2>1. /\ Flow(written, ends, arrived, kernel, m_message, m_index, moved, SenderGone)
        /\ moved \notin Headers(written, ends)
        /\ Reading(written, ends, Len(delivered) + 1, m_message_left, m_buffer, moved - Len(arrived))
        /\ InOrder(written, delivered)
    BY <1>1, <1>5, Zenon DEF FInv, Connected
  <2>2. /\ m_message \in Seq(Bytes) /\ m_index \in Nat /\ m_index <= Len(m_message)
        /\ Len(m_message) \in Nat /\ kernel \in Seq(Bytes) /\ Len(kernel) \in Nat
    BY DEF IInv, Shape, PendingIsWatched
  <2>3. /\ arrived \in Seq(Bytes) /\ moved \in Nat /\ moved + Len(kernel) <= LastEnd(ends)
        /\ LiesAt(written, ends, arrived, moved - Len(arrived))
        /\ LiesAt(written, ends, kernel, moved)
        /\ (moved + Len(kernel)) - m_index + Len(m_message) = LastEnd(ends)
        /\ LiesAt(written, ends, m_message, (moved + Len(kernel)) - m_index)
    BY <1>1, <2>1, Zenon DEF Flow
  <2>4. /\ extract_data(body) \in Seq(Bytes) /\ Len(extract_data(body)) \in Nat /\ Len(arrived) \in Nat
    BY <2>3, FrameBytes
  <2>5. message \in Seq(Bytes) /\ Len(message) = Len(m_message) + Len(extract_data(body))
    BY <2>2, <2>4, ConcatProperties, Zenon
  <2>6. LastEnd(ends) \in Nat BY <1>2, LastIs
  <2> DEFINE at == (moved + Len(kernel)) - m_index
  <2>7. at \in Int /\ at + Len(m_message) = LastEnd(ends) /\ at + Len(m_message) <= LastEnd(ends)
    BY <2>2, <2>3, <2>6
  <2>8. LiesAt(W, E, message, at)
    <3>1. LiesAt(W, E, m_message, at) BY <1>2, <2>2, <2>3, <2>7, LiesStill
    <3>2. LiesAt(W, E, extract_data(body), at + Len(m_message)) BY <1>2, <2>7, LiesNew
    <3> HIDE DEF at, W, E
    <3> QED BY <1>3, <2>2, <2>4, <2>7, <3>1, <3>2, LiesConcat
  <2>9. LiesAt(W, E, kernel, moved)
    <3>1. moved \in Int BY <2>3
    <3> QED BY <1>2, <2>2, <2>3, <3>1, LiesStill
  <2>10. LiesAt(W, E, arrived, moved - Len(arrived))
    <3>1. moved - Len(arrived) \in Int /\ (moved - Len(arrived)) + Len(arrived) <= LastEnd(ends)
      BY <2>2, <2>3, <2>4, <2>6
    <3> QED BY <1>2, <2>3, <3>1, LiesStill
  <2>11. Flow(W, E, arrived, kernel, message, m_index, moved, FALSE)
    <3>1. moved + Len(kernel) <= n /\ (moved + Len(kernel)) - m_index + Len(message) = n
      BY <2>2, <2>3, <2>4, <2>5, <2>6
    <3> HIDE DEF W, E, n, message
    <3> QED BY <1>3, <2>3, <2>8, <2>9, <2>10, <3>1, Zenon DEF Flow, at
  <2>12. m_index <= Len(message) BY <2>2, <2>4, <2>5
  <2>13. SenderGone' \in BOOLEAN BY DEF SenderGone
  <2>14. Reading(W, E, Len(delivered) + 1, m_message_left, m_buffer, moved - Len(arrived))
    BY <1>2, <2>1, ReadingStays
  <2>15. moved \notin Headers(W, E)
    <3>1. moved <= LastEnd(ends) BY <2>2, <2>3, <2>6
    <3> QED BY <1>2, <2>1, <2>3, <3>1, HeadersAhead
  <2> HIDE DEF W, E, n, message
  <2>16. Flow(W, E, arrived, kernel', m_message', m_index', moved, SenderGone')
    BY <1>1, <1>3, <1>5, <2>2, <2>5, <2>11, <2>12, <2>13, WriteFlows DEF IInv
  <2> QED BY <1>1, <2>14, <2>15, <2>16, Zenon DEF Connected
<1> HIDE DEF W, E
<1>6. SocketGone' <=> SocketGone BY <1>1, Zenon DEF SocketGone
<1>7. Laid(W, E) BY <1>3
<1> QED BY <1>1, <1>4, <1>5, <1>6, <1>7, Zenon DEF FInv

LEMMA ReadyFlows ==
  ASSUME IInv, FInv, write_ready, keeps_headers' = keeps_headers
  PROVE  FInv'
<1>1. /\ ~SenderGone /\ try_write_all(m_message, m_index) /\ sender' = sender
      /\ arrived' = arrived /\ moved' = moved /\ m_buffer' = m_buffer
      /\ m_message_left' = m_message_left /\ delivered' = delivered /\ reader' = reader
      /\ written' = written /\ ends' = ends
  BY DEF write_ready
<1>2. Laid(written, ends) BY DEF FInv
<1>3. ASSUME keeps_headers, ~SocketGone PROVE Connected'
  <2>1. /\ Flow(written, ends, arrived, kernel, m_message, m_index, moved, SenderGone)
        /\ moved \notin Headers(written, ends)
        /\ Reading(written, ends, Len(delivered) + 1, m_message_left, m_buffer, moved - Len(arrived))
    BY <1>1, <1>3, Zenon DEF FInv, Connected
  <2>2. Flow(written, ends, arrived, kernel, m_message, m_index, moved, FALSE) BY <1>1, <2>1, Zenon DEF Flow
  <2>3. m_message \in Seq(Bytes) /\ m_index \in Nat /\ m_index <= Len(m_message)
    BY DEF IInv, Shape, PendingIsWatched
  <2>4. SenderGone' \in BOOLEAN BY DEF SenderGone
  <2>5. Flow(written, ends, arrived, kernel', m_message', m_index', moved, SenderGone')
    BY <1>1, <1>2, <1>3, <2>2, <2>3, <2>4, WriteFlows DEF IInv
  <2> QED BY <1>1, <2>1, <2>5, Zenon DEF Connected
<1>4. SocketGone' <=> SocketGone BY <1>1, Zenon DEF SocketGone
<1>5. keeps_headers => reader # "down" /\ InOrder(written, delivered) BY Zenon DEF FInv
<1> QED BY <1>1, <1>2, <1>3, <1>4, <1>5, Zenon DEF FInv

LEMMA ArriveFlows ==
  ASSUME IInv, FInv, Arrive, keeps_headers' = keeps_headers
  PROVE  FInv'
<1>1. PICK k \in 1 .. Min({Len(kernel), Window - Len(arrived)}) :
        /\ keeps_headers => moved + k \notin InHeader \/ (SenderGone /\ k = Len(kernel))
        /\ arrived' = arrived \o SubSeq(kernel, 1, k)
        /\ kernel' = SubSeq(kernel, k + 1, Len(kernel))
        /\ moved' = moved + k
        /\ UNCHANGED <<m_message, m_index, watched, m_buffer, m_message_left, written, ends, delivered,
                       sender, reader>>
  BY DEF Arrive
<1>2. Laid(written, ends) BY DEF FInv
<1>3. ASSUME keeps_headers, ~SocketGone PROVE Connected'
  <2>1. /\ Flow(written, ends, arrived, kernel, m_message, m_index, moved, SenderGone)
        /\ Reading(written, ends, Len(delivered) + 1, m_message_left, m_buffer, moved - Len(arrived))
    BY <1>3, Zenon DEF FInv, Connected
  <2>2. /\ arrived \in Seq(Bytes) /\ moved \in Nat /\ moved + Len(kernel) <= LastEnd(ends)
        /\ LiesAt(written, ends, arrived, moved - Len(arrived))
        /\ LiesAt(written, ends, kernel, moved)
        /\ ~SenderGone => /\ (moved + Len(kernel)) - m_index + Len(m_message) = LastEnd(ends)
                          /\ LiesAt(written, ends, m_message, (moved + Len(kernel)) - m_index)
    BY <2>1, Zenon DEF Flow
  <2>3. kernel \in Seq(Bytes) /\ Len(kernel) \in Nat /\ Len(arrived) \in Nat /\ LastEnd(ends) \in Nat
    BY <1>2, <2>2, LastIs DEF IInv, Shape
  <2>4. k \in 1 .. Len(kernel)
    <3> DEFINE w == Window - Len(arrived)
               m == Min({Len(kernel), w})
    <3>1. w \in Int BY <2>3, SocketsAssumption
    <3>2. m <= Len(kernel) /\ m \in Int
      <4>1. \E x \in {Len(kernel), w} : \A y \in {Len(kernel), w} : x <= y BY <2>3, <3>1
      <4>2. m \in {Len(kernel), w} /\ \A y \in {Len(kernel), w} : m <= y BY <4>1 DEF Min
      <4> QED BY <2>3, <3>1, <4>2
    <3>3. k \in 1 .. m OBVIOUS
    <3> HIDE DEF m
    <3> QED BY <2>3, <3>2, <3>3
  <2> DEFINE piece == SubSeq(kernel, 1, k)
             rest == SubSeq(kernel, k + 1, Len(kernel))
  <2>5. piece \in Seq(Bytes) /\ Len(piece) = k /\ rest \in Seq(Bytes) /\ Len(rest) = Len(kernel) - k
    BY <2>3, <2>4
  <2>6. LiesAt(written, ends, piece, moved) /\ LiesAt(written, ends, rest, moved + k)
    <3>1. /\ 0 \in 0 .. Len(kernel) /\ k \in 0 .. Len(kernel) /\ Len(kernel) \in 0 .. Len(kernel)
          /\ moved \in Int /\ 0 + 1 = 1 /\ moved + 0 = moved
      BY <2>2, <2>3, <2>4
    <3>2. LiesAt(written, ends, SubSeq(kernel, 0 + 1, k), moved + 0)
      BY <1>2, <2>2, <2>3, <3>1, LiesPart
    <3>3. LiesAt(written, ends, SubSeq(kernel, k + 1, Len(kernel)), moved + k)
      BY <1>2, <2>2, <2>3, <3>1, LiesPart
    <3> QED BY <3>1, <3>2, <3>3, Zenon
  <2> HIDE DEF piece, rest
  <2>7. arrived' = arrived \o piece /\ kernel' = rest /\ moved' = moved + k BY <1>1 DEF piece, rest
  <2>8. arrived \o piece \in Seq(Bytes) /\ Len(arrived \o piece) = Len(arrived) + Len(piece)
    BY <2>2, <2>5, ConcatProperties, Zenon
  <2>9. arrived' \in Seq(Bytes) /\ Len(arrived') = Len(arrived) + k /\ Len(kernel') = Len(kernel) - k
    BY <2>5, <2>7, <2>8, Zenon
  <2>10. /\ moved' - Len(arrived') = moved - Len(arrived) /\ moved' + Len(kernel') = moved + Len(kernel)
         /\ moved' \in Nat
    BY <2>2, <2>3, <2>4, <2>7, <2>9
  <2>11. LiesAt(written, ends, arrived', moved' - Len(arrived'))
    <3>1. moved - Len(arrived) \in Int /\ (moved - Len(arrived)) + Len(arrived) = moved BY <2>2, <2>3
    <3>2. LiesAt(written, ends, arrived \o piece, moved - Len(arrived))
      BY <1>2, <2>2, <2>5, <2>6, <3>1, LiesConcat
    <3> QED BY <2>7, <2>10, <3>2, Zenon
  <2>12. LiesAt(written, ends, kernel', moved') BY <2>6, <2>7, Zenon
  <2>13. SenderGone' <=> SenderGone BY <1>1 DEF SenderGone
  <2>14. /\ m_message' = m_message /\ m_index' = m_index /\ m_buffer' = m_buffer
         /\ m_message_left' = m_message_left /\ written' = written /\ ends' = ends /\ delivered' = delivered
    BY <1>1
  <2>15. Flow(written, ends, arrived', kernel', m_message, m_index, moved', SenderGone')
    BY <2>2, <2>9, <2>10, <2>11, <2>12, <2>13, Zenon DEF Flow
  <2>16. moved' \notin Headers(written, ends) \/ (SenderGone' /\ kernel' = <<>>)
    <3>0. InHeader = Headers(written, ends) BY DEF InHeader, Headers
    <3>1. CASE moved + k \notin InHeader BY <2>7, <3>0, <3>1, Zenon
    <3>2. CASE SenderGone /\ k = Len(kernel)
      <4>1. Len(kernel') = 0 /\ kernel' \in Seq(Bytes) BY <2>3, <2>5, <2>7, <3>2
      <4>2. kernel' = <<>> BY <4>1
      <4> QED BY <2>13, <3>2, <4>2, Zenon
    <3> QED BY <1>1, <1>3, <3>1, <3>2, Zenon
  <2> QED BY <2>1, <2>10, <2>14, <2>15, <2>16, Zenon DEF Connected
<1>4. /\ written' = written /\ ends' = ends /\ delivered' = delivered /\ reader' = reader BY <1>1
<1>5. SocketGone' <=> SocketGone BY <1>4, Zenon DEF SocketGone
<1>6. keeps_headers => reader # "down" /\ InOrder(written, delivered) BY Zenon DEF FInv
<1> QED BY <1>2, <1>3, <1>4, <1>5, <1>6, Zenon DEF FInv

\* The bytes at hand of the body being read.
Midway(W, E, D, left, buffer, at) ==
  /\ Laid(W, E) /\ InOrder(W, D) /\ Len(D) + 1 <= Len(W)
  /\ left \in Nat /\ left > 0 /\ buffer \in Seq(Bytes)
  /\ Len(buffer) + left = Len(W[Len(D) + 1])
  /\ at = Start(E, Len(D) + 1) + LengthSize + Len(buffer)
  /\ \A j \in 1 .. Len(buffer) : buffer[j] = W[Len(D) + 1][j]

\* What take leaves of them.
TakenIs(W, E, D, left, buffer, bytes, at, m) ==
  /\ m \in Nat /\ m <= Len(bytes)
  /\ SubSeq(bytes, m + 1, Len(bytes)) \in Seq(Bytes)
  /\ Len(SubSeq(bytes, m + 1, Len(bytes))) = Len(bytes) - m
  /\ LiesAt(W, E, SubSeq(bytes, m + 1, Len(bytes)), at + m)
  /\ left # m => Reading(W, E, Len(D) + 1, left - m, buffer \o SubSeq(bytes, 1, m), at + m)
  /\ left = m => LET whole == Append(D, buffer \o SubSeq(bytes, 1, m)) IN
                 InOrder(W, whole) /\ Reading(W, E, Len(whole) + 1, 0, <<>>, at + m)

LEMMA StartIs ==
  ASSUME NEW W, NEW E, Laid(W, E), NEW n \in DOMAIN W
  PROVE  Start(E, n) = Place(W, E, n) /\ Start(E, n) \in Nat /\ Start(E, n + 1) = E[n]
<1>1. Start(E, n) = Place(W, E, n) BY DEF Laid, Start
<1>2. Start(E, n) \in Nat BY <1>1, PlaceIs
<1>3. n \in Nat /\ n > 0
  <2>1. W \in Seq(Bodies) BY DEF Laid
  <2> QED BY <2>1
<1>4. n + 1 # 1 /\ (n + 1) - 1 = n BY <1>3
<1>5. Start(E, n + 1) = E[n] BY <1>4, Zenon DEF Start
<1> QED BY <1>1, <1>2, <1>5

LEMMA TakeIs ==
  ASSUME NEW W, NEW E, NEW D, NEW left, NEW buffer, NEW at, Midway(W, E, D, left, buffer, at),
         NEW bytes \in Seq(Bytes), bytes # <<>>, LiesAt(W, E, bytes, at)
  PROVE  TakenIs(W, E, D, left, buffer, bytes, at, Min({left, Len(bytes)}))
<1> DEFINE n == Len(D) + 1
           m == Min({left, Len(bytes)})
           piece == SubSeq(bytes, 1, m)
           rest == SubSeq(bytes, m + 1, Len(bytes))
           whole == buffer \o piece
           body == W[n]
           P == Place(W, E, n)
           b == Len(buffer)
           c == Len(body)
<1>1. /\ Laid(W, E) /\ InOrder(W, D) /\ n <= Len(W)
      /\ left \in Nat /\ left > 0 /\ buffer \in Seq(Bytes)
      /\ Len(buffer) + left = Len(body)
      /\ at = Start(E, n) + LengthSize + Len(buffer)
      /\ \A j \in 1 .. Len(buffer) : buffer[j] = body[j]
  BY Zenon DEF Midway
<1>2. /\ D \in Seq(Bodies) /\ W \in Seq(Bodies) /\ Len(D) \in Nat /\ n \in Nat /\ n > 0
      /\ n \in DOMAIN W /\ Len(bytes) \in Nat /\ Len(bytes) > 0 /\ Len(buffer) \in Nat
  BY <1>1 DEF Laid, InOrder
<1>3. m \in Nat /\ m <= left /\ m <= Len(bytes) BY <1>1, <1>2, MinOfTwo
<1> HIDE DEF n, m
<1>4. /\ body \in Bodies /\ Len(body) \in Nat /\ LengthSize \in Nat /\ E[n] \in Nat
      /\ Place(W, E, n) \in Nat /\ Width(W, n) = LengthSize + Len(body)
      /\ Place(W, E, n) + Width(W, n) = E[n]
  BY <1>1, <1>2, PlaceIs, Zenon DEF Width
<1>5. Start(E, n) = Place(W, E, n) /\ Start(E, n + 1) = E[n] BY <1>1, <1>2, StartIs, Zenon
<1>6. /\ body \in Seq(Bytes)
      /\ \A j \in 1 .. Len(body) : extract_data(body)[LengthSize + j] = body[j]
  BY <1>4, FrameBytes, Zenon
<1>17. /\ at = P + LengthSize + b /\ b + left = c /\ Width(W, n) = LengthSize + c
       /\ P + Width(W, n) = E[n] /\ Start(E, n) = P
  BY <1>1, <1>4, <1>5, Zenon
<1>18. P \in Nat /\ b \in Nat /\ c \in Nat /\ left \in Nat BY <1>1, <1>2, <1>4, Zenon
<1> HIDE DEF body, P, b, c
<1>7. at \in Int /\ at + m \in Int /\ at = P + (LengthSize + b)
  BY <1>3, <1>4, <1>17, <1>18
<1>8. /\ piece \in Seq(Bytes) /\ Len(piece) = m /\ (\A i \in 1 .. m : piece[i] = bytes[i])
      /\ rest \in Seq(Bytes) /\ Len(rest) = Len(bytes) - m
  BY <1>2, <1>3
<1>9. LiesAt(W, E, rest, at + m)
  <2>1. m \in 0 .. Len(bytes) /\ Len(bytes) \in 0 .. Len(bytes) BY <1>2, <1>3
  <2> QED BY <1>1, <1>7, <2>1, LiesPart
<1> HIDE DEF piece, rest
<1>10. ASSUME NEW i \in 1 .. m PROVE bytes[i] = body[Len(buffer) + i]
  <2> DEFINE j == LengthSize + (b + i)
             B == Len(bytes)
  <2>0. B \in Nat /\ m <= B BY <1>2, <1>3, Zenon
  <2> HIDE DEF B
  <2>1. /\ j \in 1 .. Width(W, n) /\ b + i \in 1 .. c
        /\ at < P + j /\ P + j <= at + B /\ (P + j) - at = i
    BY <1>3, <1>4, <1>7, <1>17, <1>18, <2>0
  <2>2. extract_data(body)[j] = body[b + i] BY <1>6, <2>1, Zenon DEF c
  <2> HIDE DEF j
  <2>3. bytes[(P + j) - at] = extract_data(W[n])[j] BY <1>2, <2>1, Zenon DEF LiesAt, P, B
  <2> QED BY <2>1, <2>2, <2>3, Zenon DEF body, b
<1>11. whole \in Seq(Bytes) /\ Len(whole) = b + m
  <2>1. buffer \in Seq(Bytes) /\ piece \in Seq(Bytes) BY <1>1, <1>8
  <2>2. whole \in Seq(Bytes) /\ Len(whole) = Len(buffer) + Len(piece) BY <2>1, ConcatProperties
  <2> QED BY <1>8, <2>2, Zenon DEF b
<1>12. ASSUME NEW i \in 1 .. Len(whole) PROVE whole[i] = body[i]
  <2>1. CASE i <= b
    <3>1. i \in 1 .. Len(buffer) BY <1>18, <2>1 DEF b
    <3>2. whole[i] = buffer[i] BY <1>1, <1>8, <3>1
    <3> QED BY <1>1, <3>1, <3>2, Zenon DEF body
  <2>2. CASE i > b
    <3>1. i - b \in 1 .. m /\ b + (i - b) = i /\ i \in Int /\ i <= b + m
      BY <1>3, <1>11, <1>18, <2>2
    <3>2. i <= Len(buffer) + Len(piece) /\ i > Len(buffer) BY <1>8, <2>2, <3>1, Zenon DEF b
    <3>3. whole[i] = piece[i - Len(buffer)]
      <4>1. buffer \in Seq(Bytes) /\ piece \in Seq(Bytes) BY <1>1, <1>8, Zenon
      <4> QED BY <3>1, <3>2, <4>1
    <3>4. piece[i - b] = bytes[i - b] BY <1>8, <3>1, Zenon
    <3>5. bytes[i - b] = body[b + (i - b)] BY <1>10, <3>1, Zenon DEF b
    <3> QED BY <3>1, <3>3, <3>4, <3>5, Zenon DEF b
  <2>3. i <= b \/ i > b BY <1>18
  <2> QED BY <2>1, <2>2, <2>3
<1> HIDE DEF whole
<1>13. ASSUME left # m PROVE Reading(W, E, n, left - m, whole, at + m)
  <2> DEFINE w == Len(whole)
  <2>0. w = b + m BY <1>11, Zenon
  <2> HIDE DEF w
  <2>1. left - m # 0 /\ left - m \in Nat /\ w + (left - m) = c BY <1>3, <1>17, <1>18, <1>13, <2>0
  <2>2. at + m = Start(E, n) + LengthSize + w BY <1>3, <1>4, <1>17, <1>18, <2>0
  <2> QED BY <1>1, <1>11, <1>12, <2>1, <2>2, Zenon DEF Reading, body, w, c
<1>14. ASSUME left = m
       PROVE  InOrder(W, Append(D, whole)) /\ Reading(W, E, Len(Append(D, whole)) + 1, 0, <<>>, at + m)
  <2>1. Len(whole) = Len(body) BY <1>11, <1>14, <1>17, Zenon DEF c
  <2>2. whole = body BY <1>6, <1>11, <1>12, <2>1, SeqEqual
  <2>3. /\ Append(D, body) \in Seq(Bodies) /\ Len(Append(D, body)) = n
        /\ \A i \in 1 .. Len(D) : Append(D, body)[i] = D[i]
        /\ Append(D, body)[n] = body
    BY <1>2, <1>4 DEF n
  <2> DEFINE A == Append(D, body)
  <2> HIDE DEF A
  <2>4. ASSUME NEW i \in 1 .. Len(A) PROVE A[i] = W[i]
    <3>1. i \in 1 .. Len(D) \/ i = n BY <1>2, <2>3 DEF A, n
    <3>2. \A k \in 1 .. Len(D) : D[k] = W[k] BY <1>1, Zenon DEF InOrder
    <3>3. CASE i \in 1 .. Len(D) BY <2>3, <3>2, <3>3, Zenon DEF A
    <3>4. CASE i = n BY <2>3, <3>4, Zenon DEF A, body
    <3> QED BY <3>1, <3>3, <3>4
  <2>5. InOrder(W, A) BY <1>1, <2>3, <2>4, Zenon DEF InOrder, A
  <2>6. at + m = E[n]
    <3>1. at + m = P + (LengthSize + c) BY <1>3, <1>4, <1>14, <1>17, <1>18
    <3> QED BY <1>17, <3>1, Zenon
  <2>7. at + m = Start(E, Len(A) + 1) BY <1>5, <2>3, <2>6, Zenon DEF A
  <2>8. Reading(W, E, Len(A) + 1, 0, <<>>, at + m) BY <2>7, Zenon DEF Reading
  <2> QED BY <2>2, <2>5, <2>8, Zenon DEF A
<1>15. /\ m \in Nat /\ m <= Len(bytes) /\ rest \in Seq(Bytes) /\ Len(rest) = Len(bytes) - m
       /\ LiesAt(W, E, rest, at + m)
       /\ (left # m => Reading(W, E, n, left - m, whole, at + m))
       /\ (left = m => InOrder(W, Append(D, whole))
                       /\ Reading(W, E, Len(Append(D, whole)) + 1, 0, <<>>, at + m))
  BY <1>3, <1>8, <1>9, <1>13, <1>14, Zenon
<1>16. TakenIs(W, E, D, left, buffer, bytes, at, m)
  BY <1>15, Zenon DEF TakenIs, n, whole, piece, rest
<1> QED BY <1>16, Zenon DEF m

LEMMA TakeFlows ==
  ASSUME Connected, NEW bytes \in Seq(Bytes), bytes # <<>>, NEW left, NEW buffer,
         LiesAt(written, ends, bytes, moved - Len(bytes)),
         Midway(written, ends, delivered, left, buffer, moved - Len(bytes)),
         take(bytes, left, buffer), UNCHANGED <<writer, moved, sender>>
  PROVE  Connected' /\ InOrder(written', delivered')
<1> DEFINE at == moved - Len(bytes)
           m == Min({left, Len(bytes)})
           m_read == buffer \o SubSeq(bytes, 1, m)
           rest == SubSeq(bytes, m + 1, Len(bytes))
<1>1. /\ arrived' = rest /\ m_message_left' = left - m
      /\ m_buffer' = IF left = m THEN <<>> ELSE m_read
      /\ delivered' = IF left = m THEN Append(delivered, m_read) ELSE delivered
  BY Zenon DEF take
<1>2. TakenIs(written, ends, delivered, left, buffer, bytes, at, m) BY TakeIs
<1> HIDE DEF m
<1>3. /\ m \in Nat /\ m <= Len(bytes) /\ rest \in Seq(Bytes) /\ Len(rest) = Len(bytes) - m
      /\ LiesAt(written, ends, rest, at + m)
      /\ left # m => Reading(written, ends, Len(delivered) + 1, left - m, m_read, at + m)
      /\ left = m => /\ InOrder(written, Append(delivered, m_read))
                     /\ Reading(written, ends, Len(Append(delivered, m_read)) + 1, 0, <<>>, at + m)
  BY <1>2, Zenon DEF TakenIs
<1> HIDE DEF m_read, rest
<1>4. InOrder(written, delivered) /\ left \in Nat BY Zenon DEF Midway
<1>5. InOrder(written, delivered') BY <1>1, <1>3, <1>4, Zenon
<1>6. Reading(written, ends, Len(delivered') + 1, m_message_left', m_buffer', at + m)
  <2>1. CASE left # m BY <1>1, <1>3, <2>1, Zenon
  <2>2. CASE left = m
    <3>1. left - m = 0 BY <1>4, <2>2
    <3> QED BY <1>1, <1>3, <2>2, <3>1, Zenon
  <2> QED BY <2>1, <2>2
<1>7. Flow(written, ends, arrived, kernel, m_message, m_index, moved, SenderGone) BY Zenon DEF Connected
<1>8. moved \in Nat /\ Len(bytes) \in Nat BY <1>7 DEF Flow
<1>9. moved - Len(arrived') = at + m
  <2>1. Len(arrived') = Len(bytes) - m BY <1>1, <1>3, Zenon
  <2> QED BY <1>3, <1>8, <2>1
<1> HIDE DEF at
<1>10. /\ m_message' = m_message /\ m_index' = m_index /\ kernel' = kernel /\ written' = written
       /\ ends' = ends /\ moved' = moved /\ sender' = sender
  BY DEF writer
<1>11. SenderGone' <=> SenderGone BY <1>10 DEF SenderGone
<1>12. Flow(written, ends, arrived', kernel, m_message, m_index, moved, SenderGone')
  BY <1>1, <1>3, <1>7, <1>9, <1>11, Zenon DEF Flow
<1>13. moved \notin Headers(written, ends) \/ (SenderGone' /\ kernel = <<>>)
  BY <1>11, Zenon DEF Connected
<1>14. Reading(written, ends, Len(delivered') + 1, m_message_left', m_buffer', moved - Len(arrived'))
  BY <1>6, <1>9, Zenon
<1> QED BY <1>5, <1>10, <1>12, <1>13, <1>14, Zenon DEF Connected

LEMMA AtFrame ==
  ASSUME IInv, Laid(written, ends), InOrder(written, delivered), Connected, m_message_left = 0,
         arrived # <<>>
  PROVE  /\ Len(delivered) + 1 \in DOMAIN written /\ arrived \in Seq(Bytes) /\ moved \in Nat
         /\ LiesAt(written, ends, arrived, moved - Len(arrived))
         /\ moved - Len(arrived) = Place(written, ends, Len(delivered) + 1)
<1> DEFINE n == Len(delivered) + 1
           a == Len(arrived)
           e == LastEnd(ends)
           q == Len(kernel)
<1>1. /\ arrived \in Seq(Bytes) /\ moved \in Nat /\ moved + q <= e
      /\ LiesAt(written, ends, arrived, moved - a)
  BY Zenon DEF Connected, Flow
<1>2. moved - a = Start(ends, n) BY Zenon DEF Connected, Reading
<1>3. a \in Nat /\ a > 0 /\ q \in Nat
  <2>1. kernel \in Seq(Bytes) BY DEF IInv, Shape
  <2> QED BY <1>1, <2>1
<1>4. e \in Nat BY LastIs
<1> HIDE DEF a, e, q
<1>5. moved - a # e BY <1>1, <1>3, <1>4
<1>6. n \in DOMAIN written
  <2>1. /\ delivered \in Seq(Bodies) /\ written \in Seq(Bodies) /\ ends \in Seq(Nat)
        /\ Len(ends) = Len(written) /\ Len(delivered) <= Len(written)
    BY DEF Laid, InOrder
  <2>2. CASE Len(delivered) = Len(written)
    <3>1. n - 1 = Len(ends) /\ (n = 1 <=> ends = <<>>) BY <2>1, <2>2
    <3>2. Start(ends, n) = e BY <3>1, Zenon DEF Start, LastEnd, e
    <3> QED BY <1>2, <1>5, <3>2, Zenon
  <2>3. CASE Len(delivered) # Len(written) BY <2>1, <2>3
  <2> QED BY <2>2, <2>3
<1>7. Start(ends, n) = Place(written, ends, n) BY <1>6, StartIs
<1> QED BY <1>1, <1>2, <1>6, <1>7, Zenon DEF a

\* A part of a length, alone, is the last of what a sender that is gone has sent.
LEMMA ShortHeader ==
  ASSUME IInv, Laid(written, ends), InOrder(written, delivered), Connected, m_message_left = 0,
         arrived # <<>>, Len(arrived) <= LengthSize
  PROVE  SenderGone /\ kernel = <<>>
<1> DEFINE n == Len(delivered) + 1
           a == Len(arrived)
           j == LengthSize - a
           c == Len(written[n])
<1>1. /\ n \in DOMAIN written /\ arrived \in Seq(Bytes) /\ moved \in Nat
      /\ moved - a = Place(written, ends, n)
  BY AtFrame
<1>2. ends[n] \in Nat /\ c \in Nat /\ LengthSize \in Nat BY <1>1, PlaceIs
<1>3. a \in Nat /\ a > 0 /\ a <= LengthSize BY <1>1
<1>4. moved - a = ends[n] - c - LengthSize BY <1>1, Zenon DEF Place
<1> HIDE DEF a, c, n
<1>5. j \in 0 .. LengthSize - 1 /\ moved = ends[n] - c - j BY <1>1, <1>2, <1>3, <1>4
<1> HIDE DEF j
<1>6. moved = ends[n] - Len(written[n]) - j BY <1>5, Zenon DEF c
<1>7. moved \in Headers(written, ends) BY <1>1, <1>5, <1>6 DEF Headers
<1> QED BY <1>7, Zenon DEF Connected

\* A length that has come whole is that of the message at hand.
LEMMA WholeHeader ==
  ASSUME IInv, Laid(written, ends), InOrder(written, delivered), Connected, m_message_left = 0,
         arrived # <<>>, Len(arrived) > LengthSize
  PROVE  LET rest == SubSeq(arrived, LengthSize + 1, Len(arrived))
             left == ntohl(SubSeq(arrived, 1, LengthSize))
         IN /\ rest \in Seq(Bytes) /\ rest # <<>> /\ left > 0
            /\ LiesAt(written, ends, rest, moved - Len(rest))
            /\ Midway(written, ends, delivered, left, <<>>, moved - Len(rest))
<1> DEFINE n == Len(delivered) + 1
           a == Len(arrived)
           P == Place(written, ends, n)
           body == written[n]
           digits == SubSeq(arrived, 1, LengthSize)
           rest == SubSeq(arrived, LengthSize + 1, Len(arrived))
<1>1. /\ n \in DOMAIN written /\ arrived \in Seq(Bytes) /\ moved \in Nat
      /\ LiesAt(written, ends, arrived, moved - a) /\ moved - a = P
  BY AtFrame
<1>2. /\ body \in Bodies /\ P \in Nat /\ LengthSize \in Nat /\ LengthSize > 0
      /\ Width(written, n) = LengthSize + Len(body) /\ Len(body) \in Nat /\ Len(body) > 0
  BY <1>1, PlaceIs, Zenon DEF Width
<1>3. /\ htonl(Len(body)) \in Seq(Bytes) /\ Len(htonl(Len(body))) = LengthSize
      /\ \A j \in 1 .. LengthSize : extract_data(body)[j] = htonl(Len(body))[j]
  BY <1>2, FrameBytes, Zenon
<1>4. a \in Nat /\ a > LengthSize BY <1>1
<1>5. /\ digits \in Seq(Bytes) /\ Len(digits) = LengthSize
      /\ \A j \in 1 .. LengthSize : digits[j] = arrived[j]
  BY <1>1, <1>2, <1>4
<1>6. rest \in Seq(Bytes) /\ Len(rest) = a - LengthSize BY <1>1, <1>2, <1>4
<1> HIDE DEF digits, rest
<1>7. rest # <<>>
  <2>1. Len(rest) # 0 BY <1>2, <1>4, <1>6
  <2> QED BY <2>1
<1>8. moved - Len(rest) = P + LengthSize
  <2> HIDE DEF a, P
  <2> QED BY <1>1, <1>2, <1>4, <1>6
<1>9. LiesAt(written, ends, rest, moved - Len(rest))
  <2>1. LengthSize \in 0 .. Len(arrived) /\ Len(arrived) \in 0 .. Len(arrived) /\ P \in Int
    BY <1>2, <1>4
  <2>2. LiesAt(written, ends, arrived, P) BY <1>1, Zenon
  <2> HIDE DEF P
  <2>3. LiesAt(written, ends, SubSeq(arrived, LengthSize + 1, Len(arrived)), P + LengthSize)
    BY <1>1, <2>1, <2>2, LiesPart
  <2> QED BY <1>8, <2>3, Zenon DEF rest
<1>10. ASSUME NEW j \in 1 .. LengthSize PROVE arrived[j] = htonl(Len(body))[j]
  <2> HIDE DEF P, a, body
  <2>1. /\ j \in 1 .. Width(written, n) /\ P < P + j /\ P + j <= P + a /\ (P + j) - P = j
    BY <1>2, <1>4
  <2>2. LiesAt(written, ends, arrived, P) BY <1>1, Zenon
  <2>3. arrived[(P + j) - P] = extract_data(written[n])[j] BY <1>1, <2>1, <2>2, Zenon DEF LiesAt, P, a
  <2> QED BY <1>3, <2>1, <2>3, Zenon DEF body
<1>11. digits = htonl(Len(body))
  <2>1. \A j \in 1 .. Len(digits) : digits[j] = htonl(Len(body))[j] BY <1>5, <1>10, Zenon
  <2> HIDE DEF body
  <2> QED BY <1>3, <1>5, <2>1, SeqEqual
<1>12. ntohl(digits) = Len(body) BY <1>2, <1>11, LengthAssumption, Zenon
<1>13. Midway(written, ends, delivered, Len(body), <<>>, moved - Len(rest))
  <2>1. Start(ends, n) = P BY <1>1, StartIs
  <2>2. Len(delivered) + 1 <= Len(written)
    <3>1. written \in Seq(Bodies) BY DEF Laid
    <3> QED BY <1>1, <3>1
  <2>3. <<>> \in Seq(Bytes) /\ Len(<<>>) = 0 /\ \A j \in 1 .. 0 : FALSE OBVIOUS
  <2>4. 0 + Len(body) = Len(body) /\ P + LengthSize + 0 = P + LengthSize
    <3> HIDE DEF body, P
    <3> QED BY <1>2
  <2>5. \A j \in 1 .. Len(<<>>) : <<>>[j] = body[j] BY <2>3
  <2> QED BY <1>2, <1>8, <2>1, <2>2, <2>3, <2>4, <2>5, Zenon DEF Midway
<1> QED BY <1>2, <1>6, <1>7, <1>9, <1>12, <1>13, Zenon DEF digits, rest

LEMMA ReadFlows ==
  ASSUME IInv, FInv, read_ready, keeps_headers' = keeps_headers
  PROVE  FInv'
<1> DEFINE Closes == reader' = "closed" /\ delivered' = delivered
           Goes == reader' \in {reader, "closed"} /\ Connected' /\ InOrder(written', delivered')
<1>1. /\ arrived # <<>> \/ AtEnd(arrived)
      /\ (reader = "open" /\ read) \/ Closes
      /\ reader \in {"open", "closing"} /\ UNCHANGED <<writer, moved, sender>>
  BY Zenon DEF read_ready
<1>2. Laid(written, ends) /\ ~SocketGone /\ written' = written /\ ends' = ends
  BY <1>1 DEF FInv, SocketGone, writer
<1>3. ASSUME keeps_headers PROVE Goes \/ Closes
  <2>1. Connected /\ InOrder(written, delivered) BY <1>2, <1>3, Zenon DEF FInv
  <2> DEFINE L == LengthSize
             a == Len(arrived)
             digits == Min({L, a})
             rest == SubSeq(arrived, digits + 1, Len(arrived))
             left == ntohl(SubSeq(arrived, 1, digits))
  <2>2. CASE m_message_left > 0 /\ read_message(arrived, m_message_left, m_buffer)
    <3>1. /\ arrived \in Seq(Bytes) /\ LiesAt(written, ends, arrived, moved - Len(arrived))
      BY <2>1, Zenon DEF Connected, Flow
    <3>2. m_message_left # 0 BY <2>2
    <3>3. Midway(written, ends, delivered, m_message_left, m_buffer, moved - Len(arrived))
      BY <1>2, <2>1, <2>2, <3>2, Zenon DEF Connected, Reading, Midway
    <3>4. CASE take(arrived, m_message_left, m_buffer) /\ reader' \in {reader, "closed"} /\ arrived # <<>>
      BY <1>1, <2>1, <3>1, <3>3, <3>4, TakeFlows, Zenon
    <3>5. CASE ~(take(arrived, m_message_left, m_buffer) /\ reader' \in {reader, "closed"} /\ arrived # <<>>)
      BY <1>1, <2>2, <3>2, <3>5, Zenon DEF read_message
    <3> QED BY <3>4, <3>5
  <2>3. CASE m_message_left = 0 /\ arrived # <<>> /\ read_message(rest, left, <<>>)
    <3>1. arrived \in Seq(Bytes) BY <2>1, Zenon DEF Connected, Flow
    <3>2. L \in Nat /\ a \in Nat BY <3>1, SocketsAssumption
    <3>3. CASE a <= L
      <4>1. SenderGone /\ kernel = <<>> BY <1>2, <2>1, <2>3, <3>3, ShortHeader
      <4>2. digits = a
        <5> HIDE DEF L, a
        <5>1. \E x \in {L, a} : \A y \in {L, a} : x <= y BY <3>2
        <5>2. digits \in {L, a} /\ \A y \in {L, a} : digits <= y BY <5>1 DEF Min
        <5> HIDE DEF digits
        <5> QED BY <3>2, <3>3, <5>2
      <4> HIDE DEF digits
      <4>3. rest = <<>> BY <3>1, <4>2
      <4> HIDE DEF rest, left
      <4>4. AtEnd(rest) BY <4>1, <4>3, Zenon DEF AtEnd
      <4> QED BY <2>3, <4>3, <4>4, Zenon DEF read_message
    <3>4. CASE a > L
      <4>1. digits = L
        <5> HIDE DEF L, a
        <5>1. \E x \in {L, a} : \A y \in {L, a} : x <= y BY <3>2
        <5>2. digits \in {L, a} /\ \A y \in {L, a} : digits <= y BY <5>1 DEF Min
        <5> HIDE DEF digits
        <5> QED BY <3>2, <3>4, <5>2
      <4> HIDE DEF digits
      <4>2. /\ rest \in Seq(Bytes) /\ rest # <<>> /\ left > 0
            /\ LiesAt(written, ends, rest, moved - Len(rest))
            /\ Midway(written, ends, delivered, left, <<>>, moved - Len(rest))
        BY <1>2, <2>1, <2>3, <3>4, <4>1, WholeHeader
      <4> HIDE DEF rest, left
      <4>3. left # 0 BY <4>2
      <4>4. take(rest, left, <<>>) /\ reader' \in {reader, "closed"}
        BY <2>3, <4>2, <4>3, Zenon DEF read_message, AtEnd
      <4> QED BY <1>1, <2>1, <4>2, <4>4, TakeFlows, Zenon
    <3> QED BY <3>2, <3>3, <3>4
  <2>4. CASE m_message_left = 0 /\ AtEnd(arrived) /\ Closes BY <2>4
  <2> HIDE DEF rest, left, digits
  <2>5. CASE read BY <2>2, <2>3, <2>4, <2>5, Zenon DEF read, rest, left, digits, L, a
  <2> QED BY <1>1, <2>5, Zenon
<1>4. ASSUME keeps_headers, Goes PROVE FInv'
  <2>1. reader' # "down" BY <1>1, <1>4
  <2> QED BY <1>2, <1>4, <2>1, Zenon DEF FInv
<1>5. ASSUME keeps_headers, Closes PROVE FInv'
  <2>1. reader' # "down" /\ SocketGone' BY <1>5 DEF SocketGone
  <2>2. InOrder(written, delivered) BY <1>5, Zenon DEF FInv
  <2> QED BY <1>2, <1>5, <2>1, <2>2, Zenon DEF FInv
<1>6. CASE ~keeps_headers BY <1>2, <1>6, Zenon DEF FInv
<1> QED BY <1>3, <1>4, <1>5, <1>6

\* Closing an end, or removing the sender, leaves the stream alone.
LEMMA EndFlows ==
  ASSUME IInv, FInv, close \/ remove_client \/ WriteFails, keeps_headers' = keeps_headers
  PROVE  FInv'
<1>1. /\ kernel' = kernel /\ arrived' = arrived /\ moved' = moved /\ m_buffer' = m_buffer
      /\ m_message_left' = m_message_left /\ delivered' = delivered /\ written' = written /\ ends' = ends
      /\ reader' = reader \/ (reader = "open" /\ reader' = "closing")
  BY Zenon DEF close, remove_client, WriteFails, writer
<1>2. /\ (SocketGone' <=> SocketGone) /\ (reader' = "down" => reader = "down")
  BY <1>1 DEF SocketGone
<1>3. SenderGone' \/ (~SenderGone /\ m_message' = m_message /\ m_index' = m_index) \/ SocketGone
  BY DEF close, remove_client, WriteFails, writer, SenderGone
<1>4. SenderGone => SenderGone' BY DEF close, remove_client, WriteFails, writer, SenderGone
<1>5. ASSUME keeps_headers, ~SocketGone PROVE Connected'
  <2>1. Connected BY <1>5, Zenon DEF FInv
  <2>2. Flow(written, ends, arrived, kernel, m_message', m_index', moved, SenderGone')
    BY <1>3, <1>5, <2>1, Zenon DEF Connected, Flow
  <2>3. moved \notin Headers(written, ends) \/ (SenderGone' /\ kernel = <<>>)
    BY <1>4, <2>1, Zenon DEF Connected
  <2> QED BY <1>1, <2>1, <2>2, <2>3, Zenon DEF Connected
<1> QED BY <1>1, <1>2, <1>5, Zenon DEF FInv

LEMMA FlowKeeps == IInv /\ FInv /\ [SNext]_svars => FInv'
<1> SUFFICES ASSUME IInv, FInv, [SNext]_svars PROVE FInv' OBVIOUS
<1>1. CASE UNCHANGED svars
  BY <1>1 DEF svars, FInv, Connected, SocketGone, SenderGone
<1>2. CASE SNext
  <2>1. keeps_headers' = keeps_headers BY <1>2, Zenon DEF SNext
  <2> QED BY <1>2, <2>1, SendFlows, ReadyFlows, ArriveFlows, ReadFlows, EndFlows, Zenon DEF SNext
<1> QED BY <1>1, <1>2

\* However the kernels and the network cut the stream, as long as a length comes with a
\* byte of its message the reader hands over what was written, whole and in order: for
\* any messages, any size of the length and of the buffers (SocketReader::read).
THEOREM WholeAndInOrder == SSpec => []DeliveredInOrder
<1>1. FInv => DeliveredInOrder
  <2> SUFFICES ASSUME FInv, keeps_headers
               PROVE  reader # "down" /\ \E n \in 0 .. Len(written) : delivered = SubSeq(written, 1, n)
    BY DEF DeliveredInOrder
  <2>1. reader # "down" /\ InOrder(written, delivered) /\ written \in Seq(Bodies)
    BY DEF FInv, Laid
  <2>2. /\ delivered \in Seq(Bodies) /\ Len(delivered) \in 0 .. Len(written)
        /\ \A k \in 1 .. Len(delivered) : delivered[k] = written[k]
    BY <2>1 DEF InOrder
  <2> DEFINE t == SubSeq(written, 1, Len(delivered))
  <2>3. /\ t \in Seq(Bodies) /\ Len(t) = Len(delivered)
        /\ \A k \in 1 .. Len(delivered) : t[k] = written[k]
    BY <2>1, <2>2
  <2>4. delivered = t
    <3> HIDE DEF t
    <3>1. \A k \in 1 .. Len(delivered) : delivered[k] = t[k] BY <2>2, <2>3, Zenon
    <3> QED BY <2>2, <2>3, <3>1, SeqEqual
  <2> QED BY <2>1, <2>2, <2>4, Zenon
<1>2. SInit => IInv /\ FInv BY Initially, FInitially
<1>3. (IInv /\ FInv) /\ [SNext]_svars => (IInv /\ FInv)' BY StepKeeps, FlowKeeps
<1> QED BY <1>1, <1>2, <1>3, PTL DEF SSpec
=============================================================================
