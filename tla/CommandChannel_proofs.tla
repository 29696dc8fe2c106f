------------------------ MODULE CommandChannel_proofs ------------------------
(***************************************************************************)
(* What get_response returns on a command connection that nobody shares,   *)
(* for any threads, requests, sockets, and pieces of an answer.            *)
(*                                                                         *)
(* An answer belongs to its command by its place in the stream, so the     *)
(* proof follows the place.  Of the command that is out, what has been     *)
(* taken, what is in buf_ and what is still in the socket are consecutive  *)
(* parts of one answer (PartsFollow); when no command is out the current   *)
(* socket is quiet, or it is about to be replaced (SocketIsQuiet).         *)
(***************************************************************************)
EXTENDS CommandChannel, SequenceTheorems, WellFoundedInduction, TLAPS

\* Who holds rtu_mutex.
LockInv ==
  \A w \in Workers :
    /\ pc[w] = "send" => rtu_mutex = w
    /\ pc[w] \in {"check", "enter", "recv", "scan", "got"} /\ job[w].kind = "raw"
         => rtu_mutex = w

\* close() has passed its flag, connect() has not replaced the socket.
Closes(w) == pc[w] \in {"shutdown", "open"} /\ job[w].kind = "connect"

\* One thread makes connections.
ConnectInv ==
  /\ \A v, w \in Workers : Connects(v) /\ Connects(w) => v = w
  /\ \A w \in Workers :
       /\ pc[w] \in {"close", "shutdown"} => job[w].kind = "connect"
       /\ pc[w] \in {"open", "await"} => job[w].kind \in {"connect", "settings"}
       /\ pc[w] \in {"close", "shutdown", "open"} => job[w].tries < 3
       /\ pc[w] = "await" => link[socket] = "opening"
       /\ Closes(w) => ~is_connected

\* Only an open connection takes commands, and an unused one carries nothing.
LinkInv ==
  /\ link[socket] # "unused"
  /\ \A s \in SocketNumbers :
       /\ link[s] # "up" => toRtu[s] = <<>>
       /\ link[s] = "unused" => fromRtu[s] = <<>>

\* recv() has a socket, what it has read is in buf_, and a response exists
\* inside get_response only.
CallInv ==
  \A w \in Workers :
    /\ pc[w] \in {"recv", "scan"} => job[w].at \in SocketNumbers
    /\ pc[w] = "scan" => job[w].count <= Len(buf)
    /\ pc[w] \notin {"enter", "recv", "scan", "got"} => response[w] = <<>>

BaseInv == TypeOK /\ LockInv /\ ConnectInv /\ LinkInv /\ CallInv

-----------------------------------------------------------------------------
Quiet(s) == fromRtu[s] = <<>> /\ toRtu[s] = <<>>

\* q is what follows the first k pieces of the answer to command n.
AnswerPart(q, n, k) ==
  /\ k + Len(q) <= Pieces
  /\ \A i \in 1 .. Len(q) : q[i] = Piece(n, k + i)

\* Pieces of its answer that a thread has taken from its socket.
Taken(w) == Len(response[w]) + Len(buf)

\* Socket s brings the rest of the answer w waits for, or nothing.
Brings(w, s) ==
  \/ Quiet(s)
  \/ /\ job[w].via = s
     /\ AnswerPart(fromRtu[s], job[w].n, Taken(w))
     /\ \/ toRtu[s] = <<>>
        \/ toRtu[s] = <<job[w].n>> /\ Taken(w) = 0 /\ fromRtu[s] = <<>>

Reads(w) == pc[w] \in {"enter", "recv", "scan"}
ReadsFrom(w) == IF pc[w] \in {"recv", "scan"} THEN job[w].at ELSE socket

OneIsOut == \A v, w \in Workers : Out(v) /\ Out(w) => v = w

BuffersInv ==
  /\ leftover_buffer = <<>>
  /\ \A w \in Workers : pc[w] = "scan" => job[w].count = Len(buf)
  /\ (\A w \in Workers : pc[w] # "scan") => buf = <<>>

PartsFollow ==
  \A w \in Workers :
    Reads(w) => /\ AnswerPart(response[w], job[w].n, 0)
                /\ AnswerPart(buf, job[w].n, Len(response[w]))
                /\ Brings(w, ReadsFrom(w))

NobodyReads == \A w \in Workers : ~Reads(w)
NobodyIsOut == \A w \in Workers : ~Out(w)
Replaces(w) == pc[w] = "open" /\ job[w].kind = "settings"
SocketIsQuiet ==
  \/ Quiet(socket)
  \/ \E w \in Workers : Out(w) /\ ReadsFrom(w) = socket /\ Brings(w, socket)
  \/ NobodyReads /\ \E w \in Workers : Closes(w)
  \/ NobodyIsOut /\ \E w \in Workers : Replaces(w)

NotConnected ==
  (~is_connected /\ \A w \in Workers : ~Closes(w))
     => Quiet(socket) /\ link[socket] # "up"

OwnAnswers ==
  \A w \in Workers : pc[w] = "got" => response[w] \in {<<>>, Answer(job[w].n)}

FrameInv == /\ OneIsOut /\ BuffersInv /\ PartsFollow /\ SocketIsQuiet
            /\ NotConnected /\ OwnAnswers

ChannelInv == BaseInv /\ (shared \/ FrameInv)

-----------------------------------------------------------------------------
(* Parts of an answer                                                      *)

LEMMA PieceProperties ==
  ASSUME NEW n \in Nat, NEW i \in Nat
  PROVE  /\ Piece(n, i) \in [of : Nat, last : BOOLEAN]
         /\ Piece(n, i).last <=> i = Pieces
  <1>1. (i = Pieces) \in BOOLEAN
    OBVIOUS
  <1> QED
    BY <1>1 DEF Piece

LEMMA NoMoreNoLess ==
  ASSUME NEW a \in Nat, NEW b \in Nat, a <= b, b <= a
  PROVE  a = b
  OBVIOUS

LEMMA AnswerWhole ==
  ASSUME NEW n \in Nat
  PROVE  /\ Answer(n) \in Stream /\ Len(Answer(n)) = Pieces
         /\ AnswerPart(Answer(n), n, 0)
  <1>1. Pieces \in Nat /\ Pieces # 0
    BY PiecesPositive
  <1>2. \A i \in 1 .. Pieces : Piece(n, i) \in [of : Nat, last : BOOLEAN]
    BY <1>1, PieceProperties
  <1>3. Answer(n) \in [1 .. Pieces -> [of : Nat, last : BOOLEAN]]
    BY <1>2 DEF Answer
  <1>4. Answer(n) \in Stream /\ Len(Answer(n)) = Pieces
    <2>1. Answer(n) \in Stream
      BY <1>1, <1>3, SeqDef, Zenon DEF Stream
    <2>2. DOMAIN Answer(n) = 1 .. Len(Answer(n)) /\ Len(Answer(n)) \in Nat
      BY <2>1, LenProperties DEF Stream
    <2>3. DOMAIN Answer(n) = 1 .. Pieces
      BY DEF Answer
    <2>4. Len(Answer(n)) = Pieces
      <3>1. Pieces \in 1 .. Len(Answer(n))
        BY <1>1, <2>2, <2>3
      <3>2. Len(Answer(n)) \in 1 .. Len(Answer(n))
        BY <1>1, <2>2, <3>1
      <3>3. Len(Answer(n)) \in 1 .. Pieces
        BY <2>2, <2>3, <3>2
      <3>4. Len(Answer(n)) <= Pieces /\ Pieces <= Len(Answer(n))
        BY <1>1, <2>2, <3>1, <3>3
      <3> QED
        BY <1>1, <2>2, <3>4, NoMoreNoLess
    <2> QED
      BY <2>1, <2>4
  <1>5. \A i \in 1 .. Pieces : Answer(n)[i] = Piece(n, i) /\ 0 + i = i
    BY <1>1 DEF Answer
  <1> QED
    BY <1>1, <1>4, <1>5 DEF AnswerPart

LEMMA EmptyPart ==
  ASSUME NEW n, NEW k \in Nat, k <= Pieces
  PROVE  AnswerPart(<<>>, n, k)
  BY PiecesPositive DEF AnswerPart

LEMMA PartThenPart ==
  ASSUME NEW n, NEW p \in Stream, NEW q \in Stream,
         AnswerPart(p, n, 0), AnswerPart(q, n, Len(p))
  PROVE  /\ p \o q \in Stream /\ Len(p \o q) = Len(p) + Len(q)
         /\ AnswerPart(p \o q, n, 0)
  <1>1. /\ p \o q \in Stream /\ Len(p \o q) = Len(p) + Len(q)
        /\ \A i \in 1 .. Len(p) + Len(q) :
             (p \o q)[i] = IF i <= Len(p) THEN p[i] ELSE q[i - Len(p)]
    BY ConcatProperties DEF Stream
  <1>2. Len(p) \in Nat /\ Len(q) \in Nat /\ Pieces \in Nat
    BY PiecesPositive, LenProperties DEF Stream
  <1>3. ASSUME NEW i \in 1 .. Len(p \o q)
        PROVE  (p \o q)[i] = Piece(n, 0 + i)
    <2>1. CASE i <= Len(p)
      BY <1>1, <1>2, <2>1 DEF AnswerPart
    <2>2. CASE ~(i <= Len(p))
      <3>1. i - Len(p) \in 1 .. Len(q) /\ Len(p) + (i - Len(p)) = 0 + i
        BY <1>1, <1>2, <2>2
      <3> QED
        BY <1>1, <1>2, <2>2, <3>1 DEF AnswerPart
    <2> QED
      BY <2>1, <2>2
  <1> QED
    BY <1>1, <1>2, <1>3 DEF AnswerPart

LEMMA CutProperties ==
  ASSUME NEW S, NEW q \in Seq(S), NEW m \in 0 .. Len(q)
  PROVE  /\ SubSeq(q, 1, m) \in Seq(S) /\ Len(SubSeq(q, 1, m)) = m
         /\ \A i \in 1 .. m : SubSeq(q, 1, m)[i] = q[i]
         /\ SubSeq(q, m + 1, Len(q)) \in Seq(S)
         /\ Len(SubSeq(q, m + 1, Len(q))) = Len(q) - m
         /\ \A i \in 1 .. Len(q) - m : SubSeq(q, m + 1, Len(q))[i] = q[m + i]
  <1>1. Len(q) \in Nat /\ m \in Nat /\ m <= Len(q) /\ m + 1 \in Int
    BY LenProperties
  <1>2. \A i \in 1 .. Len(q) : q[i] \in S
    BY ElementOfSeq
  <1>3. \A i \in 1 .. m : q[i] \in S
    BY <1>1, <1>2
  <1>4. \A i \in m + 1 .. Len(q) : q[i] \in S
    BY <1>1, <1>2
  <1>5. /\ SubSeq(q, 1, m) \in Seq(S)
        /\ Len(SubSeq(q, 1, m)) = IF 1 <= m THEN m - 1 + 1 ELSE 0
        /\ \A i \in 1 .. m - 1 + 1 : SubSeq(q, 1, m)[i] = q[1 + i - 1]
    BY <1>1, <1>3, SubSeqProperties
  <1>6. /\ SubSeq(q, m + 1, Len(q)) \in Seq(S)
        /\ Len(SubSeq(q, m + 1, Len(q)))
             = IF m + 1 <= Len(q) THEN Len(q) - (m + 1) + 1 ELSE 0
        /\ \A i \in 1 .. Len(q) - (m + 1) + 1 :
             SubSeq(q, m + 1, Len(q))[i] = q[m + 1 + i - 1]
    BY <1>1, <1>4, SubSeqProperties
  <1>7. \A i \in 1 .. m : i \in 1 .. m - 1 + 1 /\ 1 + i - 1 = i
    BY <1>1
  <1>8. \A i \in 1 .. Len(q) - m :
          i \in 1 .. Len(q) - (m + 1) + 1 /\ m + 1 + i - 1 = m + i
    BY <1>1
  <1>9. Len(SubSeq(q, 1, m)) = m /\ Len(SubSeq(q, m + 1, Len(q))) = Len(q) - m
    BY <1>1, <1>5, <1>6
  <1> QED
    BY <1>5, <1>6, <1>7, <1>8, <1>9

LEMMA PartIsCut ==
  ASSUME NEW n, NEW k \in Nat, NEW q \in Stream, NEW m \in 0 .. Len(q)
  PROVE  /\ SubSeq(q, 1, m) \in Stream /\ Len(SubSeq(q, 1, m)) = m
         /\ Behind(q, m) \in Stream /\ Len(Behind(q, m)) = Len(q) - m
         /\ AnswerPart(q, n, k)
              => AnswerPart(SubSeq(q, 1, m), n, k) /\ AnswerPart(Behind(q, m), n, k + m)
  <1>1. Len(q) \in Nat /\ m \in Nat /\ m <= Len(q) /\ Pieces \in Nat
    BY PiecesPositive, LenProperties DEF Stream
  <1>2. /\ SubSeq(q, 1, m) \in Stream /\ Len(SubSeq(q, 1, m)) = m
        /\ \A i \in 1 .. m : SubSeq(q, 1, m)[i] = q[i]
    BY CutProperties DEF Stream
  <1>3. /\ Behind(q, m) \in Stream /\ Len(Behind(q, m)) = Len(q) - m
        /\ \A i \in 1 .. Len(q) - m : Behind(q, m)[i] = q[m + i]
    BY CutProperties DEF Stream, Behind
  <1>4. ASSUME AnswerPart(q, n, k)
        PROVE  AnswerPart(SubSeq(q, 1, m), n, k)
    BY <1>1, <1>2, <1>4 DEF AnswerPart
  <1>5. ASSUME AnswerPart(q, n, k)
        PROVE  AnswerPart(Behind(q, m), n, k + m)
    <2>1. \A i \in 1 .. Len(q) - m : m + i \in 1 .. Len(q) /\ k + (m + i) = k + m + i
      BY <1>1
    <2>2. \A i \in 1 .. Len(q) - m : Behind(q, m)[i] = Piece(n, k + m + i)
      BY <1>3, <1>5, <2>1 DEF AnswerPart
    <2>3. k + m + (Len(q) - m) <= Pieces
      BY <1>1, <1>5 DEF AnswerPart
    <2> QED
      BY <1>3, <2>2, <2>3 DEF AnswerPart
  <1> QED
    BY <1>2, <1>3, <1>4, <1>5

\* An end in a part is the end of the answer, and nothing is behind it.
LEMMA EndOfPart ==
  ASSUME NEW n \in Nat, NEW k \in Nat, NEW q \in Stream, AnswerPart(q, n, k),
         Ends(q) # {}
  PROVE  /\ k + Len(q) = Pieces
         /\ Frame(q) = q /\ Behind(q, FirstEnd(q)) = <<>>
  <1>1. Len(q) \in Nat /\ Pieces \in Nat /\ DOMAIN q = 1 .. Len(q)
    BY PiecesPositive, LenProperties DEF Stream
  <1>2. ASSUME NEW i \in Ends(q)
        PROVE  i = Len(q) /\ k + Len(q) = Pieces
    <2>1. i \in 1 .. Len(q) /\ q[i].last
      BY <1>1 DEF Ends
    <2>2. q[i] = Piece(n, k + i) /\ k + i \in Nat
      BY <1>1, <2>1 DEF AnswerPart
    <2>3. k + i = Pieces
      BY <2>1, <2>2, PieceProperties
    <2>4. k + Len(q) <= Pieces
      BY DEF AnswerPart
    <2>5. i \in 1 .. Len(q)
      BY <2>1
    <2>6. i \in Nat /\ i <= Len(q)
      BY <1>1, <2>5
    <2>7. Len(q) <= i
      BY <1>1, <2>3, <2>4, <2>6
    <2>8. i = Len(q)
      BY <1>1, <2>6, <2>7, NoMoreNoLess
    <2> QED
      BY <2>3, <2>8
  <1>3. k + Len(q) = Pieces /\ Ends(q) = {Len(q)}
    BY <1>2
  <1>4. FirstEnd(q) = Len(q)
    BY <1>1, <1>3 DEF FirstEnd
  <1>5. SubSeq(q, 1, Len(q)) = q
    BY <1>1, SubSeqFull DEF Stream
  <1>6. SubSeq(q, Len(q) + 1, Len(q)) = <<>>
    BY <1>1, SubSeqEmpty DEF Stream
  <1> QED
    BY <1>3, <1>4, <1>5, <1>6 DEF Frame, Behind

LEMMA WholePart ==
  ASSUME NEW n \in Nat, NEW p \in Stream, AnswerPart(p, n, 0), Len(p) = Pieces
  PROVE  p = Answer(n)
  <1>1. Answer(n) \in Stream /\ Len(Answer(n)) = Pieces
        /\ AnswerPart(Answer(n), n, 0)
    BY AnswerWhole
  <1>2. \A i \in 1 .. Len(p) : p[i] = Answer(n)[i]
    BY <1>1 DEF AnswerPart
  <1> QED
    BY <1>1, <1>2, SeqEqual DEF Stream

-----------------------------------------------------------------------------
(* Types, the lock, and who makes connections                              *)

LEMMA LeastNumber ==
  ASSUME NEW T, T \subseteq Nat, T # {}
  PROVE  \E x \in T : \A y \in T : x <= y
  <1> DEFINE R == OpToRel(<, Nat)
  <1>1. IsWellFoundedOn(R, Nat)
    BY NatLessThanWellFounded, Zenon
  <1>2. \A x, y \in Nat : ~(<<y, x>> \in R) => x <= y
    BY DEF OpToRel
  <1> HIDE DEF R
  <1>3. \E x \in T : \A y \in T : ~(<<y, x>> \in R)
    BY <1>1, WFMin
  <1> QED
    BY <1>2, <1>3

LEMMA FrameType ==
  ASSUME NEW q \in Stream, Ends(q) # {}
  PROVE  /\ FirstEnd(q) \in 1 .. Len(q)
         /\ Frame(q) \in Stream /\ Behind(q, FirstEnd(q)) \in Stream
  <1>1. Len(q) \in Nat /\ DOMAIN q = 1 .. Len(q)
    BY LenProperties DEF Stream
  <1>2. Ends(q) \subseteq 1 .. Len(q) /\ Ends(q) \subseteq Nat
    BY <1>1 DEF Ends
  <1>3. \E i \in Ends(q) : \A j \in Ends(q) : i <= j
    BY <1>2, LeastNumber
  <1>4. FirstEnd(q) \in 1 .. Len(q)
    BY <1>2, <1>3 DEF FirstEnd
  <1>5. FirstEnd(q) \in 0 .. Len(q)
    BY <1>1, <1>4
  <1>6. /\ SubSeq(q, 1, FirstEnd(q)) \in Stream
        /\ SubSeq(q, FirstEnd(q) + 1, Len(q)) \in Stream
    BY <1>5, CutProperties DEF Stream
  <1> QED
    BY <1>4, <1>6 DEF Frame, Behind

LEMMA BehindType ==
  ASSUME NEW q \in Stream, NEW m \in Nat
  PROVE  Behind(q, m) \in Stream
  <1>1. Len(q) \in Nat /\ m + 1 \in Int
    BY LenProperties DEF Stream
  <1>2. \A i \in m + 1 .. Len(q) : q[i] \in [of : Nat, last : BOOLEAN]
    <2>1. \A i \in m + 1 .. Len(q) : i \in 1 .. Len(q)
      BY <1>1
    <2> QED
      BY <2>1, ElementOfSeq DEF Stream
  <1> QED
    BY <1>1, <1>2, SubSeqProperties DEF Stream, Behind

LEMMA CutToCount ==
  ASSUME NEW q \in Stream, NEW m \in 0 .. Len(q)
  PROVE  SubSeq(q, 1, m) \in Stream /\ Len(SubSeq(q, 1, m)) = m
  BY CutProperties DEF Stream

LEMMA NoJobType == NoJob \in Jobs
  BY MaxSocketsPositive DEF NoJob, Jobs, Kinds

LEMMA NextSocketIsUnused ==
  ASSUME TypeOK, CanOpen
  PROVE  NextSocket \in SocketNumbers /\ link[NextSocket] = "unused"
  BY DEF CanOpen, NextSocket

LEMMA TypeStep ==
  ASSUME BaseInv, Next
  PROVE  TypeOK'
  <1>1. TypeOK /\ MaxSockets \in Nat /\ MaxSockets > 0
    BY MaxSocketsPositive DEF BaseInv
  <1>2. socket \in 0 .. MaxSockets /\ 0 \in 0 .. MaxSockets
    BY <1>1 DEF TypeOK, SocketNumbers
  <1>3. <<>> \in Stream /\ <<>> \in Seq(Nat)
    BY DEF Stream
  <1> USE DEF Goes, Gets
  <1>4. ASSUME NEW w \in Workers, Lock(w)
        PROVE  TypeOK'
    <2>1. job' \in [Workers -> Jobs]
      BY <1>1, <1>2, <1>4 DEF Lock, TypeOK, Jobs
    <2>2. pc' \in [Workers -> Pcs]
      BY <1>1, <1>4 DEF Lock, TypeOK, Pcs
    <2> QED
      BY <1>1, <1>4, <2>1, <2>2 DEF Lock, TypeOK, clientVars, linkVars, workerVars
  <1>5. ASSUME NEW w \in Workers, Send(w)
        PROVE  TypeOK'
    <2>1. job' \in [Workers -> Jobs]
      <3>1. CASE job[w].goes
        <4>1. PICK v \in 0 .. MaxSockets :
                job' = [job EXCEPT ![w].via = v, ![w].goes = FALSE]
          BY <1>1, <1>2, <1>5, <3>1 DEF Send
        <4> QED
          BY <1>1, <4>1 DEF TypeOK, Jobs
      <3>2. CASE ~job[w].goes
        <4>1. job' = [job EXCEPT ![w].via = 0]
          BY <1>5, <3>2 DEF Send
        <4> QED
          BY <1>1, <1>2, <4>1 DEF TypeOK, Jobs
      <3> QED
        BY <3>1, <3>2
    <2>2. pc' \in [Workers -> Pcs]
      BY <1>1, <1>5 DEF Send, TypeOK, Pcs
    <2>3. toRtu' \in [SocketNumbers -> Seq(Nat)]
      <3>1. job[w].n \in Nat
        BY <1>1 DEF TypeOK, Jobs
      <3>2. Append(toRtu[socket], job[w].n) \in Seq(Nat)
        BY <1>1, <3>1, AppendProperties DEF TypeOK
      <3>3. \/ toRtu' = toRtu
            \/ toRtu' = [toRtu EXCEPT ![socket] = Append(@, job[w].n)]
        BY <1>5 DEF Send
      <3> QED
        BY <1>1, <3>2, <3>3 DEF TypeOK
    <2>4. is_connected' \in BOOLEAN /\ shared' \in BOOLEAN /\ rtu_mutex' \in Workers \cup {Nobody}
      BY <1>1, <1>5 DEF Send, TypeOK, Sendable
    <2> QED
      BY <1>1, <1>5, <2>1, <2>2, <2>3, <2>4 DEF Send, TypeOK, clientVars,
         linkVars, workerVars
  <1>6. ASSUME NEW w \in Workers, CheckConnected(w)
        PROVE  TypeOK'
    <2>1. pc' \in [Workers -> Pcs]
      BY <1>1, <1>6 DEF CheckConnected, TypeOK, Pcs
    <2>2. response' \in [Workers -> Stream] /\ leftover_buffer' \in Stream
      BY <1>1, <1>3, <1>6, FrameType DEF CheckConnected, TypeOK
    <2> QED
      BY <1>1, <1>6, <2>1, <2>2 DEF CheckConnected, TypeOK, clientVars,
         linkVars, workerVars
  <1>7. ASSUME NEW w \in Workers, EnterRecv(w)
        PROVE  TypeOK'
    <2>1. job' \in [Workers -> Jobs]
      BY <1>1, <1>2, <1>7 DEF EnterRecv, TypeOK, Jobs
    <2>2. pc' \in [Workers -> Pcs]
      BY <1>1, <1>7 DEF EnterRecv, TypeOK, Pcs
    <2> QED
      BY <1>1, <1>7, <2>1, <2>2 DEF EnterRecv, TypeOK, clientVars, linkVars,
         workerVars
  <1>8. ASSUME NEW w \in Workers, Recv(w)
        PROVE  TypeOK'
    <2> DEFINE s == job[w].at
    <2>0. /\ s \in SocketNumbers /\ fromRtu[s] \in Stream /\ Len(fromRtu[s]) \in Nat
          /\ buf \in Stream
      BY <1>1, <1>8, LenProperties DEF Recv, BaseInv, CallInv, TypeOK, Stream
    <2>5. PICK k \in 1 .. Len(fromRtu[s]) :
            /\ buf' = SubSeq(fromRtu[s], 1, k) \o Behind(buf, k)
            /\ fromRtu' = [fromRtu EXCEPT ![s] = Behind(@, k)]
            /\ job' = [job EXCEPT ![w].count = k]
      BY <1>8 DEF Recv
    <2>6. k \in 0 .. Len(fromRtu[s]) /\ k \in Nat
      BY <2>0, <2>5
    <2>1. job' \in [Workers -> Jobs]
      BY <1>1, <2>5, <2>6 DEF TypeOK, Jobs
    <2>2. pc' \in [Workers -> Pcs]
      BY <1>1, <1>8 DEF Recv, TypeOK, Pcs
    <2>3. buf' \in Stream /\ fromRtu' \in [SocketNumbers -> Stream]
      <3>1. SubSeq(fromRtu[s], 1, k) \in Stream /\ Behind(fromRtu[s], k) \in Stream
        BY <2>0, <2>6, PartIsCut
      <3>2. Behind(buf, k) \in Stream
        BY <2>0, <2>6, BehindType
      <3>3. SubSeq(fromRtu[s], 1, k) \o Behind(buf, k) \in Stream
        BY <3>1, <3>2, ConcatProperties DEF Stream
      <3> QED
        BY <1>1, <2>5, <3>1, <3>3 DEF TypeOK
    <2> QED
      BY <1>1, <1>8, <2>1, <2>2, <2>3 DEF Recv, TypeOK, clientVars, linkVars,
         workerVars
  <1>9. ASSUME NEW w \in Workers, RecvFails(w)
        PROVE  TypeOK'
    <2>1. pc' \in [Workers -> Pcs]
      BY <1>1, <1>9 DEF RecvFails, TypeOK, Pcs
    <2>2. response' \in [Workers -> Stream]
      BY <1>1, <1>3, <1>9 DEF RecvFails, TypeOK
    <2> QED
      BY <1>1, <1>9, <2>1, <2>2 DEF RecvFails, TypeOK, clientVars, linkVars,
         workerVars
  <1>10. ASSUME NEW w \in Workers, Scan(w)
        PROVE  TypeOK'
    <2>1. job' \in [Workers -> Jobs]
      <3>1. [job[w] EXCEPT !.at = 0, !.count = 0] \in Jobs
        BY <1>1, <1>2 DEF TypeOK, Jobs
      <3>2. job' = [job EXCEPT ![w] = [job[w] EXCEPT !.at = 0, !.count = 0]]
        BY <1>1, <1>10 DEF Scan, TypeOK
      <3> QED
        BY <1>1, <3>1, <3>2 DEF TypeOK
    <2>2. pc' \in [Workers -> Pcs]
      BY <1>1, <1>10 DEF Scan, TypeOK, Pcs
    <2>3. response' \in [Workers -> Stream] /\ leftover_buffer' \in Stream /\ buf' \in Stream
      <3> DEFINE chunk == SubSeq(buf, 1, job[w].count)
      <3>1. chunk \in Stream
        <4>1. buf \in Stream /\ Len(buf) \in Nat /\ job[w].count \in Nat
          BY <1>1, LenProperties DEF TypeOK, Jobs, Stream
        <4>2. job[w].count <= Len(buf)
          BY <1>10 DEF Scan, BaseInv, CallInv
        <4> QED
          BY <4>1, <4>2, CutToCount
      <3>2. response[w] \o chunk \in Stream
        BY <1>1, <3>1, ConcatProperties DEF TypeOK, Stream
      <3>3. ASSUME Ends(chunk) # {}
            PROVE  /\ response[w] \o Frame(chunk) \in Stream
                   /\ Behind(chunk, FirstEnd(chunk)) \in Stream
        BY <1>1, <3>1, <3>3, FrameType, ConcatProperties DEF TypeOK, Stream
      <3> HIDE DEF chunk
      <3>4. \/ response' = [response EXCEPT ![w] = response[w] \o chunk]
               /\ leftover_buffer' = leftover_buffer
            \/ /\ Ends(chunk) # {}
               /\ response' = [response EXCEPT ![w] = response[w] \o Frame(chunk)]
               /\ leftover_buffer' = Behind(chunk, FirstEnd(chunk))
        BY <1>10 DEF Scan, chunk
      <3>5. buf' \in {buf, <<>>}
        BY <1>10 DEF Scan
      <3> QED
        BY <1>1, <1>3, <3>2, <3>3, <3>4, <3>5 DEF TypeOK
    <2> QED
      BY <1>1, <1>10, <2>1, <2>2, <2>3 DEF Scan, TypeOK, clientVars, linkVars,
         workerVars
  <1>11. ASSUME NEW w \in Workers, CloseFlag(w)
        PROVE  TypeOK'
    <2>1. pc' \in [Workers -> Pcs]
      BY <1>1, <1>11 DEF CloseFlag, TypeOK, Pcs
    <2> QED
      BY <1>1, <1>11, <2>1 DEF CloseFlag, TypeOK, clientVars, linkVars, workerVars
  <1>12. ASSUME NEW w \in Workers, Shutdown(w)
        PROVE  TypeOK'
    <2>1. pc' \in [Workers -> Pcs]
      BY <1>1, <1>12 DEF Shutdown, TypeOK, Pcs
    <2>2. link' \in [SocketNumbers -> LinkStates]
      BY <1>1, <1>12 DEF Shutdown, TypeOK, LinkStates
    <2>3. toRtu' \in [SocketNumbers -> Seq(Nat)]
      BY <1>1, <1>3, <1>12 DEF Shutdown, TypeOK
    <2> QED
      BY <1>1, <1>12, <2>1, <2>2, <2>3 DEF Shutdown, TypeOK, clientVars,
         linkVars, workerVars
  <1>13. ASSUME NEW w \in Workers, Open(w)
        PROVE  TypeOK'
    <2>1. job' \in [Workers -> Jobs]
      <3>1. job[w] \in Jobs /\ job[w].tries < 3
        BY <1>1, <1>13 DEF Open, TypeOK, BaseInv, ConnectInv
      <3>2. job[w].tries + 1 \in 0 .. 3
        BY <3>1 DEF Jobs
      <3> QED
        BY <1>1, <1>13, <3>2 DEF Open, TypeOK, Jobs
    <2>2. pc' \in [Workers -> Pcs]
      BY <1>1, <1>13 DEF Open, TypeOK, Pcs
    <2>3. link' \in [SocketNumbers -> LinkStates]
      BY <1>1, <1>13 DEF Open, TypeOK, LinkStates
    <2>4. socket' \in SocketNumbers
      BY <1>1, <1>13, NextSocketIsUnused DEF Open, TypeOK
    <2>5. toRtu' \in [SocketNumbers -> Seq(Nat)] /\ fromRtu' \in [SocketNumbers -> Stream]
      BY <1>1, <1>3, <1>13, NextSocketIsUnused DEF Open, TypeOK
    <2> QED
      BY <1>1, <1>13, <2>1, <2>2, <2>3, <2>4, <2>5 DEF Open, TypeOK, clientVars,
         linkVars, workerVars
  <1>14. ASSUME NEW w \in Workers, Established(w)
        PROVE  TypeOK'
    <2>1. pc' \in [Workers -> Pcs]
      BY <1>1, <1>14 DEF Established, TypeOK, Pcs
    <2>2. link' \in [SocketNumbers -> LinkStates]
      BY <1>1, <1>14 DEF Established, TypeOK, LinkStates
    <2> QED
      BY <1>1, <1>14, <2>1, <2>2 DEF Established, TypeOK, clientVars, linkVars,
         workerVars
  <1>15. ASSUME NEW w \in Workers, ConnectFails(w)
        PROVE  TypeOK'
    <2>1. job' \in [Workers -> Jobs]
      BY <1>1, <1>15, NoJobType DEF ConnectFails, TypeOK
    <2>2. pc' \in [Workers -> Pcs]
      BY <1>1, <1>15 DEF ConnectFails, TypeOK, Pcs
    <2>3. link' \in [SocketNumbers -> LinkStates]
      BY <1>1, <1>15 DEF ConnectFails, TypeOK, LinkStates
    <2> QED
      BY <1>1, <1>15, <2>1, <2>2, <2>3 DEF ConnectFails, TypeOK, clientVars,
         linkVars, workerVars
  <1>16. ASSUME NEW w \in Workers, Return(w)
        PROVE  TypeOK'
    <2>1. job' \in [Workers -> Jobs]
      BY <1>1, <1>16, NoJobType DEF Return, TypeOK
    <2>2. pc' \in [Workers -> Pcs]
      BY <1>1, <1>16 DEF Return, TypeOK, Pcs
    <2>3. response' \in [Workers -> Stream] /\ rtu_mutex' \in Workers \cup {Nobody}
      BY <1>1, <1>3, <1>16 DEF Return, TypeOK
    <2> QED
      BY <1>1, <1>16, <2>1, <2>2, <2>3 DEF Return, TypeOK, clientVars, linkVars,
         workerVars
  <1>17. ASSUME NEW w \in Workers, NEW kind \in Requests, Begin(w, kind)
        PROVE  TypeOK'
    <2>1. job' \in [Workers -> Jobs]
      <3>1. kind \in Kinds /\ commands + 1 \in Nat
        BY <1>1, RequestsKnown DEF TypeOK, Kinds
      <3>2. [NoJob EXCEPT !.kind = kind, !.n = commands + 1] \in Jobs
        BY <3>1, NoJobType DEF Jobs
      <3> QED
        BY <1>1, <1>17, <3>2 DEF Begin, TypeOK
    <2>2. pc' \in [Workers -> Pcs]
      BY <1>1, <1>17 DEF Begin, TypeOK, Pcs
    <2> QED
      BY <1>1, <1>17, <2>1, <2>2 DEF Begin, TypeOK, clientVars, linkVars, workerVars
  <1>18. ASSUME NEW s \in SocketNumbers, RtuAnswers(s)
        PROVE  TypeOK'
    <2>1. toRtu' \in [SocketNumbers -> Seq(Nat)]
      BY <1>1, <1>3, <1>18, HeadTailProperties DEF RtuAnswers, TypeOK
    <2>2. fromRtu' \in [SocketNumbers -> Stream]
      BY <1>1, <1>3, <1>18, AnswerWhole, ConcatProperties DEF RtuAnswers,
         TypeOK, Stream
    <2> QED
      BY <1>1, <1>18, <2>1, <2>2 DEF RtuAnswers, TypeOK, clientVars, linkVars,
         workerVars
  <1>19. ASSUME NEW s \in SocketNumbers, LinkFails(s)
        PROVE  TypeOK'
    <2>1. link' \in [SocketNumbers -> LinkStates]
      BY <1>1, <1>19 DEF LinkFails, TypeOK, LinkStates
    <2>2. toRtu' \in [SocketNumbers -> Seq(Nat)]
      BY <1>1, <1>3, <1>19 DEF LinkFails, TypeOK
    <2>3. fromRtu' \in [SocketNumbers -> Stream]
      <3>1. PICK k \in 0 .. Len(fromRtu[s]) :
              fromRtu' = [fromRtu EXCEPT ![s] = SubSeq(@, 1, k)]
        BY <1>19 DEF LinkFails
      <3>2. SubSeq(fromRtu[s], 1, k) \in Stream
        BY <1>1, CutToCount DEF TypeOK
      <3> QED
        BY <1>1, <3>1, <3>2 DEF TypeOK
    <2> QED
      BY <1>1, <1>19, <2>1, <2>2, <2>3 DEF LinkFails, TypeOK, clientVars,
         linkVars, workerVars
  <1> QED
    BY <1>4, <1>5, <1>6, <1>7, <1>8, <1>9, <1>10, <1>11, <1>12, <1>13, <1>14,
       <1>15, <1>16, <1>17, <1>18, <1>19 DEF Next, Step, External

LEMMA StepIsOwn ==
  ASSUME TypeOK, NEW w \in Workers, Step(w) \/ Return(w)
  PROVE  \A v \in Workers \ {w} :
           pc'[v] = pc[v] /\ job'[v] = job[v] /\ response'[v] = response[v]
  BY DEF TypeOK, Step, Goes, Gets, workerVars, Lock, Send, CheckConnected,
     EnterRecv,
         Recv, RecvFails, Scan, CloseFlag, Shutdown, Open, Established, ConnectFails,
         Return

\* The steps of a command, from the lock to its answer.
Commands(w) == \/ Lock(w) \/ Send(w) \/ CheckConnected(w) \/ EnterRecv(w)
               \/ Recv(w) \/ RecvFails(w) \/ Scan(w)

LEMMA CommandKeepsJob ==
  ASSUME TypeOK, NEW w \in Workers, Commands(w)
  PROVE  /\ job'[w].kind = job[w].kind /\ job'[w].n = job[w].n
         /\ job'[w].tries = job[w].tries
         /\ UNCHANGED <<link, socket>>
         /\ pc[w] \in {"lock", "send", "check", "enter", "recv", "scan"}
         /\ pc'[w] \in {"send", "open", "check", "enter", "recv", "scan", "got"}
         /\ pc'[w] = "open" => Send(w) /\ NoWait(w)
         /\ pc'[w] = "send" => Lock(w)
  <1> USE DEF Commands, Goes, clientVars, linkVars
  <1>1. job \in [Workers -> Jobs] /\ pc \in [Workers -> Pcs]
    BY DEF TypeOK
  <1>2. /\ job'[w].kind = job[w].kind /\ job'[w].n = job[w].n
        /\ job'[w].tries = job[w].tries
    <2>1. CASE Send(w)
      <3>1. CASE job[w].goes
        <4>1. PICK v \in {0, socket} :
                job' = [job EXCEPT ![w].via = v, ![w].goes = FALSE]
          BY <2>1, <3>1 DEF Send
        <4> QED
          BY <1>1, <4>1 DEF Jobs
      <3>2. CASE ~job[w].goes
        BY <1>1, <2>1, <3>2 DEF Jobs, Send
      <3> QED
        BY <3>1, <3>2
    <2>2. CASE Lock(w)
      BY <1>1, <2>2 DEF Jobs, Lock
    <2>3. CASE Recv(w)
      BY <1>1, <2>3 DEF Jobs, Recv
    <2>4. CASE Scan(w)
      BY <1>1, <2>4 DEF Jobs, Scan
    <2>5. CASE EnterRecv(w)
      BY <1>1, <2>5 DEF Jobs, EnterRecv
    <2>6. CASE CheckConnected(w) \/ RecvFails(w)
      BY <2>6 DEF CheckConnected, RecvFails
    <2> QED
      BY <2>1, <2>2, <2>3, <2>4, <2>5, <2>6
  <1>3. UNCHANGED <<link, socket>>
    BY DEF Lock, Send, CheckConnected, EnterRecv, Recv, RecvFails, Scan
  <1> QED
    BY <1>1, <1>2, <1>3
    DEF Lock, Send, CheckConnected, EnterRecv, Recv, RecvFails, Scan

LEMMA LockStep ==
  ASSUME BaseInv, Next
  PROVE  LockInv'
  <1>1. TypeOK /\ LockInv /\ ConnectInv /\ LinkInv /\ CallInv
    BY DEF BaseInv
  <1> USE DEF Goes, Gets, clientVars, linkVars, workerVars
  <1>2. ASSUME NEW w \in Workers, Lock(w)
        PROVE  LockInv'
    <2>1. \A v \in Workers \ {w} : pc'[v] = pc[v] /\ job'[v].kind = job[v].kind
      BY <1>1, <1>2, StepIsOwn DEF Step
    <2>2. job'[w].kind = job[w].kind
      BY <1>1, <1>2, CommandKeepsJob DEF Commands
    <2> QED
      BY <1>1, <1>2, <2>1, <2>2, NobodyIsNone DEF Lock, TypeOK, LockInv
  <1>3. ASSUME NEW w \in Workers, Send(w)
        PROVE  LockInv'
    <2>1. \A v \in Workers \ {w} : pc'[v] = pc[v] /\ job'[v].kind = job[v].kind
      BY <1>1, <1>3, StepIsOwn DEF Step
    <2>2. job'[w].kind = job[w].kind
      BY <1>1, <1>3, CommandKeepsJob DEF Commands
    <2> QED
      BY <1>1, <1>3, <2>1, <2>2 DEF Send, TypeOK, LockInv
  <1>4. ASSUME NEW w \in Workers, CheckConnected(w)
        PROVE  LockInv'
    BY <1>1, <1>4 DEF CheckConnected, TypeOK, LockInv, Jobs, NoWait, NoJob
  <1>5. ASSUME NEW w \in Workers, EnterRecv(w)
        PROVE  LockInv'
    BY <1>1, <1>5 DEF EnterRecv, TypeOK, LockInv, Jobs, NoWait, NoJob
  <1>6. ASSUME NEW w \in Workers, Recv(w)
        PROVE  LockInv'
    BY <1>1, <1>6 DEF Recv, TypeOK, LockInv, Jobs, NoWait, NoJob
  <1>7. ASSUME NEW w \in Workers, RecvFails(w)
        PROVE  LockInv'
    BY <1>1, <1>7 DEF RecvFails, TypeOK, LockInv, Jobs, NoWait, NoJob
  <1>8. ASSUME NEW w \in Workers, Scan(w)
        PROVE  LockInv'
    <2>1. \A v \in Workers \ {w} : pc'[v] = pc[v] /\ job'[v].kind = job[v].kind
      BY <1>1, <1>8, StepIsOwn DEF Step
    <2>2. job'[w].kind = job[w].kind
      BY <1>1, <1>8, CommandKeepsJob DEF Commands
    <2> QED
      BY <1>1, <1>8, <2>1, <2>2 DEF Scan, TypeOK, LockInv
  <1>9. ASSUME NEW w \in Workers, CloseFlag(w)
        PROVE  LockInv'
    BY <1>1, <1>9 DEF CloseFlag, TypeOK, LockInv, Jobs, NoWait, NoJob
  <1>10. ASSUME NEW w \in Workers, Shutdown(w)
        PROVE  LockInv'
    BY <1>1, <1>10 DEF Shutdown, TypeOK, LockInv, Jobs, NoWait, NoJob
  <1>11. ASSUME NEW w \in Workers, Open(w)
        PROVE  LockInv'
    BY <1>1, <1>11 DEF Open, TypeOK, LockInv, Jobs, NoWait, NoJob
  <1>12. ASSUME NEW w \in Workers, Established(w)
        PROVE  LockInv'
    BY <1>1, <1>12 DEF Established, TypeOK, LockInv, Jobs, NoWait, NoJob
  <1>13. ASSUME NEW w \in Workers, ConnectFails(w)
        PROVE  LockInv'
    BY <1>1, <1>13 DEF ConnectFails, TypeOK, LockInv, Jobs, NoWait, NoJob
  <1>14. ASSUME NEW w \in Workers, Return(w)
        PROVE  LockInv'
    BY <1>1, <1>14 DEF Return, TypeOK, LockInv, Jobs, NoWait, NoJob
  <1>15. ASSUME NEW w \in Workers, NEW kind \in Requests, Begin(w, kind)
        PROVE  LockInv'
    BY <1>1, <1>15 DEF Begin, NoJob, TypeOK, LockInv, Jobs, NoWait, NoJob
  <1>16. ASSUME NEW s \in SocketNumbers, RtuAnswers(s)
        PROVE  LockInv'
    BY <1>1, <1>16 DEF RtuAnswers, TypeOK, LockInv, Jobs, NoWait, NoJob
  <1>17. ASSUME NEW s \in SocketNumbers, LinkFails(s)
        PROVE  LockInv'
    BY <1>1, <1>17 DEF LinkFails, TypeOK, LockInv, Jobs, NoWait, NoJob
  <1> QED
    BY <1>2, <1>3, <1>4, <1>5, <1>6, <1>7, <1>8, <1>9, <1>10, <1>11, <1>12,
       <1>13, <1>14, <1>15, <1>16, <1>17 DEF Next, Step, External


\* The steps of a command leave who makes connections.
LEMMA CommandConnects ==
  ASSUME TypeOK, ConnectInv, NEW w \in Workers, Commands(w)
  PROVE  ConnectInv'
  <1>1. \A v \in Workers \ {w} : pc'[v] = pc[v] /\ job'[v] = job[v]
    BY StepIsOwn DEF Commands, Step
  <1>2. /\ job'[w].kind = job[w].kind /\ UNCHANGED <<link, socket>>
        /\ pc[w] \in {"lock", "send", "check", "enter", "recv", "scan"}
        /\ pc'[w] \in {"send", "open", "check", "enter", "recv", "scan", "got"}
        /\ pc'[w] = "open" => job'[w].kind = "settings" /\ job'[w].tries = 0
    BY CommandKeepsJob DEF NoWait
  <1>3. is_connected' => is_connected
    BY DEF Commands, Lock, Send, CheckConnected, EnterRecv, Recv, RecvFails, Scan,
       clientVars
  <1>4. \A v, u \in Workers : Connects(v)' /\ Connects(u)' => v = u
    <2>1. \A v \in Workers : Connects(v)' => Connects(v)
      BY <1>1, <1>2 DEF Connects
    <2> QED
      BY <2>1 DEF ConnectInv
  <1>5. ASSUME NEW v \in Workers
        PROVE  /\ pc'[v] \in {"close", "shutdown"} => job'[v].kind = "connect"
               /\ pc'[v] \in {"open", "await"} => job'[v].kind \in {"connect", "settings"}
               /\ pc'[v] \in {"close", "shutdown", "open"} => job'[v].tries < 3
               /\ pc'[v] = "await" => link'[socket'] = "opening"
    <2>1. CASE v = w
      BY <1>2, <2>1
    <2>2. CASE v # w
      BY <1>1, <1>2, <2>2 DEF ConnectInv
    <2> QED
      BY <2>1, <2>2
  <1>6. \A v \in Workers : Closes(v)' => ~is_connected'
    <2>1. \A v \in Workers : Closes(v)' => Closes(v)
      BY <1>1, <1>2 DEF Closes
    <2> QED
      BY <1>3, <2>1 DEF ConnectInv
  <1> QED
    BY <1>4, <1>5, <1>6 DEF ConnectInv

LEMMA ConnectStep ==
  ASSUME BaseInv, Next
  PROVE  ConnectInv'
  <1>1. TypeOK /\ LockInv /\ ConnectInv /\ LinkInv /\ CallInv
    BY DEF BaseInv
  <1> USE DEF Goes, Gets, clientVars, linkVars, workerVars
  <1>2. ASSUME NEW w \in Workers, Commands(w)
        PROVE  ConnectInv'
    BY <1>1, <1>2, CommandConnects
  <1>3. ASSUME NEW w \in Workers, CloseFlag(w)
        PROVE  ConnectInv'
    BY <1>1, <1>3 DEF CloseFlag, TypeOK, ConnectInv, LinkInv, Connects, Closes,
       Jobs, NoJob
  <1>4. ASSUME NEW w \in Workers, Shutdown(w)
        PROVE  ConnectInv'
    BY <1>1, <1>4 DEF Shutdown, TypeOK, ConnectInv, LinkInv, Connects, Closes,
       Jobs, NoJob
  <1>5. ASSUME NEW w \in Workers, Open(w)
        PROVE  ConnectInv'
    <2>1. \A v \in Workers \ {w} : pc'[v] = pc[v] /\ job'[v] = job[v]
      BY <1>1, <1>5, StepIsOwn DEF Step
    <2>2. pc'[w] # "idle" => job'[w].kind = job[w].kind
      BY <1>1, <1>5 DEF Open, TypeOK, Jobs
    <2>3. \A v \in Workers : Connects(v)' => Connects(v)
      BY <1>1, <1>5, <2>1, <2>2 DEF Open, Connects, TypeOK
    <2>4. \A v \in Workers : Closes(v)' => Closes(v)
      BY <1>1, <1>5, <2>1, <2>2 DEF Open, Closes, TypeOK
    <2>5. \A v \in Workers : pc[v] = "await" => v = w
      BY <1>1, <1>5 DEF Open, ConnectInv, Connects
    <2>6. link'[socket'] = "opening"
      <3>1. NextSocket \in SocketNumbers /\ NextSocket # socket
        BY <1>1, <1>5, NextSocketIsUnused DEF Open, LinkInv
      <3> QED
        BY <1>1, <1>5, <3>1 DEF Open, TypeOK
    <2>7. pc'[w] = "await" /\ UNCHANGED is_connected
      BY <1>1, <1>5 DEF Open, TypeOK
    <2>8. pc[w] = "open"
      BY <1>5 DEF Open
    <2> QED
      BY <1>1, <2>1, <2>2, <2>3, <2>4, <2>5, <2>6, <2>7, <2>8 DEF ConnectInv
  <1>6. ASSUME NEW w \in Workers, Established(w)
        PROVE  ConnectInv'
    BY <1>1, <1>6 DEF Established, TypeOK, ConnectInv, LinkInv, Connects,
       Closes, Jobs, NoJob
  <1>7. ASSUME NEW w \in Workers, ConnectFails(w)
        PROVE  ConnectInv'
    <2>1. \A v \in Workers \ {w} : pc'[v] = pc[v] /\ job'[v] = job[v]
      BY <1>1, <1>7, StepIsOwn DEF Step
    <2>2. pc'[w] # "idle" => job'[w].kind = job[w].kind
      BY <1>1, <1>7 DEF ConnectFails, TypeOK, Jobs
    <2>3. \A v \in Workers : Connects(v)' => Connects(v)
      BY <1>1, <1>7, <2>1, <2>2 DEF ConnectFails, Connects, TypeOK
    <2>4. \A v \in Workers : Closes(v)' => Closes(v)
      BY <1>1, <1>7, <2>1, <2>2 DEF ConnectFails, Closes, TypeOK
    <2>5. \A v \in Workers : pc[v] = "await" => v = w
      BY <1>1, <1>7 DEF ConnectFails, ConnectInv, Connects
    <2> QED
      BY <1>1, <1>7, <2>1, <2>2, <2>3, <2>4, <2>5 DEF ConnectFails, ConnectInv,
         TypeOK
  <1>8. ASSUME NEW w \in Workers, Return(w)
        PROVE  ConnectInv'
    <2>1. \A v \in Workers \ {w} : pc'[v] = pc[v] /\ job'[v] = job[v]
      BY <1>1, <1>8, StepIsOwn DEF Step
    <2>2. pc'[w] # "idle" => job'[w].kind = job[w].kind
      BY <1>1, <1>8 DEF Return, TypeOK, Jobs
    <2>3. \A v \in Workers : Connects(v)' => Connects(v)
      BY <1>1, <1>8, <2>1, <2>2 DEF Return, Connects, TypeOK
    <2>4. \A v \in Workers : Closes(v)' => Closes(v)
      BY <1>1, <1>8, <2>1, <2>2 DEF Return, Closes, TypeOK
    <2> QED
      BY <1>1, <1>8, <2>1, <2>2, <2>3, <2>4 DEF Return, ConnectInv, TypeOK
  <1>9. ASSUME NEW w \in Workers, NEW kind \in Requests, Begin(w, kind)
        PROVE  ConnectInv'
    BY <1>1, <1>9 DEF Begin, NoJob, TypeOK, ConnectInv, LinkInv, Connects,
       Closes, Jobs, NoJob
  <1>10. ASSUME NEW s \in SocketNumbers, RtuAnswers(s)
        PROVE  ConnectInv'
    BY <1>1, <1>10 DEF RtuAnswers, TypeOK, ConnectInv, LinkInv, Connects,
       Closes, Jobs, NoJob
  <1>11. ASSUME NEW s \in SocketNumbers, LinkFails(s)
        PROVE  ConnectInv'
    BY <1>1, <1>11 DEF LinkFails, TypeOK, ConnectInv, LinkInv, Connects, Closes,
       Jobs, NoJob
  <1> QED
    BY <1>2, <1>3, <1>4, <1>5, <1>6, <1>7, <1>8, <1>9, <1>10, <1>11
    DEF Next, Step, Commands, External


LEMMA LinkStep ==
  ASSUME BaseInv, Next
  PROVE  LinkInv'
  <1>1. TypeOK /\ LockInv /\ ConnectInv /\ LinkInv /\ CallInv
    BY DEF BaseInv
  <1> USE DEF Goes, Gets, clientVars, linkVars, workerVars
  <1>2. ASSUME NEW w \in Workers, Lock(w)
        PROVE  LinkInv'
    BY <1>1, <1>2 DEF Lock, TypeOK, LinkInv, ConnectInv, Jobs
  <1>3. ASSUME NEW w \in Workers, Send(w)
        PROVE  LinkInv'
    BY <1>1, <1>3 DEF Send, TypeOK, LinkInv, ConnectInv, Jobs
  <1>4. ASSUME NEW w \in Workers, CheckConnected(w)
        PROVE  LinkInv'
    BY <1>1, <1>4 DEF CheckConnected, TypeOK, LinkInv, ConnectInv, Jobs
  <1>5. ASSUME NEW w \in Workers, EnterRecv(w)
        PROVE  LinkInv'
    BY <1>1, <1>5 DEF EnterRecv, TypeOK, LinkInv, ConnectInv, Jobs
  <1>6. ASSUME NEW w \in Workers, Recv(w)
        PROVE  LinkInv'
    BY <1>1, <1>6 DEF Recv, TypeOK, LinkInv, ConnectInv, Jobs
  <1>7. ASSUME NEW w \in Workers, RecvFails(w)
        PROVE  LinkInv'
    BY <1>1, <1>7 DEF RecvFails, TypeOK, LinkInv, ConnectInv, Jobs
  <1>8. ASSUME NEW w \in Workers, Scan(w)
        PROVE  LinkInv'
    BY <1>1, <1>8 DEF Scan, TypeOK, LinkInv, ConnectInv, Jobs
  <1>9. ASSUME NEW w \in Workers, CloseFlag(w)
        PROVE  LinkInv'
    BY <1>1, <1>9 DEF CloseFlag, TypeOK, LinkInv, ConnectInv, Jobs
  <1>10. ASSUME NEW w \in Workers, Shutdown(w)
        PROVE  LinkInv'
    BY <1>1, <1>10 DEF Shutdown, TypeOK, LinkInv, ConnectInv, Jobs
  <1>11. ASSUME NEW w \in Workers, Open(w)
        PROVE  LinkInv'
    <2>1. /\ NextSocket \in SocketNumbers /\ NextSocket # socket
          /\ link[NextSocket] = "unused" /\ socket' = NextSocket
      BY <1>1, <1>11, NextSocketIsUnused DEF Open, LinkInv
    <2>2. CASE IsRead(socket)
      BY <1>1, <1>11, <2>1, <2>2 DEF Open, TypeOK, LinkInv
    <2>3. CASE ~IsRead(socket)
      BY <1>1, <1>11, <2>1, <2>3 DEF Open, TypeOK, LinkInv
    <2> QED
      BY <2>2, <2>3
  <1>12. ASSUME NEW w \in Workers, Established(w)
        PROVE  LinkInv'
    BY <1>1, <1>12 DEF Established, TypeOK, LinkInv, ConnectInv, Jobs
  <1>13. ASSUME NEW w \in Workers, ConnectFails(w)
        PROVE  LinkInv'
    BY <1>1, <1>13 DEF ConnectFails, TypeOK, LinkInv, ConnectInv, Jobs
  <1>14. ASSUME NEW w \in Workers, Return(w)
        PROVE  LinkInv'
    BY <1>1, <1>14 DEF Return, TypeOK, LinkInv, ConnectInv, Jobs
  <1>15. ASSUME NEW w \in Workers, NEW kind \in Requests, Begin(w, kind)
        PROVE  LinkInv'
    BY <1>1, <1>15 DEF Begin, NoJob, TypeOK, LinkInv, ConnectInv, Jobs
  <1>16. ASSUME NEW s \in SocketNumbers, RtuAnswers(s)
        PROVE  LinkInv'
    BY <1>1, <1>16 DEF RtuAnswers, TypeOK, LinkInv, ConnectInv, Jobs
  <1>17. ASSUME NEW s \in SocketNumbers, LinkFails(s)
        PROVE  LinkInv'
    BY <1>1, <1>17 DEF LinkFails, TypeOK, LinkInv, ConnectInv, Jobs
  <1> QED
    BY <1>2, <1>3, <1>4, <1>5, <1>6, <1>7, <1>8, <1>9, <1>10, <1>11, <1>12,
       <1>13, <1>14, <1>15, <1>16, <1>17 DEF Next, Step, External


LEMMA CallStep ==
  ASSUME BaseInv, Next
  PROVE  CallInv'
  <1>1. TypeOK /\ LockInv /\ ConnectInv /\ LinkInv /\ CallInv
    BY DEF BaseInv
  <1> USE DEF Goes, Gets, clientVars, linkVars, workerVars
  <1>2. ASSUME NEW w \in Workers, Lock(w)
        PROVE  CallInv'
    BY <1>1, <1>2 DEF Lock, TypeOK, CallInv, Jobs
  <1>3. ASSUME NEW w \in Workers, Send(w)
        PROVE  CallInv'
    BY <1>1, <1>3 DEF Send, TypeOK, CallInv, Jobs
  <1>4. ASSUME NEW w \in Workers, CheckConnected(w)
        PROVE  CallInv'
    BY <1>1, <1>4 DEF CheckConnected, TypeOK, CallInv, Jobs
  <1>5. ASSUME NEW w \in Workers, EnterRecv(w)
        PROVE  CallInv'
    BY <1>1, <1>5 DEF EnterRecv, TypeOK, CallInv, Jobs
  <1>6. ASSUME NEW w \in Workers, Recv(w)
        PROVE  CallInv'
    <2>1. PICK k \in 1 .. Len(fromRtu[job[w].at]) :
            /\ buf' = SubSeq(fromRtu[job[w].at], 1, k) \o Behind(buf, k)
            /\ job' = [job EXCEPT ![w].count = k]
      BY <1>6 DEF Recv
    <2>2. k \in Nat /\ k <= Len(buf') /\ Len(buf) <= Len(buf')
      <3>1. /\ fromRtu[job[w].at] \in Stream /\ buf \in Stream
            /\ Len(fromRtu[job[w].at]) \in Nat /\ Len(buf) \in Nat
        BY <1>1, <1>6, LenProperties DEF Recv, TypeOK, CallInv, Stream
      <3>2. k \in 0 .. Len(fromRtu[job[w].at]) /\ k \in Nat
        BY <2>1, <3>1
      <3>3. /\ SubSeq(fromRtu[job[w].at], 1, k) \in Stream
            /\ Len(SubSeq(fromRtu[job[w].at], 1, k)) = k
        <4>1. k \in 0 .. Len(fromRtu[job[w].at]) /\ fromRtu[job[w].at] \in Stream
          BY <3>1, <3>2
        <4> QED
          BY <4>1, CutToCount
      <3>4. /\ Behind(buf, k) \in Stream /\ Len(Behind(buf, k)) \in Nat
            /\ Len(buf) <= k + Len(Behind(buf, k))
        <4>1. Behind(buf, k) \in Stream
          BY <3>1, <3>2, BehindType
        <4>2. Len(Behind(buf, k)) \in Nat
          BY <4>1, LenProperties DEF Stream
        <4>3. k <= Len(buf) => Len(Behind(buf, k)) = Len(buf) - k
          BY <3>1, <3>2, CutProperties DEF Behind, Stream
        <4> QED
          BY <3>1, <3>2, <4>1, <4>2, <4>3
      <3>5. Len(buf') = k + Len(Behind(buf, k))
        BY <2>1, <3>3, <3>4, ConcatProperties DEF Stream
      <3> QED
        BY <3>1, <3>2, <3>4, <3>5
    <2>3. \A v \in Workers \ {w} : job'[v] = job[v]
      BY <2>1
    <2>4. job'[w].count = k /\ job'[w].at = job[w].at
      BY <1>1, <2>1 DEF TypeOK, Jobs
    <2>5. Len(buf) \in Nat /\ Len(buf') \in Nat /\ \A v \in Workers : job[v].count \in Nat
      <3>1. buf' \in Stream
        BY TypeStep DEF TypeOK
      <3> QED
        BY <1>1, <3>1, LenProperties DEF TypeOK, Jobs, Stream
    <2> QED
      BY <1>1, <1>6, <2>2, <2>3, <2>4, <2>5 DEF Recv, TypeOK, CallInv
  <1>7. ASSUME NEW w \in Workers, RecvFails(w)
        PROVE  CallInv'
    BY <1>1, <1>7 DEF RecvFails, TypeOK, CallInv, Jobs
  <1>8. ASSUME NEW w \in Workers, Scan(w)
        PROVE  CallInv'
    BY <1>1, <1>8 DEF Scan, TypeOK, CallInv, Jobs
  <1>9. ASSUME NEW w \in Workers, CloseFlag(w)
        PROVE  CallInv'
    BY <1>1, <1>9 DEF CloseFlag, TypeOK, CallInv, Jobs
  <1>10. ASSUME NEW w \in Workers, Shutdown(w)
        PROVE  CallInv'
    BY <1>1, <1>10 DEF Shutdown, TypeOK, CallInv, Jobs
  <1>11. ASSUME NEW w \in Workers, Open(w)
        PROVE  CallInv'
    BY <1>1, <1>11 DEF Open, TypeOK, CallInv, Jobs
  <1>12. ASSUME NEW w \in Workers, Established(w)
        PROVE  CallInv'
    BY <1>1, <1>12 DEF Established, TypeOK, CallInv, Jobs
  <1>13. ASSUME NEW w \in Workers, ConnectFails(w)
        PROVE  CallInv'
    BY <1>1, <1>13 DEF ConnectFails, TypeOK, CallInv, Jobs
  <1>14. ASSUME NEW w \in Workers, Return(w)
        PROVE  CallInv'
    BY <1>1, <1>14 DEF Return, TypeOK, CallInv, Jobs
  <1>15. ASSUME NEW w \in Workers, NEW kind \in Requests, Begin(w, kind)
        PROVE  CallInv'
    BY <1>1, <1>15 DEF Begin, NoJob, TypeOK, CallInv, Jobs
  <1>16. ASSUME NEW s \in SocketNumbers, RtuAnswers(s)
        PROVE  CallInv'
    BY <1>1, <1>16 DEF RtuAnswers, TypeOK, CallInv, Jobs
  <1>17. ASSUME NEW s \in SocketNumbers, LinkFails(s)
        PROVE  CallInv'
    BY <1>1, <1>17 DEF LinkFails, TypeOK, CallInv, Jobs
  <1> QED
    BY <1>2, <1>3, <1>4, <1>5, <1>6, <1>7, <1>8, <1>9, <1>10, <1>11, <1>12,
       <1>13, <1>14, <1>15, <1>16, <1>17 DEF Next, Step, External

-----------------------------------------------------------------------------
(* What is in the sockets and in the buffers                               *)

\* A step of a thread that has no command out leaves the answer of the others
\* where it is, as long as what the sockets carry still follows.
LEMMA Undisturbed ==
  ASSUME TypeOK, CallInv, FrameInv,
         UNCHANGED <<socket, buf, leftover_buffer>>,
         \A v \in Workers : Out(v)' <=> Out(v),
         \A v \in Workers :
           Out(v) => /\ pc'[v] = pc[v] /\ response'[v] = response[v]
                     /\ job'[v].n = job[v].n /\ job'[v].at = job[v].at
                     /\ job'[v].count = job[v].count,
         \A s \in SocketNumbers : Quiet(s) => Quiet(s)',
         \A v \in Workers : \A s \in SocketNumbers :
           Out(v) /\ Brings(v, s) => Brings(v, s)',
         \A v \in Workers : Closes(v) => Closes(v)',
         \A v \in Workers : Replaces(v) => Replaces(v)'
  PROVE  OneIsOut' /\ BuffersInv' /\ PartsFollow' /\ SocketIsQuiet'
  <1>1. socket \in SocketNumbers
    BY DEF TypeOK
  <1>2. \A v \in Workers : Reads(v)' <=> Reads(v)
    BY DEF Reads, Out
  <1>3. \A v \in Workers : Reads(v) => Out(v)
    BY DEF Reads, Out
  <1>4. \A v \in Workers : Out(v) => ReadsFrom(v)' = ReadsFrom(v)
    BY DEF ReadsFrom
  <1>5. \A v \in Workers : Reads(v) => ReadsFrom(v) \in SocketNumbers
    BY <1>1 DEF ReadsFrom, Reads, CallInv
  <1>6. OneIsOut'
    BY DEF FrameInv, OneIsOut
  <1>7. BuffersInv'
    <2>1. \A v \in Workers : pc'[v] = "scan" <=> pc[v] = "scan"
      BY DEF Out
    <2> QED
      BY <2>1 DEF FrameInv, BuffersInv, Out
  <1>8. PartsFollow'
    BY <1>2, <1>3, <1>4, <1>5 DEF FrameInv, PartsFollow
  <1>9. SocketIsQuiet'
    <2>1. CASE Quiet(socket)
      BY <1>1, <2>1 DEF SocketIsQuiet
    <2>2. CASE \E w \in Workers : Out(w) /\ ReadsFrom(w) = socket /\ Brings(w, socket)
      <3>1. PICK w \in Workers : Out(w) /\ ReadsFrom(w) = socket /\ Brings(w, socket)
        BY <2>2
      <3>2. Out(w)' /\ ReadsFrom(w)' = socket' /\ Brings(w, socket)'
        BY <1>1, <1>4, <3>1
      <3> QED
        BY <3>2 DEF SocketIsQuiet
    <2>3. CASE NobodyReads /\ \E w \in Workers : Closes(w)
      BY <1>2, <2>3 DEF SocketIsQuiet, NobodyReads
    <2>4. CASE NobodyIsOut /\ \E w \in Workers : Replaces(w)
      BY <2>4 DEF SocketIsQuiet, NobodyIsOut
    <2> QED
      BY <2>1, <2>2, <2>3, <2>4 DEF FrameInv, SocketIsQuiet
  <1> QED
    BY <1>6, <1>7, <1>8, <1>9

\* The same when the sockets are left alone.
LEMMA SocketsUntouched ==
  ASSUME TypeOK, CallInv, FrameInv, NEW w \in Workers, ~Out(w), ~Out(w)',
         UNCHANGED <<socket, buf, leftover_buffer, fromRtu, toRtu>>,
         \A v \in Workers \ {w} :
           pc'[v] = pc[v] /\ job'[v] = job[v] /\ response'[v] = response[v],
         Closes(w) => Closes(w)', Replaces(w) => Replaces(w)'
  PROVE  OneIsOut' /\ BuffersInv' /\ PartsFollow' /\ SocketIsQuiet'
  <1>1. \A v \in Workers : Out(v)' <=> Out(v)
    BY DEF Out
  <1>2. \A v \in Workers : Out(v) => v # w
    OBVIOUS
  <1>3. \A v \in Workers :
          Out(v) => /\ pc'[v] = pc[v] /\ response'[v] = response[v]
                    /\ job'[v].n = job[v].n /\ job'[v].at = job[v].at
                    /\ job'[v].count = job[v].count
    BY <1>2
  <1>4. \A s \in SocketNumbers : Quiet(s) => Quiet(s)'
    BY DEF Quiet
  <1>5. \A v \in Workers : \A s \in SocketNumbers :
          Out(v) /\ Brings(v, s) => Brings(v, s)'
    BY <1>2 DEF Brings, Quiet, Taken
  <1>6. \A v \in Workers : /\ Closes(v) => Closes(v)'
                           /\ Replaces(v) => Replaces(v)'
    BY DEF Closes, Replaces
  <1> QED
    BY <1>1, <1>3, <1>4, <1>5, <1>6, Undisturbed

\* Connections that end lose what they carry, or the end of it.
LEMMA LinksOnly ==
  ASSUME TypeOK, CallInv, FrameInv,
         UNCHANGED <<socket, buf, leftover_buffer, workerVars>>,
         \A s \in SocketNumbers : Quiet(s) => Quiet(s)',
         \A v \in Workers : \A s \in SocketNumbers :
           Out(v) /\ Brings(v, s) => Brings(v, s)'
  PROVE  OneIsOut' /\ BuffersInv' /\ PartsFollow' /\ SocketIsQuiet'
  <1>1. \A v \in Workers : Out(v)' <=> Out(v)
    BY DEF Out, workerVars
  <1>2. \A v \in Workers :
          Out(v) => /\ pc'[v] = pc[v] /\ response'[v] = response[v]
                    /\ job'[v].n = job[v].n /\ job'[v].at = job[v].at
                    /\ job'[v].count = job[v].count
    BY DEF workerVars
  <1>3. \A v \in Workers : /\ Closes(v) => Closes(v)'
                           /\ Replaces(v) => Replaces(v)'
    BY DEF Closes, Replaces, workerVars
  <1> QED
    BY <1>1, <1>2, <1>3, Undisturbed

\* What a thread has taken is a number of pieces.
LEMMA TakenIsNat ==
  ASSUME TypeOK, NEW w \in Workers
  PROVE  /\ Taken(w) \in Nat /\ job[w].n \in Nat
         /\ Len(response[w]) \in Nat /\ Len(buf) \in Nat
  <1>1. Len(response[w]) \in Nat /\ Len(buf) \in Nat
    BY LenProperties DEF TypeOK, Stream
  <1> QED
    BY <1>1 DEF Taken, TypeOK, Jobs

\* A command that shares the connection with none goes out when nobody waits
\* for an answer.
LEMMA SendsAlone ==
  ASSUME LockInv, ~shared', NEW w \in Workers, Send(w)
  PROVE  \A v \in Workers : ~Busy(v)
  <1> SUFFICES ASSUME NEW v \in Workers, Busy(v)
               PROVE  FALSE
    OBVIOUS
  <1>1. v # w
    BY DEF Busy, Out, Send, Goes
  <1>2. job[v].kind = "raw" /\ job[w].kind = "raw"
    BY <1>1 DEF Send
  <1>3. rtu_mutex = v /\ rtu_mutex = w
    BY <1>2 DEF Busy, Out, LockInv, Send, Goes
  <1> QED
    BY <1>1, <1>3

LEMMA SendStep ==
  ASSUME BaseInv, FrameInv, ~shared', NEW w \in Workers, Send(w)
  PROVE  FrameInv'
  <1>1. TypeOK /\ LockInv /\ ConnectInv /\ LinkInv /\ CallInv
    BY DEF BaseInv
  <1>2. \A v \in Workers \ {w} :
          pc'[v] = pc[v] /\ job'[v] = job[v] /\ response'[v] = response[v]
    BY <1>1, StepIsOwn DEF Step
  <1>3. /\ job'[w].kind = job[w].kind /\ job'[w].n = job[w].n
        /\ UNCHANGED <<link, socket, buf, leftover_buffer, fromRtu, response>>
        /\ pc[w] = "send" /\ pc'[w] \in {"open", "check"}
        /\ pc'[w] = "open" => job[w].kind = "settings"
    BY <1>1, CommandKeepsJob DEF Commands, Send, Goes, TypeOK, NoWait
  <1>4. \A v \in Workers : ~Busy(v)
    BY <1>1, SendsAlone
  <1>5. NobodyIsOut /\ \A v \in Workers : ~Replaces(v)
    BY <1>4 DEF Busy, NobodyIsOut, Replaces
  <1>6. /\ leftover_buffer = <<>> /\ buf = <<>> /\ response[w] = <<>>
    BY <1>1, <1>3, <1>5 DEF FrameInv, BuffersInv, NobodyIsOut, Out, CallInv
  <1>7. Quiet(socket) \/ \E v \in Workers : Closes(v)
    BY <1>5 DEF FrameInv, SocketIsQuiet, NobodyIsOut
  <1>8. NobodyReads' /\ \A v \in Workers : Closes(v) => Closes(v)'
    BY <1>2, <1>3, <1>5 DEF NobodyIsOut, NobodyReads, Reads, Out, Closes
  <1>9. OneIsOut' /\ BuffersInv' /\ PartsFollow'
    <2>1. \A v \in Workers : Out(v)' => v = w
      BY <1>2, <1>5 DEF NobodyIsOut, Out
    <2>2. \A v \in Workers : pc'[v] # "scan"
      BY <1>8 DEF NobodyReads, Reads
    <2> QED
      BY <1>3, <1>6, <1>8, <2>1, <2>2 DEF OneIsOut, BuffersInv, PartsFollow,
         NobodyReads
  <1>10. \/ UNCHANGED toRtu
         \/ /\ link[socket] = "up" /\ job'[w].via = socket
            /\ toRtu' = [toRtu EXCEPT ![socket] = Append(@, job[w].n)]
            /\ job[w].goes /\ UNCHANGED is_connected
    <2>1. CASE job[w].goes
      <3>1. PICK sent \in BOOLEAN :
              /\ job' = [job EXCEPT ![w].via = IF sent THEN socket ELSE 0,
                                    ![w].goes = FALSE]
              /\ is_connected' = (is_connected /\ sent)
              /\ toRtu' = IF sent /\ link[socket] = "up"
                          THEN [toRtu EXCEPT ![socket] = Append(@, job[w].n)]
                          ELSE toRtu
        <4>1. Sendable(socket) \subseteq BOOLEAN
          BY DEF Sendable
        <4> QED
          BY <2>1, <4>1 DEF Send
      <3>2. CASE sent /\ link[socket] = "up"
        <4>1. is_connected' = is_connected
          BY <1>1, <3>1, <3>2 DEF TypeOK
        <4>2. job'[w].via = socket
          BY <1>1, <3>1, <3>2 DEF TypeOK, Jobs
        <4> QED
          BY <2>1, <3>1, <3>2, <4>1, <4>2
      <3>3. CASE ~(sent /\ link[socket] = "up")
        BY <3>1, <3>3
      <3> QED
        BY <3>2, <3>3
    <2>2. CASE ~job[w].goes
      BY <2>2 DEF Send
    <2> QED
      BY <2>1, <2>2
  <1>11. SocketIsQuiet'
    <2>1. CASE \E v \in Workers : Closes(v)
      BY <1>8, <2>1 DEF SocketIsQuiet
    <2>2. CASE Quiet(socket) /\ UNCHANGED toRtu
      BY <1>3, <2>2 DEF SocketIsQuiet, Quiet
    <2>3. CASE Quiet(socket) /\ ~UNCHANGED toRtu
      <3>1. toRtu'[socket] = <<job[w].n>> /\ fromRtu'[socket] = <<>>
        BY <1>1, <1>3, <1>10, <2>3 DEF Quiet, TypeOK
      <3>2. CASE pc'[w] = "open"
        <4>1. Replaces(w)' /\ NobodyIsOut'
          BY <1>2, <1>3, <1>5, <3>2 DEF Replaces, NobodyIsOut, Out
        <4> QED
          BY <4>1 DEF SocketIsQuiet
      <3>3. CASE pc'[w] = "check"
        <4>1. Out(w)' /\ ReadsFrom(w)' = socket'
          BY <3>3 DEF Out, ReadsFrom
        <4>2. Taken(w)' = 0
          BY <1>3, <1>6 DEF Taken
        <4>3. AnswerPart(<<>>, job[w].n, 0)
          BY PiecesPositive, EmptyPart
        <4>4. Brings(w, socket)'
          BY <1>3, <1>10, <2>3, <3>1, <4>2, <4>3 DEF Brings
        <4> QED
          BY <4>1, <4>4 DEF SocketIsQuiet
      <3> QED
        BY <1>3, <3>2, <3>3
    <2> QED
      BY <1>7, <2>1, <2>2, <2>3
  <1>12. NotConnected'
    <2> SUFFICES ASSUME ~is_connected', \A v \in Workers : ~Closes(v)'
                 PROVE  Quiet(socket)' /\ link'[socket'] # "up"
      BY DEF NotConnected
    <2>1. Quiet(socket) /\ \A v \in Workers : ~Closes(v)
      BY <1>7, <1>8
    <2>2. CASE is_connected
      <3>1. job[w].goes
        BY <2>2 DEF Send
      <3>2. PICK sent \in Sendable(socket) :
              /\ is_connected' = (is_connected /\ sent)
              /\ toRtu' = IF sent /\ link[socket] = "up"
                          THEN [toRtu EXCEPT ![socket] = Append(@, job[w].n)]
                          ELSE toRtu
        BY <3>1 DEF Send
      <3>3. ~sent /\ link[socket] # "up"
        BY <2>2, <3>2 DEF Sendable
      <3> QED
        BY <1>3, <2>1, <3>2, <3>3 DEF Quiet
    <2>3. CASE ~is_connected
      <3>1. link[socket] # "up"
        BY <2>1, <2>3 DEF FrameInv, NotConnected
      <3> QED
        BY <1>3, <1>10, <2>1, <3>1 DEF Quiet
    <2> QED
      BY <2>2, <2>3
  <1>13. OwnAnswers'
    BY <1>2, <1>3 DEF FrameInv, OwnAnswers
  <1> QED
    BY <1>9, <1>11, <1>12, <1>13 DEF FrameInv

\* When a command is out and another socket is current than the one its
\* thread reads, the current one is quiet.
LEMMA OnlyReaderOfSocket ==
  ASSUME FrameInv, NEW w \in Workers, Reads(w), ReadsFrom(w) # socket
  PROVE  Quiet(socket)
  <1>1. Out(w) /\ ~NobodyReads /\ ~NobodyIsOut
    BY DEF Reads, Out, NobodyReads, NobodyIsOut
  <1>2. \A v \in Workers : Out(v) => v = w
    BY <1>1 DEF FrameInv, OneIsOut
  <1> QED
    BY <1>1, <1>2 DEF FrameInv, SocketIsQuiet

LEMMA CheckStep ==
  ASSUME BaseInv, FrameInv, NEW w \in Workers, CheckConnected(w)
  PROVE  FrameInv'
  <1>1. TypeOK /\ ConnectInv /\ CallInv /\ TypeOK'
    <2>1. Next
      BY DEF Next, Step
    <2> QED
      BY <2>1, TypeStep DEF BaseInv
  <1>2. \A v \in Workers \ {w} :
          pc'[v] = pc[v] /\ job'[v] = job[v] /\ response'[v] = response[v]
    BY <1>1, StepIsOwn DEF Step
  <1>3. /\ pc[w] = "check" /\ UNCHANGED <<socket, is_connected, buf, linkVars, job>>
        /\ UNCHANGED <<link, toRtu, fromRtu>>
    BY DEF CheckConnected, Goes, linkVars
  <1>4. \A v \in Workers \ {w} : ~Out(v)
    BY <1>3 DEF FrameInv, OneIsOut, Out
  <1>5. leftover_buffer = <<>> /\ buf = <<>> /\ response[w] = <<>>
    BY <1>1, <1>3, <1>4 DEF FrameInv, BuffersInv, Out, CallInv
  <1>6. leftover_buffer' = <<>> /\ response'[w] = <<>>
        /\ \/ ~is_connected /\ pc'[w] = "got"
           \/ is_connected /\ pc'[w] = "enter"
    <2>1. Ends(leftover_buffer) = {}
      BY <1>5 DEF Ends
    <2> QED
      BY <1>1, <1>5, <2>1 DEF CheckConnected, Goes, Gets, TypeOK
  <1>7. \A v \in Workers : Closes(v)' <=> Closes(v)
    BY <1>2, <1>3, <1>6 DEF Closes
  <1>8. OneIsOut' /\ BuffersInv'
    <2>1. \A v \in Workers : Out(v)' => v = w
      BY <1>2, <1>4 DEF Out
    <2>2. \A v \in Workers : pc'[v] # "scan"
      BY <1>2, <1>4, <1>6 DEF Out
    <2> QED
      BY <1>3, <1>5, <1>6, <2>1, <2>2 DEF OneIsOut, BuffersInv
  <1>9. NotConnected' /\ OwnAnswers'
    BY <1>2, <1>3, <1>6, <1>7 DEF FrameInv, NotConnected, OwnAnswers, Quiet
  <1>10. CASE ~is_connected
    <2>1. NobodyReads'
      BY <1>2, <1>4, <1>6, <1>10 DEF NobodyReads, Reads, Out
    <2>2. PartsFollow'
      BY <2>1 DEF PartsFollow, NobodyReads
    <2>3. SocketIsQuiet'
      <3>1. Quiet(socket) \/ \E v \in Workers : Closes(v)
        BY <1>10 DEF FrameInv, NotConnected
      <3> QED
        BY <1>3, <1>7, <2>1, <3>1 DEF SocketIsQuiet, Quiet
    <2> QED
      BY <1>8, <1>9, <2>2, <2>3 DEF FrameInv
  <1>11. CASE is_connected
    <2>1. Brings(w, socket) /\ ReadsFrom(w) = socket /\ Out(w)
      <3>1. \A v \in Workers : ~Closes(v)
        BY <1>1, <1>11 DEF ConnectInv
      <3>2. Out(w) /\ ReadsFrom(w) = socket
        BY <1>3 DEF Out, ReadsFrom
      <3>3. Quiet(socket) => Brings(w, socket)
        BY DEF Brings
      <3> QED
        BY <1>4, <3>1, <3>2, <3>3 DEF FrameInv, SocketIsQuiet, NobodyIsOut
    <2>2. pc'[w] = "enter"
      BY <1>6, <1>11
    <2>3. Brings(w, socket)' /\ ReadsFrom(w)' = socket' /\ Out(w)' /\ Reads(w)'
      BY <1>3, <1>5, <1>6, <2>1, <2>2
      DEF Brings, Quiet, Taken, ReadsFrom, Out, Reads
    <2>4. SocketIsQuiet'
      BY <2>3 DEF SocketIsQuiet
    <2>5. AnswerPart(<<>>, job[w].n, 0)
      BY PiecesPositive, EmptyPart
    <2>6. PartsFollow'
      <3>1. \A v \in Workers : Reads(v)' => v = w
        BY <1>2, <1>4 DEF Reads, Out
      <3>2. /\ AnswerPart(response'[w], job'[w].n, 0)
            /\ AnswerPart(buf', job'[w].n, Len(response'[w]))
        BY <1>3, <1>5, <1>6, <2>5
      <3>3. Brings(w, ReadsFrom(w))'
        BY <2>3
      <3> QED
        BY <3>1, <3>2, <3>3 DEF PartsFollow
    <2> QED
      BY <1>8, <1>9, <2>4, <2>6 DEF FrameInv
  <1> QED
    BY <1>10, <1>11

LEMMA EnterStep ==
  ASSUME BaseInv, FrameInv, NEW w \in Workers, EnterRecv(w)
  PROVE  FrameInv'
  <1>1. TypeOK
    BY DEF BaseInv
  <1>2. \A v \in Workers \ {w} :
          pc'[v] = pc[v] /\ job'[v] = job[v] /\ response'[v] = response[v]
    BY <1>1, StepIsOwn DEF Step
  <1>3. /\ pc[w] = "enter" /\ pc'[w] = "recv"
        /\ UNCHANGED <<socket, is_connected, leftover_buffer, buf, link, toRtu,
                       fromRtu, response>>
        /\ job'[w].at = socket /\ job'[w].n = job[w].n /\ job'[w].via = job[w].via
        /\ job'[w].kind = job[w].kind
    BY <1>1 DEF EnterRecv, Goes, TypeOK, Jobs, clientVars, linkVars
  <1>4. Out(w) /\ \A v \in Workers \ {w} : ~Out(v)
    BY <1>3 DEF FrameInv, OneIsOut, Out
  <1>5. \A v \in Workers : Out(v)' <=> Out(v)
    BY <1>2, <1>3 DEF Out
  <1>6. \A v \in Workers : Closes(v)' <=> Closes(v)
    BY <1>2, <1>3 DEF Closes
  <1>7. OneIsOut' /\ BuffersInv'
    <2>1. \A v \in Workers : pc'[v] # "scan" /\ pc[v] # "scan"
      BY <1>2, <1>3, <1>4 DEF Out
    <2> QED
      BY <1>3, <1>5, <2>1 DEF FrameInv, OneIsOut, BuffersInv
  <1>8. NotConnected' /\ OwnAnswers'
    BY <1>2, <1>3, <1>6 DEF FrameInv, NotConnected, OwnAnswers, Quiet
  <1>9. /\ Reads(w) /\ ReadsFrom(w) = socket
        /\ Reads(w)' /\ ReadsFrom(w)' = socket
    BY <1>3 DEF Reads, ReadsFrom
  <1>10. /\ Brings(w, socket) /\ AnswerPart(response[w], job[w].n, 0)
         /\ AnswerPart(buf, job[w].n, Len(response[w]))
    BY <1>9 DEF FrameInv, PartsFollow
  <1>11. Brings(w, socket)'
    BY <1>3, <1>10 DEF Brings, Quiet, Taken
  <1>12. PartsFollow'
    <2>1. \A v \in Workers : Reads(v)' => v = w
      BY <1>2, <1>4 DEF Reads, Out
    <2>2. Brings(w, ReadsFrom(w))'
      BY <1>3, <1>9, <1>11
    <2> QED
      BY <1>3, <1>10, <2>1, <2>2 DEF PartsFollow
  <1>13. SocketIsQuiet'
    BY <1>3, <1>4, <1>5, <1>9, <1>11 DEF SocketIsQuiet
  <1> QED
    BY <1>7, <1>8, <1>12, <1>13 DEF FrameInv

LEMMA RecvStep ==
  ASSUME BaseInv, FrameInv, NEW w \in Workers, Recv(w)
  PROVE  FrameInv'
  <1> DEFINE s == job[w].at
             n == job[w].n
  <1>1. TypeOK /\ CallInv
    BY DEF BaseInv
  <1>2. \A v \in Workers \ {w} :
          pc'[v] = pc[v] /\ job'[v] = job[v] /\ response'[v] = response[v]
    BY <1>1, StepIsOwn DEF Step
  <1>3. /\ pc[w] = "recv" /\ pc'[w] = "scan"
        /\ UNCHANGED <<socket, is_connected, leftover_buffer, link, toRtu, response>>
    BY <1>1 DEF Recv, Goes, TypeOK
  <1>4. Out(w) /\ \A v \in Workers \ {w} : ~Out(v)
    BY <1>3 DEF FrameInv, OneIsOut, Out
  <1>5. buf = <<>>
    BY <1>3, <1>4 DEF FrameInv, BuffersInv, Out
  <1>6. PICK k \in 1 .. Len(fromRtu[s]) :
          /\ buf' = SubSeq(fromRtu[s], 1, k) \o Behind(buf, k)
          /\ fromRtu' = [fromRtu EXCEPT ![s] = Behind(@, k)]
          /\ job' = [job EXCEPT ![w].count = k]
    BY DEF Recv
  <1>7. /\ job'[w].at = s /\ job'[w].n = n /\ job'[w].via = job[w].via
        /\ job'[w].kind = job[w].kind /\ job'[w].count = k
    BY <1>1, <1>6 DEF TypeOK, Jobs
  <1>8. /\ s \in SocketNumbers /\ fromRtu[s] \in Stream /\ Len(fromRtu[s]) \in Nat
    BY <1>1, <1>3, LenProperties DEF TypeOK, CallInv, Stream
  <1>9. k \in 0 .. Len(fromRtu[s]) /\ k \in Nat /\ k # 0
    BY <1>6, <1>8
  <1>10. Reads(w) /\ ReadsFrom(w) = s
    BY <1>3 DEF Reads, ReadsFrom
  <1>11. fromRtu[s] # <<>>
    BY <1>6
  <1>12. /\ AnswerPart(response[w], n, 0)
         /\ job[w].via = s /\ toRtu[s] = <<>>
         /\ AnswerPart(fromRtu[s], n, Taken(w))
    BY <1>10, <1>11 DEF FrameInv, PartsFollow, Brings, Quiet
  <1>13. Taken(w) = Len(response[w]) /\ Taken(w) \in Nat
    <2>1. Len(buf) = 0
      BY <1>5
    <2> QED
      BY <1>1, <2>1, TakenIsNat DEF Taken
  <1>14. buf' = SubSeq(fromRtu[s], 1, k)
    <2>1. Behind(<<>>, k) = <<>>
      BY <1>9 DEF Behind
    <2>2. SubSeq(fromRtu[s], 1, k) \in Stream
      BY <1>8, <1>9, CutToCount
    <2>3. SubSeq(fromRtu[s], 1, k) \o <<>> = SubSeq(fromRtu[s], 1, k)
      BY <2>2, ConcatEmptySeq DEF Stream
    <2> QED
      BY <1>5, <1>6, <2>1, <2>3
  <1>15. /\ Len(buf') = k
         /\ AnswerPart(buf', n, Len(response[w]))
         /\ AnswerPart(Behind(fromRtu[s], k), n, Taken(w) + k)
    BY <1>8, <1>9, <1>12, <1>13, <1>14, PartIsCut
  <1>16. Taken(w)' = Taken(w) + k
    BY <1>3, <1>13, <1>15 DEF Taken
  <1>17. Brings(w, s)'
    <2>1. fromRtu'[s] = Behind(fromRtu[s], k)
      BY <1>1, <1>6, <1>8 DEF TypeOK
    <2>2. AnswerPart(fromRtu'[s], n, Taken(w)')
      BY <1>15, <1>16, <2>1
    <2>3. job'[w].via = s /\ toRtu'[s] = <<>>
      BY <1>3, <1>7, <1>12
    <2> QED
      BY <1>7, <2>2, <2>3 DEF Brings
  <1>18. OneIsOut' /\ BuffersInv'
    <2>1. \A v \in Workers : Out(v)' => v = w
      BY <1>2, <1>4 DEF Out
    <2>2. \A v \in Workers : pc'[v] = "scan" => v = w
      BY <1>2, <1>4 DEF Out
    <2> QED
      BY <1>3, <1>7, <1>15, <2>1, <2>2 DEF FrameInv, OneIsOut, BuffersInv
  <1>19. PartsFollow'
    <2>1. \A v \in Workers : Reads(v)' => v = w
      BY <1>2, <1>4 DEF Reads, Out
    <2>2. ReadsFrom(w)' = s
      BY <1>3, <1>7 DEF ReadsFrom
    <2>3. Brings(w, ReadsFrom(w))'
      BY <1>7, <1>17, <2>2
    <2> QED
      BY <1>3, <1>7, <1>12, <1>15, <2>1, <2>3 DEF PartsFollow
  <1>20. Quiet(socket) => Quiet(socket)'
    <2>1. Quiet(socket) => s # socket
      BY <1>11 DEF Quiet
    <2> QED
      BY <1>1, <1>3, <1>6, <2>1 DEF Quiet, TypeOK
  <1>21. SocketIsQuiet'
    <2>1. CASE s = socket
      <3>1. Out(w)' /\ ReadsFrom(w)' = socket' /\ Brings(w, socket)'
        BY <1>3, <1>7, <1>17, <2>1 DEF Out, ReadsFrom
      <3> QED
        BY <3>1 DEF SocketIsQuiet
    <2>2. CASE s # socket
      BY <1>10, <1>20, <2>2, OnlyReaderOfSocket DEF SocketIsQuiet
    <2> QED
      BY <2>1, <2>2
  <1>22. NotConnected' /\ OwnAnswers'
    <2>1. \A v \in Workers : Closes(v)' <=> Closes(v)
      BY <1>2, <1>3 DEF Closes
    <2> QED
      BY <1>2, <1>3, <1>20, <2>1 DEF FrameInv, NotConnected, OwnAnswers
  <1> QED
    BY <1>18, <1>19, <1>21, <1>22 DEF FrameInv

\* The thread leaves get_response with nothing left in its socket.
LEMMA CallEnds ==
  ASSUME TypeOK, FrameInv, NEW w \in Workers, Reads(w), pc'[w] = "got",
         \A v \in Workers \ {w} :
           pc'[v] = pc[v] /\ job'[v] = job[v] /\ response'[v] = response[v],
         UNCHANGED <<socket, is_connected, link, toRtu, fromRtu>>,
         leftover_buffer' = <<>>, buf' = <<>>,
         ReadsFrom(w) = socket => Quiet(socket),
         response'[w] \in {<<>>, Answer(job'[w].n)}
  PROVE  FrameInv'
  <1>1. Out(w) /\ \A v \in Workers \ {w} : ~Out(v)
    BY DEF FrameInv, OneIsOut, Out, Reads
  <1>2. NobodyIsOut' /\ NobodyReads'
    BY <1>1 DEF NobodyIsOut, NobodyReads, Out, Reads
  <1>3. OneIsOut' /\ BuffersInv' /\ PartsFollow'
    BY <1>2 DEF OneIsOut, NobodyIsOut, Out, BuffersInv, PartsFollow, NobodyReads
  <1>4. SocketIsQuiet'
    BY OnlyReaderOfSocket DEF SocketIsQuiet, Quiet
  <1>5. \A v \in Workers : Closes(v)' <=> Closes(v)
    BY DEF Closes, Reads
  <1>6. NotConnected'
    BY <1>5 DEF FrameInv, NotConnected, Quiet
  <1>7. OwnAnswers'
    BY DEF FrameInv, OwnAnswers
  <1> QED
    BY <1>3, <1>4, <1>6, <1>7 DEF FrameInv

LEMMA FailStep ==
  ASSUME BaseInv, FrameInv, NEW w \in Workers, RecvFails(w)
  PROVE  FrameInv'
  <1>1. TypeOK /\ LinkInv /\ CallInv
    BY DEF BaseInv
  <1>2. \A v \in Workers \ {w} :
          pc'[v] = pc[v] /\ job'[v] = job[v] /\ response'[v] = response[v]
    BY <1>1, StepIsOwn DEF Step
  <1>3. /\ pc[w] = "recv" /\ pc'[w] = "got" /\ response'[w] = <<>>
        /\ UNCHANGED <<socket, is_connected, leftover_buffer, buf, link, toRtu,
                       fromRtu>>
    BY <1>1 DEF RecvFails, Goes, Gets, TypeOK, clientVars, linkVars
  <1>4. Reads(w) /\ ReadsFrom(w) = job[w].at /\ job[w].at \in SocketNumbers
    BY <1>1, <1>3 DEF Reads, ReadsFrom, CallInv
  <1>5. Quiet(job[w].at)
    <2>1. link[job[w].at] # "up" /\ fromRtu[job[w].at] = <<>>
      BY DEF RecvFails
    <2> QED
      BY <1>1, <1>4, <2>1 DEF LinkInv, Quiet
  <1>6. leftover_buffer = <<>> /\ buf = <<>>
    <2>1. \A v \in Workers : pc[v] # "scan"
      BY <1>3 DEF FrameInv, OneIsOut, Out
    <2> QED
      BY <2>1 DEF FrameInv, BuffersInv
  <1> QED
    BY <1>1, <1>2, <1>3, <1>4, <1>5, <1>6, CallEnds

LEMMA ScanStep ==
  ASSUME BaseInv, FrameInv, NEW w \in Workers, Scan(w)
  PROVE  FrameInv'
  <1> DEFINE s == job[w].at
             n == job[w].n
  <1>1. TypeOK /\ CallInv
    BY DEF BaseInv
  <1>2. \A v \in Workers \ {w} :
          pc'[v] = pc[v] /\ job'[v] = job[v] /\ response'[v] = response[v]
    BY <1>1, StepIsOwn DEF Step
  <1>3. /\ pc[w] = "scan"
        /\ UNCHANGED <<socket, is_connected, link, toRtu, fromRtu>>
    BY DEF Scan, Goes, linkVars
  <1>4. Out(w) /\ \A v \in Workers \ {w} : ~Out(v)
    BY <1>3 DEF FrameInv, OneIsOut, Out
  <1>5. buf' = <<>>
    BY <1>4 DEF Scan, Out
  <1>6. Reads(w) /\ ReadsFrom(w) = s
    BY <1>3 DEF Reads, ReadsFrom
  <1>7. /\ AnswerPart(response[w], n, 0) /\ AnswerPart(buf, n, Len(response[w]))
        /\ Brings(w, s) /\ leftover_buffer = <<>>
    BY <1>6 DEF FrameInv, PartsFollow, BuffersInv
  <1>8. /\ response[w] \in Stream /\ buf \in Stream
        /\ n \in Nat /\ Len(response[w]) \in Nat /\ Len(buf) \in Nat
    BY <1>1, TakenIsNat DEF TypeOK
  <1>9. SubSeq(buf, 1, job[w].count) = buf
    <2>1. job[w].count = Len(buf)
      BY <1>3 DEF FrameInv, BuffersInv
    <2> QED
      BY <1>8, <2>1, SubSeqFull DEF Stream
  <1>10. job'[w].n = n /\ job'[w].kind = job[w].kind /\ job'[w].via = job[w].via
    BY <1>1 DEF Scan, TypeOK, Jobs
  <1>11. /\ response[w] \o buf \in Stream
         /\ Len(response[w] \o buf) = Len(response[w]) + Len(buf)
         /\ AnswerPart(response[w] \o buf, n, 0)
    BY <1>7, <1>8, PartThenPart
  <1>12. CASE Ends(buf) = {}
    <2>1. /\ pc'[w] = "enter" /\ leftover_buffer' = <<>>
          /\ response'[w] = response[w] \o buf
      BY <1>1, <1>7, <1>9, <1>12 DEF Scan, Goes, Gets, TypeOK
    <2>2. Reads(w)' /\ Out(w)' /\ ReadsFrom(w)' = socket'
      BY <2>1 DEF Reads, Out, ReadsFrom
    <2>3. Taken(w)' = Taken(w)
      <3>1. Len(buf') = 0
        BY <1>5
      <3> QED
        BY <1>8, <1>11, <2>1, <3>1 DEF Taken
    <2>4. Brings(w, socket)'
      <3>1. CASE s = socket
        BY <1>3, <1>7, <1>10, <2>3, <3>1 DEF Brings, Quiet
      <3>2. CASE s # socket
        BY <1>3, <1>6, <3>2, OnlyReaderOfSocket DEF Brings, Quiet
      <3> QED
        BY <3>1, <3>2
    <2>5. SocketIsQuiet'
      BY <2>2, <2>4 DEF SocketIsQuiet
    <2>6. OneIsOut' /\ BuffersInv'
      <3>1. \A v \in Workers : Out(v)' => v = w
        BY <1>2, <1>4 DEF Out
      <3>2. \A v \in Workers : pc'[v] # "scan"
        BY <1>2, <1>4, <2>1 DEF Out
      <3> QED
        BY <1>5, <2>1, <3>1, <3>2 DEF OneIsOut, BuffersInv
    <2>7. PartsFollow'
      <3>1. \A v \in Workers : Reads(v)' => v = w
        BY <1>2, <1>4 DEF Reads, Out
      <3>2. AnswerPart(<<>>, n, Len(response'[w]))
        <4>1. Len(response'[w]) \in Nat /\ Len(response'[w]) <= Pieces
          BY <1>8, <1>11, <2>1 DEF AnswerPart
        <4> QED
          BY <4>1, EmptyPart
      <3>3. Brings(w, ReadsFrom(w))'
        BY <2>2, <2>4
      <3> QED
        BY <1>5, <1>10, <1>11, <2>1, <3>1, <3>2, <3>3 DEF PartsFollow
    <2>8. NotConnected' /\ OwnAnswers'
      <3>1. \A v \in Workers : Closes(v)' <=> Closes(v)
        BY <1>2, <1>3, <2>1 DEF Closes
      <3> QED
        BY <1>2, <1>3, <2>1, <3>1 DEF FrameInv, NotConnected, OwnAnswers, Quiet
    <2> QED
      BY <2>5, <2>6, <2>7, <2>8 DEF FrameInv
  <1>13. CASE Ends(buf) # {}
    <2>1. /\ Len(response[w]) + Len(buf) = Pieces
          /\ Frame(buf) = buf /\ Behind(buf, FirstEnd(buf)) = <<>>
      BY <1>7, <1>8, <1>13, EndOfPart
    <2>2. /\ pc'[w] = "got" /\ leftover_buffer' = <<>>
          /\ response'[w] = response[w] \o buf
      BY <1>1, <1>9, <1>13, <2>1 DEF Scan, Goes, Gets, TypeOK
    <2>3. response'[w] = Answer(job'[w].n)
      BY <1>8, <1>10, <1>11, <2>1, <2>2, WholePart
    <2>4. Quiet(s)
      <3>1. Taken(w) = Pieces
        BY <2>1 DEF Taken
      <3>2. ASSUME AnswerPart(fromRtu[s], n, Taken(w)), s \in SocketNumbers
            PROVE  fromRtu[s] = <<>>
        <4>1. fromRtu[s] \in Stream /\ Len(fromRtu[s]) \in Nat
          BY <1>1, <3>2, LenProperties DEF TypeOK, Stream
        <4>2. Len(fromRtu[s]) = 0
          BY <3>1, <3>2, <4>1, PiecesPositive DEF AnswerPart
        <4> QED
          BY <4>1, <4>2, EmptySeq DEF Stream
      <3>3. s \in SocketNumbers
        BY <1>1, <1>3 DEF CallInv
      <3> QED
        BY <1>7, <3>1, <3>2, <3>3, PiecesPositive DEF Brings, Quiet
    <2> QED
      BY <1>1, <1>2, <1>3, <1>5, <1>6, <2>2, <2>3, <2>4, CallEnds
  <1> QED
    BY <1>12, <1>13

LEMMA OpenStep ==
  ASSUME BaseInv, FrameInv, NEW w \in Workers, Open(w)
  PROVE  FrameInv'
  <1>1. TypeOK /\ LinkInv /\ CallInv
    BY DEF BaseInv
  <1>2. \A v \in Workers \ {w} :
          pc'[v] = pc[v] /\ job'[v] = job[v] /\ response'[v] = response[v]
    BY <1>1, StepIsOwn DEF Step
  <1>3. /\ pc[w] = "open" /\ pc'[w] = "await"
        /\ UNCHANGED <<is_connected, leftover_buffer, buf, response>>
        /\ socket' = NextSocket
    BY <1>1 DEF Open, Goes, TypeOK
  <1>4. /\ NextSocket \in SocketNumbers /\ NextSocket # socket
        /\ link[NextSocket] = "unused" /\ socket \in SocketNumbers
    BY <1>1, NextSocketIsUnused DEF Open, LinkInv, TypeOK
  <1>5. Quiet(socket)' /\ link'[socket'] # "up"
    <2>1. fromRtu[NextSocket] = <<>> /\ toRtu[NextSocket] = <<>>
      BY <1>1, <1>4 DEF LinkInv
    <2>2. fromRtu'[NextSocket] = <<>> /\ toRtu'[NextSocket] = <<>>
      BY <1>1, <1>4, <2>1 DEF Open, TypeOK
    <2>3. link'[NextSocket] = "opening"
      BY <1>1, <1>4 DEF Open, TypeOK
    <2> QED
      BY <1>3, <2>2, <2>3 DEF Quiet
  <1>6. \A s \in SocketNumbers : IsRead(s) \/ s # socket
          => fromRtu'[s] = fromRtu[s] /\ toRtu'[s] = toRtu[s]
    BY <1>1, <1>4 DEF Open, TypeOK
  <1>7. \A v \in Workers : v # w => Taken(v)' = Taken(v)
    BY <1>2, <1>3 DEF Taken
  <1>8. OneIsOut' /\ BuffersInv' /\ OwnAnswers'
    <2>1. \A v \in Workers : pc[v] = "scan" \/ pc'[v] = "scan" => v # w
      BY <1>3
    <2>2. \A v \in Workers : Out(v)' => Out(v)
      BY <1>2, <1>3 DEF Out
    <2> QED
      BY <1>2, <1>3, <2>1, <2>2 DEF FrameInv, OneIsOut, BuffersInv, OwnAnswers
  <1>9. PartsFollow'
    <2> SUFFICES ASSUME NEW v \in Workers, Reads(v)'
                 PROVE  /\ AnswerPart(response'[v], job'[v].n, 0)
                        /\ AnswerPart(buf', job'[v].n, Len(response'[v]))
                        /\ Brings(v, ReadsFrom(v))'
      BY DEF PartsFollow
    <2>1. v # w /\ Reads(v)
      BY <1>2, <1>3 DEF Reads
    <2>2. /\ pc'[v] = pc[v] /\ job'[v] = job[v] /\ response'[v] = response[v]
          /\ buf' = buf /\ Taken(v)' = Taken(v)
      BY <1>2, <1>3, <1>7, <2>1
    <2>3. /\ AnswerPart(response[v], job[v].n, 0)
          /\ AnswerPart(buf, job[v].n, Len(response[v]))
          /\ Brings(v, ReadsFrom(v))
      BY <2>1 DEF FrameInv, PartsFollow
    <2>4. CASE pc[v] = "enter"
      <3>1. ReadsFrom(v)' = socket'
        BY <2>2, <2>4 DEF ReadsFrom
      <3> QED
        BY <1>5, <2>2, <2>3, <3>1 DEF Brings, Quiet
    <2>5. CASE pc[v] \in {"recv", "scan"}
      <3> DEFINE s == job[v].at
      <3>1. s \in SocketNumbers /\ ReadsFrom(v) = s /\ ReadsFrom(v)' = s
        BY <1>1, <2>2, <2>5 DEF CallInv, ReadsFrom
      <3>2. \/ fromRtu'[s] = fromRtu[s] /\ toRtu'[s] = toRtu[s]
            \/ fromRtu'[s] = <<>> /\ toRtu'[s] = <<>>
        <4>1. CASE s # socket \/ IsRead(socket)
          BY <1>6, <3>1, <4>1
        <4>2. CASE s = socket /\ ~IsRead(socket)
          BY <1>1, <1>4, <4>2 DEF Open, TypeOK
        <4> QED
          BY <4>1, <4>2
      <3>3. Brings(v, s)'
        BY <2>2, <2>3, <3>1, <3>2 DEF Brings, Quiet
      <3> QED
        BY <2>2, <2>3, <3>1, <3>3
    <2> QED
      BY <2>1, <2>4, <2>5 DEF Reads
  <1>10. SocketIsQuiet' /\ NotConnected'
    BY <1>5 DEF SocketIsQuiet, NotConnected
  <1> QED
    BY <1>8, <1>9, <1>10 DEF FrameInv

LEMMA AnswerStep ==
  ASSUME BaseInv, FrameInv, NEW s \in SocketNumbers, RtuAnswers(s)
  PROVE  FrameInv'
  <1>1. TypeOK /\ CallInv
    BY DEF BaseInv
  <1>2. /\ UNCHANGED <<socket, is_connected, leftover_buffer, buf, link>>
        /\ UNCHANGED workerVars
        /\ link[s] = "up" /\ toRtu[s] # <<>>
    BY DEF RtuAnswers, clientVars
  <1>3. /\ fromRtu'[s] = fromRtu[s] \o Answer(Head(toRtu[s]))
        /\ toRtu'[s] = Tail(toRtu[s])
        /\ \A t \in SocketNumbers : t # s => fromRtu'[t] = fromRtu[t] /\ toRtu'[t] = toRtu[t]
    BY <1>1 DEF RtuAnswers, TypeOK
  <1>4. \A t \in SocketNumbers : Quiet(t) => t # s /\ Quiet(t)'
    BY <1>2, <1>3 DEF Quiet
  <1>5. ASSUME NEW v \in Workers, NEW t \in SocketNumbers, Brings(v, t)
        PROVE  Brings(v, t)'
    <2>0. Taken(v)' = Taken(v) /\ job' = job
      BY <1>2 DEF Taken, workerVars
    <2>1. CASE t # s
      BY <1>3, <1>5, <2>0, <2>1 DEF Brings, Quiet
    <2>2. CASE t = s
      <3>1. /\ job[v].via = s /\ toRtu[s] = <<job[v].n>> /\ Taken(v) = 0
            /\ fromRtu[s] = <<>>
        BY <1>2, <1>5, <2>2 DEF Brings, Quiet
      <3>2. job[v].n \in Nat
        BY <1>1, TakenIsNat
      <3>3. Answer(job[v].n) \in Stream /\ AnswerPart(Answer(job[v].n), job[v].n, 0)
        BY <3>2, AnswerWhole
      <3>4. fromRtu'[s] = Answer(job[v].n)
        <4>1. Head(toRtu[s]) = job[v].n
          BY <3>1
        <4>2. <<>> \o Answer(job[v].n) = Answer(job[v].n)
          BY <3>3, ConcatEmptySeq DEF Stream
        <4> QED
          BY <1>3, <3>1, <4>1, <4>2
      <3>5. toRtu'[s] = <<>>
        BY <1>3, <3>1
      <3> QED
        BY <2>0, <2>2, <3>1, <3>3, <3>4, <3>5 DEF Brings
    <2> QED
      BY <2>1, <2>2
  <1>6. OneIsOut' /\ BuffersInv' /\ PartsFollow' /\ SocketIsQuiet'
    BY <1>1, <1>2, <1>4, <1>5, LinksOnly
  <1>7. NotConnected' /\ OwnAnswers'
    <2>1. \A v \in Workers : Closes(v)' <=> Closes(v)
      BY <1>2 DEF Closes, workerVars
    <2> QED
      BY <1>1, <1>2, <1>4, <2>1
      DEF FrameInv, NotConnected, OwnAnswers, workerVars, TypeOK
  <1> QED
    BY <1>6, <1>7 DEF FrameInv

LEMMA LinkFailStep ==
  ASSUME BaseInv, FrameInv, NEW s \in SocketNumbers, LinkFails(s)
  PROVE  FrameInv'
  <1>1. TypeOK /\ CallInv
    BY DEF BaseInv
  <1>2. /\ UNCHANGED <<socket, is_connected, leftover_buffer, buf>>
        /\ UNCHANGED workerVars
        /\ link[s] = "up" /\ \A t \in SocketNumbers : link'[t] = "up" => link[t] = "up"
    BY <1>1 DEF LinkFails, clientVars, TypeOK
  <1>3. PICK k \in 0 .. Len(fromRtu[s]) :
          fromRtu' = [fromRtu EXCEPT ![s] = SubSeq(@, 1, k)]
    BY DEF LinkFails
  <1>4. /\ fromRtu'[s] = SubSeq(fromRtu[s], 1, k) /\ toRtu'[s] = <<>>
        /\ \A t \in SocketNumbers : t # s => fromRtu'[t] = fromRtu[t] /\ toRtu'[t] = toRtu[t]
    BY <1>1, <1>3 DEF LinkFails, TypeOK
  <1>5. fromRtu[s] \in Stream
    BY <1>1 DEF TypeOK
  <1>6. \A t \in SocketNumbers : Quiet(t) => Quiet(t)'
    <2>1. fromRtu[s] = <<>> => SubSeq(fromRtu[s], 1, k) = <<>>
      BY <1>3
    <2> QED
      BY <1>4, <2>1 DEF Quiet
  <1>7. ASSUME NEW v \in Workers, NEW t \in SocketNumbers, Brings(v, t)
        PROVE  Brings(v, t)'
    <2>0. Taken(v)' = Taken(v) /\ job' = job /\ Taken(v) \in Nat
      BY <1>1, <1>2, TakenIsNat DEF Taken, workerVars
    <2>1. CASE Quiet(t)
      BY <1>6, <2>1 DEF Brings
    <2>2. CASE t # s /\ ~Quiet(t)
      BY <1>4, <1>7, <2>0, <2>2 DEF Brings, Quiet
    <2>3. CASE t = s /\ ~Quiet(t)
      <3>1. job[v].via = s /\ AnswerPart(fromRtu[s], job[v].n, Taken(v))
        BY <1>7, <2>3 DEF Brings
      <3>2. AnswerPart(SubSeq(fromRtu[s], 1, k), job[v].n, Taken(v))
        BY <1>3, <1>5, <2>0, <3>1, PartIsCut
      <3> QED
        BY <1>4, <2>0, <2>3, <3>1, <3>2 DEF Brings
    <2> QED
      BY <2>1, <2>2, <2>3
  <1>8. OneIsOut' /\ BuffersInv' /\ PartsFollow' /\ SocketIsQuiet'
    BY <1>1, <1>2, <1>6, <1>7, LinksOnly
  <1>9. NotConnected' /\ OwnAnswers'
    <2>1. \A v \in Workers : Closes(v)' <=> Closes(v)
      BY <1>2 DEF Closes, workerVars
    <2> QED
      BY <1>1, <1>2, <1>6, <2>1
      DEF FrameInv, NotConnected, OwnAnswers, workerVars, TypeOK
  <1> QED
    BY <1>8, <1>9 DEF FrameInv

LEMMA ShutdownStep ==
  ASSUME BaseInv, FrameInv, NEW w \in Workers, Shutdown(w)
  PROVE  FrameInv'
  <1>1. TypeOK /\ CallInv /\ ConnectInv
    BY DEF BaseInv
  <1>2. \A v \in Workers \ {w} :
          pc'[v] = pc[v] /\ job'[v] = job[v] /\ response'[v] = response[v]
    BY <1>1, StepIsOwn DEF Step
  <1>3. /\ pc[w] = "shutdown" /\ pc'[w] = "open" /\ job[w].kind = "connect"
        /\ UNCHANGED <<socket, is_connected, leftover_buffer, buf, fromRtu, job, response>>
    BY <1>1 DEF Shutdown, Goes, TypeOK, clientVars, ConnectInv
  <1>4. /\ toRtu'[socket] = <<>>
        /\ \A t \in SocketNumbers : t # socket => toRtu'[t] = toRtu[t]
    BY <1>1 DEF Shutdown, TypeOK
  <1>5. \A t \in SocketNumbers : Quiet(t) => Quiet(t)'
    BY <1>3, <1>4 DEF Quiet
  <1>6. ASSUME NEW v \in Workers, NEW t \in SocketNumbers, Brings(v, t)
        PROVE  Brings(v, t)'
    <2>1. Taken(v)' = Taken(v)
      BY <1>3 DEF Taken
    <2> QED
      BY <1>3, <1>4, <1>6, <2>1 DEF Brings, Quiet
  <1>7. Closes(w)' /\ \A v \in Workers : Closes(v) => Closes(v)'
    BY <1>2, <1>3 DEF Closes
  <1>8. \A v \in Workers : Out(v)' <=> Out(v)
    BY <1>2, <1>3 DEF Out
  <1>9. \A v \in Workers :
          Out(v) => /\ pc'[v] = pc[v] /\ response'[v] = response[v]
                    /\ job'[v].n = job[v].n /\ job'[v].at = job[v].at
                    /\ job'[v].count = job[v].count
    BY <1>2, <1>3 DEF Out
  <1>10. \A v \in Workers : Replaces(v) => Replaces(v)'
    BY <1>2, <1>3 DEF Replaces
  <1>11. OneIsOut' /\ BuffersInv' /\ PartsFollow' /\ SocketIsQuiet'
    BY <1>1, <1>3, <1>5, <1>6, <1>7, <1>8, <1>9, <1>10, Undisturbed
  <1>12. NotConnected' /\ OwnAnswers'
    BY <1>2, <1>3, <1>7 DEF FrameInv, NotConnected, OwnAnswers
  <1> QED
    BY <1>11, <1>12 DEF FrameInv


LEMMA LockFrameStep ==
  ASSUME BaseInv, FrameInv, NEW w \in Workers, Lock(w)
  PROVE  FrameInv'
  <1>1. TypeOK /\ CallInv /\ ConnectInv /\ LinkInv
    BY DEF BaseInv
  <1>2. \A v \in Workers \ {w} :
          pc'[v] = pc[v] /\ job'[v] = job[v] /\ response'[v] = response[v]
    BY <1>1, StepIsOwn DEF Step
  <1>3. /\ pc[w] = "lock" /\ pc'[w] \in {"send"}
        /\ UNCHANGED <<socket, leftover_buffer, buf, fromRtu, toRtu, is_connected>>
    BY <1>1 DEF Lock, Goes, TypeOK, clientVars, linkVars
  <1>4. job'[w].kind = job[w].kind
    BY <1>1, CommandKeepsJob DEF Commands
  <1>5. \A v \in Workers : Closes(v)' <=> Closes(v)
    BY <1>2, <1>3 DEF Closes
  <1>6. NotConnected'
    BY <1>3, <1>5 DEF Lock, linkVars, FrameInv, NotConnected, Quiet
  <1>7. OneIsOut' /\ BuffersInv' /\ PartsFollow' /\ SocketIsQuiet'
    <2>1. ~Out(w) /\ ~Out(w)' /\ ~Closes(w) /\ ~Replaces(w)
      BY <1>3 DEF Out, Closes, Replaces
    <2> QED
      BY <1>1, <1>2, <1>3, <2>1, SocketsUntouched
  <1>8. OwnAnswers'
    BY <1>2, <1>3 DEF FrameInv, OwnAnswers
  <1> QED
    BY <1>6, <1>7, <1>8 DEF FrameInv


LEMMA CloseFlagStep ==
  ASSUME BaseInv, FrameInv, NEW w \in Workers, CloseFlag(w)
  PROVE  FrameInv'
  <1>1. TypeOK /\ CallInv /\ ConnectInv /\ LinkInv
    BY DEF BaseInv
  <1>2. \A v \in Workers \ {w} :
          pc'[v] = pc[v] /\ job'[v] = job[v] /\ response'[v] = response[v]
    BY <1>1, StepIsOwn DEF Step
  <1>3. /\ pc[w] = "close" /\ pc'[w] \in {"shutdown"}
        /\ UNCHANGED <<socket, leftover_buffer, buf, fromRtu, toRtu>>
    BY <1>1 DEF CloseFlag, Goes, TypeOK, clientVars, linkVars
  <1>4. job' = job /\ job[w].kind = "connect"
    BY <1>1, <1>3 DEF CloseFlag, ConnectInv
  <1>5. Closes(w)'
    BY <1>3, <1>4 DEF Closes
  <1>6. NotConnected'
    BY <1>5 DEF NotConnected
  <1>7. OneIsOut' /\ BuffersInv' /\ PartsFollow' /\ SocketIsQuiet'
    <2>1. ~Out(w) /\ ~Out(w)' /\ ~Closes(w) /\ ~Replaces(w)
      BY <1>3 DEF Out, Closes, Replaces
    <2> QED
      BY <1>1, <1>2, <1>3, <2>1, SocketsUntouched
  <1>8. OwnAnswers'
    BY <1>2, <1>3 DEF FrameInv, OwnAnswers
  <1> QED
    BY <1>6, <1>7, <1>8 DEF FrameInv


LEMMA EstablishedStep ==
  ASSUME BaseInv, FrameInv, NEW w \in Workers, Established(w)
  PROVE  FrameInv'
  <1>1. TypeOK /\ CallInv /\ ConnectInv /\ LinkInv
    BY DEF BaseInv
  <1>2. \A v \in Workers \ {w} :
          pc'[v] = pc[v] /\ job'[v] = job[v] /\ response'[v] = response[v]
    BY <1>1, StepIsOwn DEF Step
  <1>3. /\ pc[w] = "await" /\ pc'[w] \in {"lock"}
        /\ UNCHANGED <<socket, leftover_buffer, buf, fromRtu, toRtu>>
    BY <1>1 DEF Established, Goes, TypeOK, clientVars, linkVars
  <1>6. NotConnected'
    BY DEF Established, NotConnected
  <1>7. OneIsOut' /\ BuffersInv' /\ PartsFollow' /\ SocketIsQuiet'
    <2>1. ~Out(w) /\ ~Out(w)' /\ ~Closes(w) /\ ~Replaces(w)
      BY <1>3 DEF Out, Closes, Replaces
    <2> QED
      BY <1>1, <1>2, <1>3, <2>1, SocketsUntouched
  <1>8. OwnAnswers'
    BY <1>2, <1>3 DEF FrameInv, OwnAnswers
  <1> QED
    BY <1>6, <1>7, <1>8 DEF FrameInv


LEMMA ConnectFailsStep ==
  ASSUME BaseInv, FrameInv, NEW w \in Workers, ConnectFails(w)
  PROVE  FrameInv'
  <1>1. TypeOK /\ CallInv /\ ConnectInv /\ LinkInv
    BY DEF BaseInv
  <1>2. \A v \in Workers \ {w} :
          pc'[v] = pc[v] /\ job'[v] = job[v] /\ response'[v] = response[v]
    BY <1>1, StepIsOwn DEF Step
  <1>3. /\ pc[w] = "await" /\ pc'[w] \in {"idle", "open"}
        /\ UNCHANGED <<socket, leftover_buffer, buf, fromRtu, toRtu, is_connected>>
    BY <1>1 DEF ConnectFails, Goes, TypeOK, clientVars, linkVars
  <1>4. link'[socket'] # "up"
    BY <1>1, <1>3 DEF ConnectFails, TypeOK
  <1>5. \A v \in Workers : Closes(v) => Closes(v)'
    BY <1>2, <1>3 DEF Closes
  <1>6. NotConnected'
    BY <1>3, <1>4, <1>5 DEF FrameInv, NotConnected, Quiet
  <1>7. OneIsOut' /\ BuffersInv' /\ PartsFollow' /\ SocketIsQuiet'
    <2>1. ~Out(w) /\ ~Out(w)' /\ ~Closes(w) /\ ~Replaces(w)
      BY <1>3 DEF Out, Closes, Replaces
    <2> QED
      BY <1>1, <1>2, <1>3, <2>1, SocketsUntouched
  <1>8. OwnAnswers'
    BY <1>2, <1>3 DEF FrameInv, OwnAnswers
  <1> QED
    BY <1>6, <1>7, <1>8 DEF FrameInv


LEMMA ReturnStep ==
  ASSUME BaseInv, FrameInv, NEW w \in Workers, Return(w)
  PROVE  FrameInv'
  <1>1. TypeOK /\ CallInv /\ ConnectInv /\ LinkInv
    BY DEF BaseInv
  <1>2. \A v \in Workers \ {w} :
          pc'[v] = pc[v] /\ job'[v] = job[v] /\ response'[v] = response[v]
    BY <1>1, StepIsOwn DEF Step
  <1>3. /\ pc[w] = "got" /\ pc'[w] \in {"idle", "open"}
        /\ UNCHANGED <<socket, leftover_buffer, buf, fromRtu, toRtu, is_connected>>
    BY <1>1 DEF Return, Goes, TypeOK, clientVars, linkVars
  <1>5. \A v \in Workers : Closes(v) => Closes(v)'
    BY <1>2, <1>3 DEF Closes
  <1>6. NotConnected'
    BY <1>3, <1>5 DEF Return, linkVars, FrameInv, NotConnected, Quiet
  <1>7. OneIsOut' /\ BuffersInv' /\ PartsFollow' /\ SocketIsQuiet'
    <2>1. ~Out(w) /\ ~Out(w)' /\ ~Closes(w) /\ ~Replaces(w)
      BY <1>3 DEF Out, Closes, Replaces
    <2> QED
      BY <1>1, <1>2, <1>3, <2>1, SocketsUntouched
  <1>8. OwnAnswers'
    BY <1>2, <1>3 DEF FrameInv, OwnAnswers
  <1> QED
    BY <1>6, <1>7, <1>8 DEF FrameInv


LEMMA BeginStep ==
  ASSUME BaseInv, FrameInv, NEW w \in Workers, NEW kind \in Requests, Begin(w, kind)
  PROVE  FrameInv'
  <1>1. TypeOK /\ CallInv /\ ConnectInv /\ LinkInv
    BY DEF BaseInv
  <1>2. \A v \in Workers \ {w} :
          pc'[v] = pc[v] /\ job'[v] = job[v] /\ response'[v] = response[v]
    BY <1>1 DEF Begin, Goes, TypeOK
  <1>3. /\ pc[w] = "idle" /\ pc'[w] \in {"close", "lock"}
        /\ UNCHANGED <<socket, leftover_buffer, buf, fromRtu, toRtu, is_connected>>
    BY <1>1 DEF Begin, Goes, TypeOK, clientVars, linkVars
  <1>5. \A v \in Workers : Closes(v) => Closes(v)'
    BY <1>2, <1>3 DEF Closes
  <1>6. NotConnected'
    BY <1>3, <1>5 DEF Begin, linkVars, FrameInv, NotConnected, Quiet
  <1>7. OneIsOut' /\ BuffersInv' /\ PartsFollow' /\ SocketIsQuiet'
    <2>1. ~Out(w) /\ ~Out(w)' /\ ~Closes(w) /\ ~Replaces(w)
      BY <1>3 DEF Out, Closes, Replaces
    <2> QED
      BY <1>1, <1>2, <1>3, <2>1, SocketsUntouched
  <1>8. OwnAnswers'
    BY <1>2, <1>3 DEF FrameInv, OwnAnswers
  <1> QED
    BY <1>6, <1>7, <1>8 DEF FrameInv

-----------------------------------------------------------------------------
(* The invariant                                                           *)

LEMMA ChannelInit == Init => ChannelInv
  <1> SUFFICES ASSUME Init
               PROVE  ChannelInv
    OBVIOUS
  <1>1. MaxSockets \in Nat /\ MaxSockets > 0 /\ 1 \in SocketNumbers
    BY MaxSocketsPositive DEF SocketNumbers
  <1>2. <<>> \in Stream /\ <<>> \in Seq(Nat) /\ Len(<<>>) = 0
    BY DEF Stream
  <1>3. TypeOK
    BY <1>1, <1>2, NoJobType DEF Init, TypeOK, Pcs, LinkStates
  <1>4. \A w \in Workers : pc[w] = "idle" /\ response[w] = <<>>
    BY DEF Init
  <1>5. LockInv /\ CallInv
    BY <1>4 DEF LockInv, CallInv
  <1>6. ConnectInv
    BY <1>4 DEF ConnectInv, Connects, Closes
  <1>7. LinkInv
    BY <1>1 DEF Init, LinkInv
  <1>8. OneIsOut /\ BuffersInv /\ PartsFollow /\ OwnAnswers
    BY <1>4 DEF Init, OneIsOut, Out, BuffersInv, PartsFollow, Reads, OwnAnswers
  <1>9. SocketIsQuiet /\ NotConnected
    BY <1>1 DEF Init, SocketIsQuiet, Quiet, NotConnected
  <1> QED
    BY <1>3, <1>5, <1>6, <1>7, <1>8, <1>9 DEF ChannelInv, BaseInv, FrameInv

LEMMA ChannelStep == ChannelInv /\ [Next]_vars => ChannelInv'
  <1> SUFFICES ASSUME ChannelInv, [Next]_vars
               PROVE  ChannelInv'
    OBVIOUS
  <1>1. BaseInv
    BY DEF ChannelInv
  <1>2. CASE Next
    <2>1. BaseInv'
      BY <1>1, <1>2, TypeStep, LockStep, ConnectStep, LinkStep, CallStep DEF BaseInv
    <2>2. shared => shared'
      BY <1>2 DEF Next, Step, External, Begin, Lock, Send, CheckConnected,
         EnterRecv,
           Recv, RecvFails, Scan, Return, CloseFlag, Shutdown, Open, Established,
           ConnectFails, RtuAnswers, LinkFails
    <2>3. ASSUME ~shared'
          PROVE  FrameInv'
      <3>1. FrameInv
        BY <2>2, <2>3 DEF ChannelInv
      <3>2. ASSUME NEW w \in Workers, Step(w)
            PROVE  FrameInv'
        BY <1>1, <2>3, <3>1, <3>2, LockFrameStep, SendStep, CheckStep, EnterStep,
           RecvStep, FailStep, ScanStep, CloseFlagStep, ShutdownStep, OpenStep,
           EstablishedStep, ConnectFailsStep DEF Step
      <3>3. ASSUME NEW w \in Workers, Return(w)
            PROVE  FrameInv'
        BY <1>1, <3>1, <3>3, ReturnStep
      <3>4. ASSUME NEW w \in Workers, NEW kind \in Requests, Begin(w, kind)
            PROVE  FrameInv'
        BY <1>1, <3>1, <3>4, BeginStep
      <3>5. ASSUME NEW s \in SocketNumbers, RtuAnswers(s) \/ LinkFails(s)
            PROVE  FrameInv'
        BY <1>1, <3>1, <3>5, AnswerStep, LinkFailStep
      <3> QED
        BY <1>2, <3>2, <3>3, <3>4, <3>5 DEF Next, External
    <2> QED
      BY <2>1, <2>3 DEF ChannelInv
  <1>3. CASE UNCHANGED vars
    <2>1. BaseInv'
      BY <1>1, <1>3 DEF BaseInv, TypeOK, LockInv, ConnectInv, Connects, Closes,
         LinkInv,
         CallInv, vars, clientVars, linkVars, workerVars
    <2>2. FrameInv => FrameInv'
      BY <1>3 DEF FrameInv, OneIsOut, Out, BuffersInv, PartsFollow, Reads,
         ReadsFrom,
         Brings, Quiet, Taken, SocketIsQuiet, NobodyReads, NobodyIsOut, Closes,
         Replaces, NotConnected, OwnAnswers, vars, clientVars, linkVars, workerVars
    <2>3. shared' = shared
      BY <1>3 DEF vars
    <2> QED
      BY <2>1, <2>2, <2>3 DEF ChannelInv
  <1> QED
    BY <1>2, <1>3

\* The variables of the command connection have their types, with any number
\* of threads, however their commands and connections interleave.
THEOREM ChannelTypeCorrect == Spec => []TypeOK
  <1>1. ChannelInv => TypeOK
    BY DEF ChannelInv, BaseInv
  <1> QED
    BY ChannelInit, ChannelStep, <1>1, PTL DEF Spec

\* The threads keep rtu_mutex, connections are made by one of them, and unless
\* commands have gone out beside each other the parts of the answer that is on
\* its way follow one another from the socket to the thread.
THEOREM ChannelInvariant == Spec => []ChannelInv
  BY ChannelInit, ChannelStep, PTL DEF Spec

\* get_response returns nothing or the whole answer to its caller's command,
\* for any threads, requests, connections and pieces, unless commands that do
\* not hold rtu_mutex until they have their answer went out beside each other.
THEOREM AnswersBelong == Spec => []AnswersAreTheirOwn
  <1>1. ChannelInv => AnswersAreTheirOwn
    BY DEF ChannelInv, FrameInv, OwnAnswers, AnswersAreTheirOwn
  <1> QED
    BY ChannelInit, ChannelStep, <1>1, PTL DEF Spec

-----------------------------------------------------------------------------
(* The answer that is waited for comes                                     *)

\* A command went out on a socket that was connected once; and who is about
\* to open another socket has shut the current one down.
Connected(s) == link[s] \in {"up", "dead", "down"}
ViaInv ==
  /\ \A w \in Workers, s \in SocketNumbers : job[w].via = s => Connected(s)
  /\ \A w \in Workers :
       pc[w] = "open" /\ job[w].kind = "connect" => link[socket] = "down"

\* Nothing of the answer to a command is missing: the RTU has the command, or
\* the answer is in what was taken and what the socket holds.
Complete(w, s) ==
  \/ toRtu[s] = <<job[w].n>> /\ fromRtu[s] = <<>> /\ Taken(w) = 0
  \/ toRtu[s] = <<>> /\ Taken(w) + Len(fromRtu[s]) = Pieces

ConnectionCloses == \E v \in Workers : Closes(v)

\* A command sent while close() is under way goes behind another answer, but
\* its thread will not read.
OnItsWay(w, s) ==
  job[w].via = s /\ link[s] = "up"
    => Complete(w, s) \/ (pc[w] = "check" /\ s = socket /\ ConnectionCloses)

WayInv ==
  \A w \in Workers :
    /\ Reads(w) => Len(response[w]) < Pieces
    /\ Out(w) => \A s \in SocketNumbers : OnItsWay(w, s)

AwaitedInv == ViaInv /\ (shared \/ WayInv)

LEMMA ViaStep ==
  ASSUME BaseInv, ViaInv, Next
  PROVE  ViaInv'
  <1>1. TypeOK /\ ConnectInv /\ LinkInv
    BY DEF BaseInv
  <1> USE DEF Goes, Gets, clientVars, linkVars, workerVars
  <1>2. \A s \in SocketNumbers : Connected(s) => Connected(s)'
    <2>1. ASSUME NEW w \in Workers, Step(w)
          PROVE  \A s \in SocketNumbers : Connected(s) => Connected(s)'
      <3>1. CASE Open(w)
        <4>1. NextSocket \in SocketNumbers /\ link[NextSocket] = "unused"
          BY <1>1, <3>1, NextSocketIsUnused DEF Open
        <4>2. \A s \in SocketNumbers :
                link'[s] \in {link[s], "down"} \/ s = NextSocket
          BY <1>1, <3>1, <4>1 DEF Open, TypeOK
        <4> QED
          BY <4>1, <4>2 DEF Connected
      <3>2. CASE ~Open(w)
        BY <1>1, <2>1, <3>2
        DEF Step, Lock, Send, CheckConnected, EnterRecv, Recv, RecvFails, Scan,
            CloseFlag, Shutdown, Established, ConnectFails, Connected, TypeOK
      <3> QED
        BY <3>1, <3>2
    <2>2. ASSUME NEW w \in Workers,
                 Return(w) \/ \E kind \in Requests : Begin(w, kind)
          PROVE  UNCHANGED link
      BY <2>2 DEF Return, Begin
    <2>3. ASSUME NEW s \in SocketNumbers, RtuAnswers(s) \/ LinkFails(s)
          PROVE  \A t \in SocketNumbers : Connected(t) => Connected(t)'
      BY <1>1, <2>3 DEF RtuAnswers, LinkFails, Connected, TypeOK
    <2> QED
      BY <2>1, <2>2, <2>3 DEF Next, External, Connected
  <1>3. ASSUME NEW v \in Workers
        PROVE  job'[v].via \in {job[v].via, 0} \/ (job'[v].via = socket /\ Connected(socket))
    <2>1. ASSUME NEW w \in Workers, Send(w)
          PROVE  job'[v].via \in {job[v].via, 0}
                 \/ (job'[v].via = socket /\ Connected(socket))
      <3>1. CASE job[w].goes
        <4>1. PICK sent \in Sendable(socket) :
                job' = [job EXCEPT ![w].via = IF sent THEN socket ELSE 0,
                                   ![w].goes = FALSE]
          BY <2>1, <3>1 DEF Send
        <4>2. sent => Connected(socket)
          BY <4>1 DEF Sendable, Connected
        <4> QED
          BY <1>1, <4>1, <4>2 DEF TypeOK, Jobs
      <3>2. CASE ~job[w].goes
        BY <1>1, <2>1, <3>2 DEF Send, TypeOK, Jobs
      <3> QED
        BY <3>1, <3>2
    <2>2. ASSUME NEW w \in Workers, Step(w), ~Send(w)
          PROVE  job'[v].via = job[v].via \/ job'[v].via = 0
      <3>1. CASE Lock(w) \/ EnterRecv(w) \/ Recv(w) \/ Scan(w) \/ Open(w)
        <4>1. CASE v # w
          BY <1>1, <2>2, <4>1, StepIsOwn
        <4>2. CASE v = w /\ (Lock(w) \/ EnterRecv(w))
          BY <1>1, <4>2 DEF Lock, EnterRecv, TypeOK, Jobs
        <4>3. CASE v = w /\ Recv(w)
          BY <1>1, <4>3 DEF Recv, TypeOK, Jobs
        <4>4. CASE v = w /\ Scan(w)
          BY <1>1, <4>4 DEF Scan, TypeOK, Jobs
        <4>5. CASE v = w /\ Open(w)
          BY <1>1, <4>5 DEF Open, TypeOK, Jobs
        <4> QED
          BY <3>1, <4>1, <4>2, <4>3, <4>4, <4>5
      <3>2. CASE \/ CheckConnected(w) \/ RecvFails(w) \/ CloseFlag(w) \/ Shutdown(w)
                 \/ Established(w)
        BY <3>2 DEF CheckConnected, RecvFails, CloseFlag, Shutdown, Established
      <3>3. CASE ConnectFails(w)
        <4>1. job'[v] = job[v] \/ job'[v] = NoJob
          BY <1>1, <3>3 DEF ConnectFails, TypeOK
        <4> QED
          BY <4>1 DEF NoJob
      <3> QED
        BY <2>2, <3>1, <3>2, <3>3 DEF Step
    <2>3. ASSUME NEW w \in Workers,
                 Return(w) \/ \E kind \in Requests : Begin(w, kind)
          PROVE  job'[v].via = job[v].via \/ job'[v].via = 0
      <3>1. CASE Return(w)
        <4>1. job'[v] = job[v] \/ job'[v] = NoJob
          BY <1>1, <3>1 DEF Return, TypeOK
        <4> QED
          BY <4>1 DEF NoJob
      <3>2. ASSUME NEW kind \in Requests, Begin(w, kind)
            PROVE  job'[v].via = job[v].via \/ job'[v].via = 0
        <4>1. \/ job'[v] = job[v]
              \/ job'[v] = [NoJob EXCEPT !.kind = kind, !.n = commands + 1]
          BY <1>1, <3>2 DEF Begin, TypeOK
        <4> QED
          BY <4>1 DEF NoJob
      <3> QED
        BY <2>3, <3>1, <3>2
    <2>4. ASSUME NEW s \in SocketNumbers, RtuAnswers(s) \/ LinkFails(s)
          PROVE  job'[v].via = job[v].via
      BY <2>4 DEF RtuAnswers, LinkFails
    <2> QED
      BY <2>1, <2>2, <2>3, <2>4 DEF Next, External
  <1>4. \A v \in Workers, s \in SocketNumbers : job'[v].via = s => Connected(s)'
    <2>1. \A s \in SocketNumbers : s # 0
      BY MaxSocketsPositive DEF SocketNumbers
    <2> QED
      BY <1>2, <1>3, <2>1 DEF ViaInv
  <1>5. ASSUME NEW v \in Workers, pc'[v] = "open", job'[v].kind = "connect"
        PROVE  link'[socket'] = "down"
    <2>1. ASSUME NEW w \in Workers, Shutdown(w)
          PROVE  link'[socket'] = "down"
      BY <1>1, <2>1 DEF Shutdown, TypeOK
    <2>2. ASSUME ~ \E w \in Workers : Shutdown(w)
          PROVE  pc[v] = "open" /\ job[v].kind = "connect"
      <3>1. ASSUME NEW w \in Workers, Commands(w)
            PROVE  pc[v] = "open" /\ job[v].kind = "connect"
        <4>1. CASE v = w
          <5>1. Send(w) /\ NoWait(w) /\ job'[w].kind = job[w].kind
            BY <1>1, <1>5, <3>1, <4>1, CommandKeepsJob
          <5> QED
            BY <1>5, <4>1, <5>1 DEF NoWait
        <4>2. CASE v # w
          BY <1>1, <1>5, <3>1, <4>2, StepIsOwn DEF Commands, Step
        <4> QED
          BY <4>1, <4>2
      <3>2. ASSUME NEW w \in Workers,
                   \/ CloseFlag(w) \/ Open(w) \/ Established(w) \/ ConnectFails(w)
                   \/ Return(w)
            PROVE  pc[v] = "open" /\ job[v].kind = "connect"
        <4>1. CASE v = w
          BY <1>1, <1>5, <3>2, <4>1
          DEF CloseFlag, Open, Established, ConnectFails, Return, TypeOK
        <4>2. CASE v # w
          BY <1>1, <1>5, <3>2, <4>2, StepIsOwn DEF Step
        <4> QED
          BY <4>1, <4>2
      <3>3. ASSUME NEW w \in Workers, NEW kind \in Requests, Begin(w, kind)
            PROVE  pc[v] = "open" /\ job[v].kind = "connect"
        BY <1>1, <1>5, <3>3 DEF Begin, TypeOK
      <3>4. ASSUME NEW s \in SocketNumbers, RtuAnswers(s) \/ LinkFails(s)
            PROVE  pc[v] = "open" /\ job[v].kind = "connect"
        BY <1>5, <3>4 DEF RtuAnswers, LinkFails
      <3> QED
        BY <2>2, <3>1, <3>2, <3>3, <3>4 DEF Next, External, Step, Commands
    <2>3. ASSUME pc[v] = "open", job[v].kind = "connect"
          PROVE  link'[socket'] = "down"
      <3>1. link[socket] = "down" /\ socket \in SocketNumbers
        BY <1>1, <2>3 DEF ViaInv, TypeOK
      <3>2. ASSUME NEW w \in Workers, Open(w) \/ Established(w) \/ ConnectFails(w)
            PROVE  FALSE
        <4>1. Connects(v) /\ Connects(w)
          BY <1>1, <2>3, <3>2
          DEF Connects, Open, Established, ConnectFails, ConnectInv
        <4>2. v = w
          BY <1>1, <4>1 DEF ConnectInv
        <4> QED
          BY <1>1, <1>5, <2>3, <3>2, <4>2
          DEF Open, Established, ConnectFails, TypeOK
      <3>3. ASSUME NEW w \in Workers, Commands(w) \/ CloseFlag(w) \/ Return(w)
            PROVE  UNCHANGED <<link, socket>>
        BY <1>1, <3>3, CommandKeepsJob DEF CloseFlag, Return
      <3>4. ASSUME NEW w \in Workers, NEW kind \in Requests, Begin(w, kind)
            PROVE  UNCHANGED <<link, socket>>
        BY <3>4 DEF Begin
      <3>5. ASSUME NEW s \in SocketNumbers, RtuAnswers(s) \/ LinkFails(s)
            PROVE  link'[socket'] = "down"
        BY <1>1, <3>1, <3>5 DEF RtuAnswers, LinkFails, TypeOK
      <3> QED
        BY <2>1, <3>1, <3>2, <3>3, <3>4, <3>5 DEF Next, External, Step, Commands
    <2> QED
      BY <2>1, <2>2, <2>3
  <1> QED
    BY <1>4, <1>5 DEF ViaInv

\* The queues of a socket that carries an answer to v stay complete for v.
Keeps(v, s) ==
  job[v].via = s /\ link'[s] = "up"
    => link[s] = "up" /\ (Complete(v, s) => Complete(v, s)')

\* Steps that leave the threads that are out where they are.
LEMMA WayStays ==
  ASSUME WayInv, UNCHANGED socket, ConnectionCloses => ConnectionCloses',
         \A v \in Workers :
           Out(v)' => /\ Out(v) /\ pc'[v] = pc[v] /\ response'[v] = response[v]
                      /\ job'[v].via = job[v].via
                      /\ \A s \in SocketNumbers : Keeps(v, s)
  PROVE  WayInv'
  <1> SUFFICES ASSUME NEW v \in Workers
               PROVE  /\ Reads(v)' => Len(response'[v]) < Pieces
                      /\ Out(v)' => \A s \in SocketNumbers : OnItsWay(v, s)'
    BY DEF WayInv
  <1>1. Reads(v)' => Len(response'[v]) < Pieces
    BY DEF WayInv, Reads, Out
  <1>2. ASSUME Out(v)', NEW s \in SocketNumbers
        PROVE  OnItsWay(v, s)'
    <2> SUFFICES ASSUME job'[v].via = s, link'[s] = "up"
                 PROVE  \/ Complete(v, s)'
                        \/ pc'[v] = "check" /\ s = socket' /\ ConnectionCloses'
      BY DEF OnItsWay
    <2>1. /\ Out(v) /\ pc'[v] = pc[v] /\ job[v].via = s /\ link[s] = "up"
          /\ Complete(v, s) => Complete(v, s)'
      BY <1>2 DEF Keeps
    <2>2. Complete(v, s) \/ (pc[v] = "check" /\ s = socket /\ ConnectionCloses)
      BY <2>1 DEF WayInv, OnItsWay
    <2> QED
      BY <2>1, <2>2
  <1> QED
    BY <1>1, <1>2

\* Of those, the steps that do not touch what the sockets carry to a thread
\* that is out.
LEMMA WayUntouched ==
  ASSUME WayInv, UNCHANGED <<socket, buf>>, ConnectionCloses => ConnectionCloses',
         \A v \in Workers :
           Out(v)' => /\ Out(v) /\ pc'[v] = pc[v] /\ response'[v] = response[v]
                      /\ job'[v] = job[v],
         \A v \in Workers, s \in SocketNumbers :
           job[v].via = s /\ link'[s] = "up"
             => link[s] = "up" /\ toRtu'[s] = toRtu[s] /\ fromRtu'[s] = fromRtu[s]
  PROVE  WayInv'
  <1>1. ASSUME NEW v \in Workers, Out(v)', NEW s \in SocketNumbers
        PROVE  Keeps(v, s)
    <2>1. Taken(v)' = Taken(v) /\ job'[v] = job[v]
      BY <1>1 DEF Taken
    <2> QED
      BY <2>1 DEF Keeps, Complete
  <1> QED
    BY <1>1, WayStays

LEMMA ClosingGoesOn ==
  ASSUME BaseInv, Next, ~(\E w \in Workers : Open(w))
  PROVE  ConnectionCloses => ConnectionCloses'
  <1>1. TypeOK
    BY DEF BaseInv
  <1> SUFFICES ASSUME NEW v \in Workers, Closes(v)
               PROVE  Closes(v)'
    BY DEF ConnectionCloses
  <1>2. ASSUME NEW w \in Workers, Step(w) \/ Return(w)
        PROVE  Closes(v)'
    <2>1. CASE v # w
      BY <1>1, <1>2, <2>1, StepIsOwn DEF Closes
    <2>2. CASE v = w
      <3>1. ~Open(w)
        OBVIOUS
      <3>2. Shutdown(w)
        BY <1>2, <2>2, <3>1
        DEF Step, Return, Goes, Lock, Send, CheckConnected, EnterRecv, Recv,
            RecvFails, Scan, CloseFlag, Established, ConnectFails, Closes
      <3> QED
        BY <1>1, <2>2, <3>2 DEF Shutdown, Goes, Closes, TypeOK
    <2> QED
      BY <2>1, <2>2
  <1>3. ASSUME NEW w \in Workers, NEW kind \in Requests, Begin(w, kind)
        PROVE  Closes(v)'
    BY <1>1, <1>3 DEF Begin, Goes, Closes, TypeOK
  <1>4. ASSUME NEW s \in SocketNumbers, RtuAnswers(s) \/ LinkFails(s)
        PROVE  Closes(v)'
    BY <1>4 DEF RtuAnswers, LinkFails, workerVars, Closes
  <1> QED
    BY <1>2, <1>3, <1>4 DEF Next, External

\* Steps of a thread that is not out, or that leaves get_response, and that
\* leave what the sockets carry.
LEMMA WayOfOthers ==
  ASSUME BaseInv, ViaInv, WayInv, NEW w \in Workers,
         \/ Lock(w) \/ CloseFlag(w) \/ Shutdown(w) \/ Established(w) \/ ConnectFails(w)
         \/ RecvFails(w) \/ Return(w) \/ \E kind \in Requests : Begin(w, kind)
         \/ CheckConnected(w) /\ pc'[w] = "got"
  PROVE  WayInv'
  <1>1. TypeOK /\ ConnectInv /\ CallInv
    BY DEF BaseInv
  <1>2. Next /\ ~(\E v \in Workers : Open(v))
    <2>1. Next
      BY DEF Next, Step
    <2>2. pc[w] # "open" /\ \A v \in Workers \ {w} : UNCHANGED pc[v]
      BY <1>1
      DEF Goes, Lock, CloseFlag, Shutdown, Established, ConnectFails, RecvFails,
          Return, Begin, CheckConnected, TypeOK
    <2>3. \A v \in Workers : Open(v) => pc[v] = "open" /\ pc'[v] = "await"
      BY <1>1 DEF Open, Goes, TypeOK
    <2> QED
      BY <2>1, <2>2, <2>3
  <1>3. ConnectionCloses => ConnectionCloses'
    BY <1>2, ClosingGoesOn
  <1>4. ~Out(w)' /\ UNCHANGED <<socket, buf>>
    BY <1>1
    DEF Goes, Out, Lock, CloseFlag, Shutdown, Established, ConnectFails, RecvFails,
        Return, Begin, CheckConnected, TypeOK, clientVars
  <1>5. \A v \in Workers \ {w} :
          pc'[v] = pc[v] /\ response'[v] = response[v] /\ job'[v] = job[v]
    <2>1. CASE \E kind \in Requests : Begin(w, kind)
      BY <1>1, <2>1 DEF Begin, Goes, TypeOK
    <2>2. CASE ~ \E kind \in Requests : Begin(w, kind)
      BY <1>1, <2>2, StepIsOwn DEF Step
    <2> QED
      BY <2>1, <2>2
  <1>6. \A v \in Workers :
          Out(v)' => /\ Out(v) /\ pc'[v] = pc[v] /\ response'[v] = response[v]
                     /\ job'[v] = job[v]
    BY <1>4, <1>5 DEF Out
  <1>7. \A v \in Workers, s \in SocketNumbers :
          job[v].via = s /\ link'[s] = "up"
            => link[s] = "up" /\ toRtu'[s] = toRtu[s] /\ fromRtu'[s] = fromRtu[s]
    <2>1. CASE Shutdown(w)
      BY <1>1, <2>1 DEF Shutdown, TypeOK
    <2>2. CASE Established(w)
      <3>1. link[socket] = "opening" /\ link' = [link EXCEPT ![socket] = "up"]
            /\ UNCHANGED <<toRtu, fromRtu>>
        BY <1>1, <2>2 DEF Established, Goes, ConnectInv
      <3>2. \A v \in Workers, s \in SocketNumbers : job[v].via = s => s # socket
        BY <3>1 DEF ViaInv, Connected
      <3> QED
        BY <1>1, <3>1, <3>2 DEF TypeOK
    <2>3. CASE ConnectFails(w)
      BY <1>1, <2>3 DEF ConnectFails, TypeOK
    <2>4. CASE ~Shutdown(w) /\ ~Established(w) /\ ~ConnectFails(w)
      BY <2>4 DEF Lock, CloseFlag, RecvFails, Return, Begin, CheckConnected, linkVars
    <2> QED
      BY <2>1, <2>2, <2>3, <2>4
  <1> QED
    BY <1>3, <1>4, <1>6, <1>7, WayUntouched

LEMMA WayWhenAnswered ==
  ASSUME BaseInv, WayInv, NEW s \in SocketNumbers, RtuAnswers(s)
  PROVE  WayInv'
  <1>1. TypeOK
    BY DEF BaseInv
  <1>2. UNCHANGED <<socket, buf, link, pc, job, response>>
    BY DEF RtuAnswers, clientVars, workerVars
  <1>3. ConnectionCloses => ConnectionCloses'
    BY <1>2 DEF ConnectionCloses, Closes
  <1>4. ASSUME NEW v \in Workers, Complete(v, s)
        PROVE  Complete(v, s)'
    <2>1. toRtu[s] = <<job[v].n>> /\ fromRtu[s] = <<>> /\ Taken(v) = 0
      BY <1>4 DEF RtuAnswers, Complete
    <2>2. Answer(job[v].n) \in Stream /\ Len(Answer(job[v].n)) = Pieces
      BY <1>1, AnswerWhole DEF TypeOK, Jobs
    <2>3. toRtu'[s] = <<>> /\ fromRtu'[s] = <<>> \o Answer(job[v].n)
      BY <1>1, <2>1 DEF RtuAnswers, TypeOK
    <2>4. <<>> \o Answer(job[v].n) = Answer(job[v].n)
      BY <2>2, ConcatEmptySeq DEF Stream
    <2>5. Taken(v)' = 0 /\ Len(fromRtu'[s]) = Pieces /\ 0 + Pieces = Pieces
      <3>1. Taken(v)' = Taken(v)
        BY <1>2 DEF Taken
      <3>2. 0 + Pieces = Pieces
        BY PiecesPositive
      <3> QED
        BY <2>1, <2>2, <2>3, <2>4, <3>1, <3>2
    <2> QED
      BY <2>3, <2>5 DEF Complete
  <1>5. ASSUME NEW v \in Workers, NEW t \in SocketNumbers
        PROVE  Keeps(v, t)
    <2>1. CASE t = s
      BY <1>2, <1>4, <2>1 DEF Keeps
    <2>2. CASE t # s
      <3>1. fromRtu'[t] = fromRtu[t] /\ toRtu'[t] = toRtu[t] /\ Taken(v)' = Taken(v)
        BY <1>1, <1>2, <2>2 DEF RtuAnswers, TypeOK, Taken
      <3> QED
        BY <1>2, <3>1 DEF Keeps, Complete
    <2> QED
      BY <2>1, <2>2
  <1>6. \A v \in Workers : Out(v)' => Out(v)
    BY <1>2 DEF Out
  <1> QED
    BY <1>2, <1>3, <1>5, <1>6, WayStays

LEMMA WayWhenLinkFails ==
  ASSUME BaseInv, WayInv, NEW s \in SocketNumbers, LinkFails(s)
  PROVE  WayInv'
  <1>1. TypeOK
    BY DEF BaseInv
  <1>2. UNCHANGED <<socket, buf, pc, job, response>>
    BY DEF LinkFails, clientVars, workerVars
  <1>3. ConnectionCloses => ConnectionCloses'
    BY <1>2 DEF ConnectionCloses, Closes
  <1>4. \A v \in Workers : Out(v)' => Out(v)
    BY <1>2 DEF Out
  <1>5. ASSUME NEW t \in SocketNumbers, link'[t] = "up"
        PROVE  link[t] = "up" /\ toRtu'[t] = toRtu[t] /\ fromRtu'[t] = fromRtu[t]
    BY <1>1, <1>5 DEF LinkFails, TypeOK
  <1> QED
    BY <1>2, <1>3, <1>4, <1>5, WayUntouched

\* A command goes out when the current socket is quiet, or while close() is
\* under way.
LEMMA WayWhenSent ==
  ASSUME BaseInv, FrameInv, ViaInv, WayInv, ~shared', NEW w \in Workers, Send(w)
  PROVE  WayInv'
  <1>1. TypeOK /\ LockInv /\ CallInv /\ Next
    BY DEF BaseInv, Next, Step
  <1>2. \A v \in Workers \ {w} :
          pc'[v] = pc[v] /\ job'[v] = job[v] /\ response'[v] = response[v]
    BY <1>1, StepIsOwn DEF Step
  <1>3. /\ job'[w].n = job[w].n
        /\ UNCHANGED <<link, socket, buf, fromRtu, response>>
        /\ pc[w] = "send" /\ pc'[w] \in {"open", "check"}
    BY <1>1, CommandKeepsJob DEF Commands, Send, Goes, TypeOK
  <1>4. \A v \in Workers : ~Out(v) /\ ~Replaces(v)
    BY <1>1, SendsAlone DEF Busy, Replaces
  <1>5. ASSUME NEW v \in Workers, Out(v)'
        PROVE  v = w /\ pc'[w] = "check"
    BY <1>2, <1>3, <1>4, <1>5 DEF Out
  <1>6. \A v \in Workers : ~Reads(v)'
    BY <1>5 DEF Reads, Out
  <1>7. ConnectionCloses => ConnectionCloses'
    <2>1. ~ \E v \in Workers : Open(v)
      <3>1. \A v \in Workers : Open(v) => pc[v] = "open" /\ pc'[v] = "await"
        BY <1>1 DEF Open, Goes, TypeOK
      <3> QED
        BY <1>2, <1>3, <3>1
    <2> QED
      BY <1>1, <2>1, ClosingGoesOn
  <1>8. Taken(w)' = 0
    <2>1. buf = <<>> /\ response[w] = <<>>
      BY <1>1, <1>3, <1>4 DEF FrameInv, BuffersInv, Out, CallInv
    <2> QED
      BY <1>3, <2>1 DEF Taken
  <1>9. ASSUME NEW s \in SocketNumbers, job'[w].via = s, link'[s] = "up",
               ~ConnectionCloses
        PROVE  Complete(w, s)'
    <2>1. Quiet(socket)
      BY <1>4, <1>9 DEF FrameInv, SocketIsQuiet, ConnectionCloses
    <2>2. s # 0
      BY MaxSocketsPositive DEF SocketNumbers
    <2>3. job[w].goes
      BY <1>1, <1>9, <2>2 DEF Send, TypeOK, Jobs
    <2>4. PICK sent \in Sendable(socket) :
            /\ job' = [job EXCEPT ![w].via = IF sent THEN socket ELSE 0,
                                  ![w].goes = FALSE]
            /\ toRtu' = IF sent /\ link[socket] = "up"
                        THEN [toRtu EXCEPT ![socket] = Append(@, job[w].n)]
                        ELSE toRtu
      BY <2>3 DEF Send
    <2>5. job'[w].via = IF sent THEN socket ELSE 0
      BY <1>1, <2>4 DEF TypeOK, Jobs
    <2>6. sent /\ s = socket /\ link[socket] = "up"
      BY <1>3, <1>9, <2>2, <2>5
    <2>7. toRtu'[s] = Append(<<>>, job[w].n)
      BY <1>1, <2>1, <2>4, <2>6 DEF Quiet, TypeOK
    <2>8. Append(<<>>, job[w].n) = <<job[w].n>>
      OBVIOUS
    <2>9. fromRtu'[s] = <<>>
      BY <1>3, <2>1, <2>6 DEF Quiet
    <2> QED
      BY <1>3, <1>8, <2>7, <2>8, <2>9 DEF Complete
  <1>10. ASSUME NEW s \in SocketNumbers, job'[w].via = s, ConnectionCloses,
                link'[s] = "up"
         PROVE  s = socket'
    <2>1. s # 0
      BY MaxSocketsPositive DEF SocketNumbers
    <2>2. job'[w].via \in {0, socket}
      <3>1. CASE job[w].goes
        <4>1. PICK v \in {0, socket} :
                job' = [job EXCEPT ![w].via = v, ![w].goes = FALSE]
          BY <3>1 DEF Send
        <4> QED
          BY <1>1, <4>1 DEF TypeOK, Jobs
      <3>2. CASE ~job[w].goes
        BY <1>1, <3>2 DEF Send, TypeOK, Jobs
      <3> QED
        BY <3>1, <3>2
    <2> QED
      BY <1>3, <1>10, <2>1, <2>2
  <1>11. ASSUME NEW v \in Workers, Out(v)', NEW s \in SocketNumbers
         PROVE  OnItsWay(v, s)'
    <2>1. v = w /\ pc'[w] = "check"
      BY <1>5, <1>11
    <2> QED
      BY <1>7, <1>9, <1>10, <2>1 DEF OnItsWay
  <1> QED
    BY <1>6, <1>11 DEF WayInv

\* The thread begins to read: the connection is not being closed.
LEMMA WayWhenChecked ==
  ASSUME BaseInv, FrameInv, WayInv, NEW w \in Workers, CheckConnected(w),
         pc'[w] = "enter"
  PROVE  WayInv'
  <1>1. TypeOK /\ ConnectInv /\ CallInv
    BY DEF BaseInv
  <1>2. \A v \in Workers \ {w} :
          pc'[v] = pc[v] /\ job'[v] = job[v] /\ response'[v] = response[v]
    BY <1>1, StepIsOwn DEF Step
  <1>3. /\ pc[w] = "check" /\ is_connected
        /\ UNCHANGED <<socket, buf, job, link, toRtu, fromRtu>>
        /\ response'[w] = leftover_buffer
    BY <1>1 DEF CheckConnected, Goes, Gets, linkVars, TypeOK
  <1>4. Out(w) /\ \A v \in Workers \ {w} : ~Out(v)
    BY <1>3 DEF FrameInv, OneIsOut, Out
  <1>5. response[w] = <<>> /\ response'[w] = <<>>
    BY <1>1, <1>3 DEF FrameInv, BuffersInv, CallInv
  <1>6. ~ConnectionCloses
    BY <1>1, <1>3 DEF ConnectInv, ConnectionCloses
  <1>7. \A v \in Workers : Out(v)' => v = w
    BY <1>2, <1>4 DEF Out
  <1>8. Len(response'[w]) < Pieces
    BY <1>5, PiecesPositive
  <1>9. ASSUME NEW s \in SocketNumbers
        PROVE  OnItsWay(w, s)'
    <2>1. OnItsWay(w, s)
      BY <1>4 DEF WayInv
    <2>2. Complete(w, s) => Complete(w, s)'
      <3>1. Taken(w)' = Taken(w)
        BY <1>3, <1>5 DEF Taken
      <3> QED
        BY <1>3, <3>1 DEF Complete
    <2> QED
      BY <1>3, <1>6, <2>1, <2>2 DEF OnItsWay
  <1> QED
    BY <1>7, <1>8, <1>9 DEF WayInv, Reads, Out

LEMMA WayWhenEntered ==
  ASSUME BaseInv, WayInv, NEW w \in Workers, EnterRecv(w)
  PROVE  WayInv'
  <1>1. TypeOK
    BY DEF BaseInv
  <1>2. \A v \in Workers \ {w} :
          pc'[v] = pc[v] /\ job'[v] = job[v] /\ response'[v] = response[v]
    BY <1>1, StepIsOwn DEF Step
  <1>3. /\ pc[w] = "enter" /\ pc'[w] = "recv"
        /\ UNCHANGED <<socket, buf, link, toRtu, fromRtu, response>>
        /\ job'[w].n = job[w].n /\ job'[w].via = job[w].via
    BY <1>1 DEF EnterRecv, Goes, TypeOK, Jobs, clientVars, linkVars
  <1>4. ASSUME NEW v \in Workers
        PROVE  /\ Reads(v)' => Reads(v)
               /\ Out(v)' => Out(v)
               /\ pc'[v] = "check" <=> pc[v] = "check"
               /\ Closes(v)' <=> Closes(v)
               /\ job'[v].n = job[v].n /\ job'[v].via = job[v].via
               /\ Taken(v)' = Taken(v)
    BY <1>2, <1>3 DEF Reads, Out, Closes, Taken
  <1>5. ConnectionCloses => ConnectionCloses'
    BY <1>4 DEF ConnectionCloses
  <1>6. ASSUME NEW v \in Workers, Out(v)', NEW s \in SocketNumbers
        PROVE  OnItsWay(v, s)'
    <2>1. OnItsWay(v, s)
      BY <1>4, <1>6 DEF WayInv
    <2>2. Complete(v, s) => Complete(v, s)'
      BY <1>3, <1>4 DEF Complete
    <2> QED
      BY <1>3, <1>4, <1>5, <2>1, <2>2 DEF OnItsWay
  <1> QED
    BY <1>3, <1>4, <1>6 DEF WayInv

LEMMA WayWhenReceived ==
  ASSUME BaseInv, FrameInv, WayInv, NEW w \in Workers, Recv(w)
  PROVE  WayInv'
  <1> SUFFICES ASSUME NEW s, s = job[w].at
               PROVE  WayInv'
    OBVIOUS
  <1>1. TypeOK /\ CallInv
    BY DEF BaseInv
  <1>2. \A v \in Workers \ {w} :
          pc'[v] = pc[v] /\ job'[v] = job[v] /\ response'[v] = response[v]
    BY <1>1, StepIsOwn DEF Step
  <1>3. /\ pc[w] = "recv" /\ pc'[w] = "scan"
        /\ UNCHANGED <<socket, link, toRtu, response>>
    BY <1>1 DEF Recv, Goes, TypeOK
  <1>4. Out(w) /\ Reads(w) /\ ReadsFrom(w) = s /\ \A v \in Workers \ {w} : ~Out(v)
    BY <1>3 DEF FrameInv, OneIsOut, Out, Reads, ReadsFrom
  <1>5. buf = <<>>
    BY <1>3, <1>4 DEF FrameInv, BuffersInv, Out
  <1>6. PICK k \in 1 .. Len(fromRtu[s]) :
          /\ buf' = SubSeq(fromRtu[s], 1, k) \o Behind(buf, k)
          /\ fromRtu' = [fromRtu EXCEPT ![s] = Behind(@, k)]
          /\ job' = [job EXCEPT ![w].count = k]
    BY DEF Recv
  <1>7. job'[w].n = job[w].n /\ job'[w].via = job[w].via
    BY <1>1, <1>6 DEF TypeOK, Jobs
  <1>8. s \in SocketNumbers /\ fromRtu[s] \in Stream /\ Len(fromRtu[s]) \in Nat
    BY <1>1, <1>3, LenProperties DEF TypeOK, CallInv, Stream
  <1>9. k \in 0 .. Len(fromRtu[s]) /\ k \in Nat /\ k # 0 /\ fromRtu[s] # <<>>
    BY <1>6, <1>8
  <1>10. job[w].via = s /\ toRtu[s] = <<>>
    BY <1>4, <1>9 DEF FrameInv, PartsFollow, Brings, Quiet
  <1>11. /\ Len(buf') = k /\ fromRtu'[s] = Behind(fromRtu[s], k)
         /\ Len(Behind(fromRtu[s], k)) = Len(fromRtu[s]) - k
    <2>1. Behind(<<>>, k) = <<>>
      BY <1>9 DEF Behind
    <2>2. SubSeq(fromRtu[s], 1, k) \in Stream /\ Len(SubSeq(fromRtu[s], 1, k)) = k
          /\ Len(Behind(fromRtu[s], k)) = Len(fromRtu[s]) - k
      BY <1>8, <1>9, PartIsCut
    <2>3. SubSeq(fromRtu[s], 1, k) \o <<>> = SubSeq(fromRtu[s], 1, k)
      BY <2>2, ConcatEmptySeq DEF Stream
    <2>4. Len(buf') = k
      BY <1>5, <1>6, <2>1, <2>2, <2>3
    <2>5. fromRtu'[s] = Behind(fromRtu[s], k)
      BY <1>1, <1>6, <1>8 DEF TypeOK
    <2> QED
      BY <2>2, <2>4, <2>5
  <1>12. Taken(w) \in Nat /\ Taken(w)' = Taken(w) + k
    <2>1. Len(buf) = 0
      BY <1>5
    <2>2. Len(response[w]) \in Nat
      BY <1>1, LenProperties DEF TypeOK, Stream
    <2> QED
      BY <1>3, <1>9, <1>11, <2>1, <2>2 DEF Taken
  <1>13. ASSUME Complete(w, s)
         PROVE  Complete(w, s)'
    <2>1. Taken(w) + Len(fromRtu[s]) = Pieces
      BY <1>9, <1>13 DEF Complete
    <2>2. Taken(w)' + Len(fromRtu'[s]) = Pieces
      BY <1>8, <1>9, <1>11, <1>12, <2>1
    <2> QED
      BY <1>3, <1>10, <2>2 DEF Complete
  <1>14. ASSUME NEW t \in SocketNumbers
         PROVE  OnItsWay(w, t)'
    <2>1. OnItsWay(w, t)
      BY <1>4 DEF WayInv
    <2> QED
      BY <1>3, <1>7, <1>10, <1>13, <2>1 DEF OnItsWay
  <1>15. \A v \in Workers : Out(v)' => v = w
    BY <1>2, <1>4 DEF Out
  <1>16. Len(response'[w]) < Pieces
    BY <1>3, <1>4 DEF WayInv
  <1> QED
    BY <1>14, <1>15, <1>16 DEF WayInv, Reads, Out

\* The scan of pieces without an end: they are not the whole answer.
LEMMA NoEndNotWhole ==
  ASSUME NEW n \in Nat, NEW k \in Nat, NEW q \in Stream, AnswerPart(q, n, k),
         k < Pieces, Ends(q) = {}
  PROVE  k + Len(q) < Pieces
  <1>1. Len(q) \in Nat /\ Pieces \in Nat /\ DOMAIN q = 1 .. Len(q)
    BY PiecesPositive, LenProperties DEF Stream
  <1>2. k + Len(q) <= Pieces
    BY DEF AnswerPart
  <1>3. ASSUME k + Len(q) = Pieces
        PROVE  FALSE
    <2>1. Len(q) \in 1 .. Len(q)
      BY <1>1, <1>3
    <2>2. q[Len(q)] = Piece(n, Pieces)
      BY <1>3, <2>1 DEF AnswerPart
    <2>3. q[Len(q)].last
      BY <1>1, <2>2, PieceProperties
    <2> QED
      BY <1>1, <2>1, <2>3 DEF Ends
  <1> QED
    BY <1>1, <1>2, <1>3

LEMMA WayWhenScanned ==
  ASSUME BaseInv, FrameInv, WayInv, NEW w \in Workers, Scan(w)
  PROVE  WayInv'
  <1> DEFINE n == job[w].n
  <1>1. TypeOK /\ CallInv
    BY DEF BaseInv
  <1>2. \A v \in Workers \ {w} :
          pc'[v] = pc[v] /\ job'[v] = job[v] /\ response'[v] = response[v]
    BY <1>1, StepIsOwn DEF Step
  <1>3. pc[w] = "scan" /\ UNCHANGED <<socket, link, toRtu, fromRtu>>
    BY DEF Scan, Goes, linkVars
  <1>4. Out(w) /\ Reads(w) /\ \A v \in Workers \ {w} : ~Out(v)
    BY <1>3 DEF FrameInv, OneIsOut, Out, Reads
  <1>5. buf' = <<>>
    BY <1>4 DEF Scan, Out
  <1>6. /\ AnswerPart(response[w], n, 0) /\ AnswerPart(buf, n, Len(response[w]))
        /\ Len(response[w]) < Pieces
    BY <1>4 DEF FrameInv, PartsFollow, WayInv
  <1>7. /\ response[w] \in Stream /\ buf \in Stream
        /\ n \in Nat /\ Len(response[w]) \in Nat /\ Len(buf) \in Nat
    BY <1>1, TakenIsNat DEF TypeOK
  <1>8. SubSeq(buf, 1, job[w].count) = buf
    <2>1. job[w].count = Len(buf)
      BY <1>3 DEF FrameInv, BuffersInv
    <2> QED
      BY <1>7, <2>1, SubSeqFull DEF Stream
  <1>9. job'[w].n = n /\ job'[w].via = job[w].via
    BY <1>1 DEF Scan, TypeOK, Jobs
  <1>10. \A v \in Workers : Out(v)' => v = w
    BY <1>2, <1>4 DEF Out
  <1>11. CASE Ends(buf) = {}
    <2>1. pc'[w] = "enter" /\ response'[w] = response[w] \o buf
      BY <1>1, <1>8, <1>11 DEF Scan, Goes, Gets, TypeOK
    <2>2. Len(response'[w]) = Len(response[w]) + Len(buf)
      BY <1>6, <1>7, <2>1, PartThenPart
    <2>3. Len(response'[w]) < Pieces
      BY <1>6, <1>7, <1>11, <2>2, NoEndNotWhole
    <2>4. Taken(w)' = Taken(w)
      <3>1. Len(buf') = 0
        BY <1>5
      <3> QED
        BY <1>7, <2>2, <3>1 DEF Taken
    <2>5. ASSUME NEW s \in SocketNumbers
          PROVE  OnItsWay(w, s)'
      <3>1. OnItsWay(w, s)
        BY <1>4 DEF WayInv
      <3>2. Complete(w, s) => Complete(w, s)'
        BY <1>3, <1>9, <2>4 DEF Complete
      <3> QED
        BY <1>3, <1>9, <3>1, <3>2 DEF OnItsWay
    <2> QED
      BY <1>10, <2>3, <2>5 DEF WayInv, Reads, Out
  <1>12. CASE Ends(buf) # {}
    <2>1. pc'[w] = "got"
      BY <1>1, <1>8, <1>12 DEF Scan, Goes, TypeOK
    <2>2. \A v \in Workers : ~Out(v)'
      BY <1>10, <2>1 DEF Out
    <2> QED
      BY <2>2 DEF WayInv, Reads, Out
  <1> QED
    BY <1>11, <1>12

\* Another socket becomes current.  Where close() was under way the one before
\* is down.
LEMMA WayWhenOpened ==
  ASSUME BaseInv, ViaInv, WayInv, NEW w \in Workers, Open(w)
  PROVE  WayInv'
  <1>1. TypeOK /\ ConnectInv /\ LinkInv
    BY DEF BaseInv
  <1>2. \A v \in Workers \ {w} :
          pc'[v] = pc[v] /\ job'[v] = job[v] /\ response'[v] = response[v]
    BY <1>1, StepIsOwn DEF Step
  <1>3. /\ pc[w] = "open" /\ pc'[w] = "await" /\ UNCHANGED buf
        /\ job[w].kind \in {"connect", "settings"}
    BY <1>1 DEF Open, Goes, TypeOK, ConnectInv
  <1>4. /\ NextSocket \in SocketNumbers /\ link[NextSocket] = "unused"
        /\ socket \in SocketNumbers
    BY <1>1, NextSocketIsUnused DEF Open, TypeOK
  <1>5. ASSUME NEW s \in SocketNumbers, link'[s] = "up"
        PROVE  /\ link[s] = "up" /\ toRtu'[s] = toRtu[s] /\ fromRtu'[s] = fromRtu[s]
    BY <1>1, <1>4, <1>5 DEF Open, TypeOK
  <1>6. ConnectionCloses => link[socket] = "down"
    <2> SUFFICES ASSUME NEW v \in Workers, Closes(v)
                 PROVE  link[socket] = "down"
      BY DEF ConnectionCloses
    <2>1. Connects(v) /\ Connects(w)
      BY <1>3 DEF Closes, Connects
    <2>2. v = w
      BY <1>1, <2>1 DEF ConnectInv
    <2> QED
      BY <1>3, <2>2 DEF ViaInv, Closes
  <1>7. ASSUME NEW v \in Workers, Out(v)'
        PROVE  v # w /\ Out(v) /\ (Reads(v)' => Reads(v))
    BY <1>2, <1>3, <1>7 DEF Out, Reads
  <1>8. ASSUME NEW v \in Workers, Out(v)', NEW s \in SocketNumbers
        PROVE  OnItsWay(v, s)'
    <2>1. OnItsWay(v, s)
      BY <1>7, <1>8 DEF WayInv
    <2>2. /\ job'[v] = job[v] /\ Taken(v)' = Taken(v)
      BY <1>2, <1>3, <1>7, <1>8 DEF Taken
    <2> SUFFICES ASSUME job'[v].via = s, link'[s] = "up"
                 PROVE  Complete(v, s)'
      BY DEF OnItsWay
    <2>3. Complete(v, s)
      BY <1>5, <1>6, <2>1, <2>2 DEF OnItsWay
    <2> QED
      BY <1>5, <2>2, <2>3 DEF Complete
  <1>9. \A v \in Workers : Reads(v)' => Len(response'[v]) < Pieces
    <2>1. \A v \in Workers : Reads(v)' => Out(v)'
      BY DEF Reads, Out
    <2> QED
      BY <1>2, <1>7, <2>1 DEF WayInv
  <1> QED
    BY <1>8, <1>9 DEF WayInv

LEMMA AwaitedInit == Init => AwaitedInv
  <1> SUFFICES ASSUME Init
               PROVE  AwaitedInv
    OBVIOUS
  <1>1. \A s \in SocketNumbers : s # 0
    BY MaxSocketsPositive DEF SocketNumbers
  <1>2. \A w \in Workers : pc[w] = "idle" /\ job[w].via = 0
    BY DEF Init, NoJob
  <1>3. ViaInv
    BY <1>1, <1>2 DEF ViaInv
  <1>4. WayInv
    BY <1>2 DEF WayInv, Reads, Out
  <1> QED
    BY <1>3, <1>4 DEF AwaitedInv

LEMMA AwaitedStep == ChannelInv /\ AwaitedInv /\ [Next]_vars => AwaitedInv'
  <1> SUFFICES ASSUME ChannelInv, AwaitedInv, [Next]_vars
               PROVE  AwaitedInv'
    OBVIOUS
  <1>1. BaseInv /\ ViaInv
    BY DEF ChannelInv, AwaitedInv
  <1>2. CASE Next
    <2>1. ViaInv'
      BY <1>1, <1>2, ViaStep
    <2>2. shared => shared'
      BY <1>2 DEF Next, Step, External, Begin, Lock, Send, CheckConnected,
         EnterRecv, Recv, RecvFails, Scan, Return, CloseFlag, Shutdown, Open,
         Established, ConnectFails, RtuAnswers, LinkFails
    <2>3. ASSUME ~shared'
          PROVE  WayInv'
      <3>1. FrameInv /\ WayInv
        BY <2>2, <2>3 DEF ChannelInv, AwaitedInv
      <3>2. ASSUME NEW w \in Workers, CheckConnected(w)
            PROVE  WayInv'
        <4>1. pc'[w] \in {"got", "enter"}
          BY <1>1, <3>2 DEF CheckConnected, Goes, BaseInv, TypeOK
        <4> QED
          BY <1>1, <3>1, <3>2, <4>1, WayOfOthers, WayWhenChecked
      <3>3. ASSUME NEW w \in Workers, Step(w)
            PROVE  WayInv'
        BY <1>1, <2>3, <3>1, <3>2, <3>3, WayOfOthers, WayWhenSent, WayWhenEntered,
           WayWhenReceived, WayWhenScanned, WayWhenOpened DEF Step
      <3>4. ASSUME NEW w \in Workers,
                   Return(w) \/ \E kind \in Requests : Begin(w, kind)
            PROVE  WayInv'
        BY <1>1, <3>1, <3>4, WayOfOthers
      <3>5. ASSUME NEW s \in SocketNumbers, RtuAnswers(s) \/ LinkFails(s)
            PROVE  WayInv'
        BY <1>1, <3>1, <3>5, WayWhenAnswered, WayWhenLinkFails
      <3> QED
        BY <1>2, <3>3, <3>4, <3>5 DEF Next, External
    <2> QED
      BY <2>1, <2>3 DEF AwaitedInv
  <1>3. CASE UNCHANGED vars
    <2>1. UNCHANGED <<socket, buf, link, toRtu, fromRtu, pc, job, response, shared>>
      BY <1>3 DEF vars, clientVars, linkVars, workerVars
    <2>2. ViaInv => ViaInv'
      BY <2>1 DEF ViaInv, Connected
    <2>3. ConnectionCloses' <=> ConnectionCloses
      BY <2>1 DEF ConnectionCloses, Closes
    <2>4. WayInv => WayInv'
      <3>1. \A w \in Workers, s \in SocketNumbers : Complete(w, s)' <=> Complete(w, s)
        BY <2>1 DEF Complete, Taken
      <3>2. \A w \in Workers, s \in SocketNumbers : OnItsWay(w, s) => OnItsWay(w, s)'
        BY <2>1, <2>3, <3>1 DEF OnItsWay
      <3> QED
        BY <2>1, <3>2 DEF WayInv, Reads, Out
    <2> QED
      BY <2>1, <2>2, <2>4 DEF AwaitedInv
  <1> QED
    BY <1>2, <1>3

\* No thread waits in recv() on a connection that is up for an answer that
\* cannot come any more, for any threads, requests, connections and pieces:
\* unless commands have gone out beside each other, or it reads another socket
\* than the one it sent on, its command or a piece of its answer is there.
THEOREM AnswersAreAwaitedForAReason == Spec => []AnswersAreOnTheirWay
  <1>1. ChannelInv /\ AwaitedInv => AnswersAreOnTheirWay
    <2> SUFFICES ASSUME ChannelInv, AwaitedInv, NEW w \in Workers,
                        pc[w] = "recv", ~shared, job[w].at = job[w].via,
                        link[job[w].at] = "up",
                        toRtu[job[w].at] = <<>>, fromRtu[job[w].at] = <<>>
                 PROVE  FALSE
      BY DEF AnswersAreOnTheirWay
    <2>1. TypeOK /\ CallInv /\ FrameInv /\ WayInv
      BY DEF ChannelInv, BaseInv, AwaitedInv
    <2>2. job[w].at \in SocketNumbers
      BY <2>1 DEF CallInv
    <2>3. OnItsWay(w, job[w].at) /\ Len(response[w]) < Pieces
      BY <2>1, <2>2 DEF WayInv, Out, Reads
    <2>4. Complete(w, job[w].at)
      BY <2>3 DEF OnItsWay
    <2>5. Taken(w) + 0 = Pieces
      BY <2>4 DEF Complete
    <2>6. buf = <<>>
      BY <2>1 DEF FrameInv, OneIsOut, Out, BuffersInv
    <2>7. Len(response[w]) \in Nat /\ Len(buf) = 0
      BY <2>1, <2>6, LenProperties DEF TypeOK, Stream
    <2> QED
      BY <2>3, <2>5, <2>7 DEF Taken
  <1> QED
    BY ChannelInit, ChannelStep, AwaitedInit, AwaitedStep, <1>1, PTL DEF Spec

=============================================================================
