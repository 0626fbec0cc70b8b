------------------------ MODULE GstcConnectionProofs ------------------------
(***************************************************************************)
(* Proofs about GstcConnection for any number of threads, calls,           *)
(* connections, pieces and chunks, whether or not the daemon dies and      *)
(* whether or not its writes are whole.                                    *)
(***************************************************************************)
EXTENDS GstcConnection, SequenceTheorems, WellFoundedInduction, TLAPS

\* Where a caller may be.
Where == {"idle", "check", "setsockopt", "connect", "send", "ufds", "poll", "respond",
          "recv", "spin", "stuck", "close"}

\* A thread that is in a call has begun one.
Begun == \A u \in Caller : pc[u] # "idle" => calls[u] # 0

TypeInv == TypeOK /\ Begun

-----------------------------------------------------------------------------
(* A client that one thread uses. *)

OneCaller == \A u, v \in Caller : u = v

\* A kept connection is never given up on: its caller waits for the answer, which fits, and
\* its requests are read whole.
Patience ==
  \A c \in Clients : c.keep =>
    Caller \subseteq c.patient /\ c.pieces = 1 /\ MaxChunks < MaxResponse

\* Nothing is left of a call, when it opens its connection.
Tidy ==
  PerCall => mine \subseteq {socket} /\ ((\A u \in Caller : pc[u] = "idle") => mine = {})

\* All that is on connection c, and what its caller has of an answer, is of call k.
AllOf(q, k) == \A i \in 1 .. Len(q) : q[i] = k
OfAll(q, k) == \A i \in 1 .. Len(q) : q[i].of = k
Labelled(c, k, a) ==
  /\ AllOf(up[c], k) /\ AllOf(work[c], k)
  /\ OfAll(wire[c], k) /\ OfAll(down[c], k) /\ OfAll(a, k)

\* Nothing is on connection c.
Quiet(c) == up[c] = <<>> /\ work[c] = <<>> /\ wire[c] = <<>> /\ down[c] = <<>>

\* A terminator is the last of what arrived and of what is on its way.
Ends(d, w) ==
  /\ \A i \in 1 .. Len(d) : d[i].last => i = Len(d) /\ w = <<>>
  /\ \A i \in 1 .. Len(w) : w[i].last => i = Len(w)

\* One request at most is on connection c, or its answer, of which the caller has a.
One(c, a) ==
  /\ up[c] # <<>> => Len(up[c]) = 1 /\ work[c] = <<>>
  /\ up[c] # <<>> \/ work[c] # <<>> => wire[c] = <<>> /\ down[c] = <<>> /\ a = <<>>
  /\ Ends(down[c], wire[c])
  /\ Len(a) + Len(down[c]) + Len(wire[c]) <= MaxChunks

\* The connection a kept client has, and the state of those to come and of the dead.
Kept ==
  ~PerCall => opened = 1 /\ socket = 1 /\ mine = {1} /\ linked = {1} /\ (alive => theirs = {1})
Ahead == \A c \in Conn : c > opened => Quiet(c)
Dead == ~alive => theirs = {} /\ \A c \in Conn : up[c] = <<>> /\ work[c] = <<>>

Opening == {"check", "setsockopt", "connect", "send"}
Answered == {"ufds", "poll", "respond", "recv"}

InCall(u) ==
  /\ pc[u] \in Opening \cup Answered /\ socket # None =>
       Labelled(socket, <<u, calls[u]>>, acc[u])
  /\ pc[u] \in {"poll", "recv"} => fd[u] = socket
  /\ ~PerCall /\ pc[u] \in {"idle", "send", "close"} => Quiet(1)
  /\ ~PerCall /\ pc[u] \in Answered => One(1, acc[u])
  /\ pc[u] \in {"check", "setsockopt", "connect"} => PerCall
  /\ pc[u] = "close" /\ got[u].status = "OK" => got[u].of = <<u, calls[u]>>

OwnInv == TypeInv /\ Kept /\ Ahead /\ Dead /\ \A u \in Caller : InCall(u)

-----------------------------------------------------------------------------
(* What the operators of the model return. *)

USE DEF netVars, Goto, Fail

\* The bounds are numbers.
LEMMA Bounds ==
  /\ MaxCalls \in Nat /\ MaxConns \in Nat \ {0} /\ MaxChunks \in Nat \ {0}
  /\ MaxResponse \in Nat \ {0}
BY GstcConnectionAssumption

\* The first of a set of places in a sequence is one of them.
LEMMA MinOf ==
  ASSUME NEW S \in SUBSET Nat, S # {}
  PROVE  Min(S) \in S
<1> DEFINE R == OpToRel(<, Nat)
<1>1. IsWellFoundedOn(R, Nat)
  BY NatLessThanWellFounded
<1>2. PICK x \in S : \A y \in S : ~ (<<y, x>> \in R)
  BY <1>1, WFMin
<1>3. \A y \in S : ~ (y < x)
  <2> SUFFICES ASSUME NEW y \in S, y < x PROVE FALSE
    OBVIOUS
  <2>1. <<y, x>> \in R
    BY DEF OpToRel
  <2> QED
    BY <1>2, <2>1
<1>4. \A y \in S : x =< y
  BY <1>3
<1> QED
  BY <1>4 DEF Min

\* The answer to requests run together, and no call, are not the answer to a call.
LEMMA NotCalls == Garbled \notin Call /\ NoCall \notin Call
BY GstcConnectionAssumption DEF Call, Garbled, NoCall

\* What a call may return, an error included.
Reply == [status : Status, of : Call \cup {Garbled, NoCall}]

\* An error is a reply.
LEMMA FailReply == \A s \in Status : [status |-> s, of |-> NoCall] \in Reply
<1> TAKE s \in Status
<1>1. NoCall \in Call \cup {Garbled, NoCall}
  BY Zenon
<1> HIDE DEF NoCall
<1> QED
  BY ONLY <1>1, s \in Status DEF Reply

\* A function of which one value was replaced by another of its range.
LEMMA Put ==
  ASSUME NEW D, NEW S, NEW f \in [D -> S], NEW d \in D, NEW v \in S
  PROVE  [f EXCEPT ![d] = v] \in [D -> S]
OBVIOUS

\* The pieces a read takes a queue apart into.
LEMMA Split ==
  ASSUME NEW S, NEW q \in Seq(S), NEW n \in 1 .. Len(q)
  PROVE  /\ SubSeq(q, 1, n) \in Seq(S) /\ Len(SubSeq(q, 1, n)) = n
         /\ \A i \in 1 .. n : SubSeq(q, 1, n)[i] = q[i]
         /\ SubSeq(q, n + 1, Len(q)) \in Seq(S)
         /\ Len(SubSeq(q, n + 1, Len(q))) = Len(q) - n
         /\ \A i \in 1 .. Len(q) - n : SubSeq(q, n + 1, Len(q))[i] = q[n + i]
<1>1. \A i \in 1 .. Len(q) : q[i] \in S
  BY ElementOfSeq
<1>2. n \in Int /\ Len(q) \in Int /\ n + 1 \in Int /\ 1 <= n /\ n <= Len(q)
  OBVIOUS
<1>3. /\ SubSeq(q, 1, n) \in Seq(S)
      /\ Len(SubSeq(q, 1, n)) = IF 1 <= n THEN n - 1 + 1 ELSE 0
      /\ \A i \in 1 .. n - 1 + 1 : SubSeq(q, 1, n)[i] = q[1 + i - 1]
  <2>1. \A i \in 1 .. n : q[i] \in S
    BY <1>1, <1>2
  <2> QED
    BY <1>2, <2>1, SubSeqProperties
<1>4. /\ SubSeq(q, n + 1, Len(q)) \in Seq(S)
      /\ Len(SubSeq(q, n + 1, Len(q))) =
           IF n + 1 <= Len(q) THEN Len(q) - (n + 1) + 1 ELSE 0
      /\ \A i \in 1 .. Len(q) - (n + 1) + 1 : SubSeq(q, n + 1, Len(q))[i] = q[n + 1 + i - 1]
  <2>1. \A i \in n + 1 .. Len(q) : q[i] \in S
    BY <1>1, <1>2
  <2> QED
    BY <1>2, <2>1, SubSeqProperties
<1>5. n - 1 + 1 = n /\ Len(q) - (n + 1) + 1 = Len(q) - n
  BY <1>2
<1>6. \A i \in 1 .. n : 1 + i - 1 = i
  BY <1>2
<1>7. \A i \in 1 .. Len(q) - n : n + 1 + i - 1 = n + i
  BY <1>2
<1>8. Len(SubSeq(q, n + 1, Len(q))) = Len(q) - n
  BY <1>2, <1>4
<1> QED
  BY <1>2, <1>3, <1>4, <1>5, <1>6, <1>7, <1>8

\* An answer is read off the first of the chunks, or there is none.
LEMMA AnswerOf ==
  ASSUME NEW q \in Seq(Chunk), q # <<>>
  PROVE  \/ /\ Answer(q) = [status |-> "OK", of |-> q[1].of] /\ q[1].part = 1
         \/ Answer(q) = [status |-> "MALFORMED", of |-> NoCall]
<1> DEFINE P == {i \in DOMAIN q : q[i].last \/ i = Len(q)}
           n == Min(P)
<1>1. DOMAIN q = 1 .. Len(q) /\ Len(q) \in Nat \ {0}
  OBVIOUS
<1>2. P \in SUBSET Nat /\ Len(q) \in P
  BY <1>1
<1>3. n \in P
  <2> HIDE DEF P
  <2> QED
    BY <1>2, MinOf
<1>4. n \in Nat /\ 1 \in 1 .. n
  BY <1>1, <1>3
<1> DEFINE whole == \A i \in 1 .. n : q[i].of = q[1].of /\ q[i].part = i
<1>5. Answer(q) = IF whole /\ q[n].last THEN [status |-> "OK", of |-> q[1].of]
                  ELSE [status |-> "MALFORMED", of |-> NoCall]
  BY DEF Answer
<1>6. whole => q[1].part = 1
  BY <1>4
<1> HIDE DEF whole
<1> QED
  BY <1>5, <1>6


\* A sequence that another is appended to ends with the other's end.
LEMMA Joined ==
  ASSUME NEW S, NEW s \in Seq(S), NEW t \in Seq(S), NEW n, n = Len(t), n \in Nat \ {0}
  PROVE  /\ s \o t \in Seq(S) /\ Len(s \o t) = Len(s) + n
         /\ s \o t # <<>> /\ (s \o t)[Len(s \o t)] = t[n]
<1>1. /\ s \o t \in Seq(S) /\ Len(s \o t) = Len(s) + Len(t)
      /\ \A i \in 1 .. Len(s) + Len(t) : (s \o t)[i] =
           IF i <= Len(s) THEN s[i] ELSE t[i - Len(s)]
  BY ConcatProperties
<1>2. Len(s) \in Nat /\ Len(s) + n \in 1 .. Len(s) + n /\ ~ (Len(s) + n <= Len(s))
      /\ Len(s) + n - Len(s) = n
  OBVIOUS
<1>3. (s \o t)[Len(s) + n] = t[n]
  BY <1>1, <1>2
<1>4. s \o t # <<>>
  BY <1>1, <1>2
<1> QED
  BY <1>1, <1>3, <1>4


\* The chunks a write sends, the last of them with the terminator if it is whole.
Chunks(k, n, whole) == [i \in 1 .. n |-> [of |-> k, part |-> i, last |-> whole /\ i = n]]

\* They are one after the other.
LEMMA Written ==
  ASSUME NEW k \in Call \cup {Garbled}, NEW n \in 1 .. MaxChunks, NEW whole \in BOOLEAN
  PROVE  /\ Chunks(k, n, whole) \in Seq(Chunk) /\ Len(Chunks(k, n, whole)) = n
         /\ OfAll(Chunks(k, n, whole), k) /\ Ends(<<>>, Chunks(k, n, whole))
<1> DEFINE a == Chunks(k, n, whole)
<1>1. \A i \in 1 .. n : a[i] \in Chunk /\ a[i].of = k /\ (a[i].last => i = n)
  <2> SUFFICES ASSUME NEW i \in 1 .. n
               PROVE  a[i] \in Chunk /\ a[i].of = k /\ (a[i].last => i = n)
    OBVIOUS
  <2>1. a[i] = [of |-> k, part |-> i, last |-> whole /\ i = n] /\ i \in 1 .. MaxChunks
    BY Bounds DEF Chunks
  <2>2. (whole /\ i = n) \in BOOLEAN
    OBVIOUS
  <2>3. [of |-> k, part |-> i, last |-> whole /\ i = n] \in Chunk
    BY <2>1, <2>2, Zenon DEF Chunk
  <2>4. a[i].of = k /\ a[i].last = (whole /\ i = n)
    BY <2>1
  <2> QED
    BY <2>1, <2>3, <2>4, Zenon
<1>2. n \in Nat /\ a = [i \in 1 .. n |-> a[i]]
  BY DEF Chunks
<1>3. a \in [1 .. n -> Chunk]
  BY <1>1, <1>2
<1>4. a \in Seq(Chunk) /\ Len(a) = n
  BY <1>2, <1>3
<1>5. OfAll(a, k)
  BY <1>1, <1>4, Zenon DEF OfAll
<1>6. Ends(<<>>, a)
  <2>1. 1 .. Len(<<>>) = {}
    OBVIOUS
  <2> QED
    BY <1>1, <1>4, <2>1, Zenon DEF Ends
<1> QED
  BY <1>4, <1>5, <1>6

\* The pieces a request is sent in.
LEMMA Pieces ==
  ASSUME NEW k \in Call, NEW n \in Nat \ {0}
  PROVE  /\ [i \in 1 .. n |-> k] \in Seq(Call) /\ Len([i \in 1 .. n |-> k]) = n
         /\ AllOf([i \in 1 .. n |-> k], k)
<1>1. [i \in 1 .. n |-> k] \in [1 .. n -> Call] /\ n \in Nat
  OBVIOUS
<1>2. [i \in 1 .. n |-> k] \in Seq(Call) /\ Len([i \in 1 .. n |-> k]) = n
  BY <1>1
<1> QED
  BY <1>2 DEF AllOf

\* A command is a call, or pieces of several.
LEMMA CommandOf ==
  ASSUME NEW q \in Seq(Call), q # <<>>
  PROVE  /\ AnswerTo(q) \in Call \cup {Garbled}
         /\ \A k : AllOf(q, k) => AnswerTo(q) = k
<1>1. Head(q) = q[1] /\ q[1] \in Call /\ DOMAIN q = 1 .. Len(q) /\ 1 \in 1 .. Len(q)
  OBVIOUS
<1>2. AnswerTo(q) \in {Head(q), Garbled}
  BY DEF AnswerTo
<1>3. ASSUME NEW k, AllOf(q, k) PROVE AnswerTo(q) = k
  <2>1. \A i \in DOMAIN q : q[i] = Head(q)
    BY <1>1, <1>3 DEF AllOf
  <2> QED
    BY <1>1, <1>3, <2>1 DEF AnswerTo, AllOf
<1> QED
  BY <1>1, <1>2, <1>3

\* A recv that returned something: n chunks are read and the rest stays; the chunks
\* accumulated end with the last one read.
Reading(u, n, read, rest, all) ==
  LET c == fd[u]
  IN  /\ n \in 1 .. Len(down[c])
      /\ read \in Seq(Chunk) /\ Len(read) = n /\ \A i \in 1 .. n : read[i] = down[c][i]
      /\ rest \in Seq(Chunk) /\ Len(rest) = Len(down[c]) - n
      /\ \A i \in 1 .. Len(rest) : rest[i] = down[c][n + i]
      /\ all \in Seq(Chunk) /\ all = acc[u] \o read /\ Len(all) = Len(acc[u]) + n
      /\ all # <<>> /\ all[Len(all)] = read[n]
      /\ down' = [down EXCEPT ![c] = rest]
      /\ \/ /\ Len(all) >= MaxResponse
            /\ got' = [got EXCEPT ![u] = [status |-> "LONG_RESPONSE", of |-> NoCall]]
            /\ pc' = [pc EXCEPT ![u] = "close"] /\ acc' = [acc EXCEPT ![u] = <<>>]
         \/ /\ read[n].last /\ got' = [got EXCEPT ![u] = Answer(all)]
            /\ pc' = [pc EXCEPT ![u] = "close"] /\ acc' = [acc EXCEPT ![u] = <<>>]
         \/ /\ ~read[n].last /\ acc' = [acc EXCEPT ![u] = all]
            /\ UNCHANGED <<got, pc>>

\* What a recv that returned something did.
LEMMA Received ==
  ASSUME TypeOK, NEW u \in Caller, fd[u] \in mine, recv_some(u)
  PROVE  \E n, read, rest, all : Reading(u, n, read, rest, all)
<1> DEFINE c == fd[u]
<1>1. c \in Conn /\ down[c] \in Seq(Chunk) /\ acc[u] \in Seq(Chunk)
  <2>1. /\ opened \in 0 .. MaxConns /\ mine \subseteq 1 .. opened
        /\ down \in [Conn -> Seq(Chunk)] /\ acc \in [Caller -> Seq(Chunk)]
    BY Zenon DEF TypeOK
  <2>2. \A x \in mine : x \in Conn
    <3>1. \A x \in 1 .. opened : x \in 1 .. MaxConns
      BY <2>1, Bounds
    <3> QED
      BY <2>1, <3>1, Zenon DEF Conn
  <2> QED
    BY <2>1, <2>2
<1>2. PICK n \in 1 .. Len(down[c]) :
    LET read == SubSeq(down[fd[u]], 1, n)
        all == acc[u] \o read
    IN  /\ down' = [down EXCEPT ![fd[u]] = SubSeq(@, n + 1, Len(@))]
        /\ \/ /\ Len(all) >= MaxResponse
              /\ Fail(u, "LONG_RESPONSE")
              /\ Goto(u, "close")
              /\ acc' = [acc EXCEPT ![u] = <<>>]
           \/ /\ Len(all) < MaxResponse /\ Terminated(Last(read))
              /\ got' = [got EXCEPT ![u] = Answer(all)]
              /\ Goto(u, "close")
              /\ acc' = [acc EXCEPT ![u] = <<>>]
           \/ /\ Len(all) < MaxResponse /\ ~Terminated(Last(read))
              /\ acc' = [acc EXCEPT ![u] = all]
              /\ UNCHANGED <<got, pc>>
  BY Zenon DEF recv_some
<1> DEFINE read == SubSeq(down[c], 1, n)
           rest == SubSeq(down[c], n + 1, Len(down[c]))
           all == acc[u] \o read
<1>3. /\ read \in Seq(Chunk) /\ Len(read) = n /\ \A i \in 1 .. n : read[i] = down[c][i]
      /\ rest \in Seq(Chunk) /\ Len(rest) = Len(down[c]) - n
      /\ \A i \in 1 .. Len(rest) : rest[i] = down[c][n + i]
  BY <1>1, Split
<1>4. down' = [down EXCEPT ![c] = rest]
  BY <1>1, <1>2 DEF TypeOK
<1>5. Last(read) = read[n]
  BY <1>3 DEF Last
<1> HIDE DEF read, rest, c
<1>6. /\ all \in Seq(Chunk) /\ Len(all) = Len(acc[u]) + n
      /\ all # <<>> /\ all[Len(all)] = read[n]
  <2>1. n \in Nat \ {0}
    BY <1>3
  <2>2. \A s, t \in Seq(Chunk) : Len(t) = n =>
          /\ s \o t \in Seq(Chunk) /\ Len(s \o t) = Len(s) + n
          /\ s \o t # <<>> /\ (s \o t)[Len(s \o t)] = t[n]
    BY <2>1, Joined
  <2> QED
    BY <1>1, <1>3, <2>2, Zenon
<1>7. \/ /\ Len(all) >= MaxResponse
         /\ got' = [got EXCEPT ![u] = [status |-> "LONG_RESPONSE", of |-> NoCall]]
         /\ pc' = [pc EXCEPT ![u] = "close"] /\ acc' = [acc EXCEPT ![u] = <<>>]
      \/ /\ read[n].last /\ got' = [got EXCEPT ![u] = Answer(all)]
         /\ pc' = [pc EXCEPT ![u] = "close"] /\ acc' = [acc EXCEPT ![u] = <<>>]
      \/ /\ ~read[n].last /\ acc' = [acc EXCEPT ![u] = all]
         /\ UNCHANGED <<got, pc>>
  BY <1>2, <1>5, Zenon DEF Terminated, read, c
<1>8. Reading(u, n, read, rest, all)
  BY <1>1, <1>3, <1>4, <1>6, <1>7, Zenon DEF Reading, c
<1> QED
  BY <1>8

-----------------------------------------------------------------------------
(* Types. *)

\* What the types say, with the sets named.
LEMMA Typed ==
  ASSUME TypeOK
  PROVE  /\ client \in Clients /\ alive \in BOOLEAN
         /\ opened \in Nat /\ opened <= MaxConns /\ socket \in Conn \cup {None}
         /\ mine \subseteq 1 .. opened /\ linked \subseteq 1 .. opened
         /\ theirs \subseteq linked /\ cut \subseteq linked
         /\ up \in [Conn -> Seq(Call)] /\ work \in [Conn -> Seq(Call)]
         /\ wire \in [Conn -> Seq(Chunk)] /\ down \in [Conn -> Seq(Chunk)]
         /\ pc \in [Caller -> Where] /\ calls \in [Caller -> 0 .. MaxCalls]
         /\ fd \in [Caller -> Conn \cup {None}] /\ acc \in [Caller -> Seq(Chunk)]
         /\ got \in [Caller -> Reply]
         /\ \A u \in Caller : acc[u] # <<>> => pc[u] \in {"recv", "spin", "stuck"}
<1>1. /\ client \in Clients /\ alive \in BOOLEAN /\ opened \in 0 .. MaxConns
      /\ socket \in Conn \cup {None}
      /\ mine \subseteq 1 .. opened /\ linked \subseteq 1 .. opened
      /\ theirs \subseteq linked /\ cut \subseteq linked
      /\ up \in [Conn -> Seq(Call)] /\ work \in [Conn -> Seq(Call)]
      /\ wire \in [Conn -> Seq(Chunk)] /\ down \in [Conn -> Seq(Chunk)]
      /\ pc \in [Caller -> Where] /\ calls \in [Caller -> 0 .. MaxCalls]
      /\ fd \in [Caller -> Conn \cup {None}] /\ acc \in [Caller -> Seq(Chunk)]
      /\ got \in [Caller -> Reply]
      /\ \A u \in Caller : acc[u] # <<>> => pc[u] \in {"recv", "spin", "stuck"}
  BY Zenon DEF TypeOK, Where, Reply
<1>2. opened \in Nat /\ opened <= MaxConns
  BY <1>1, Bounds
<1> QED
  BY <1>1, <1>2, Zenon

\* The connections opened are connections.
LEMMA Opened ==
  ASSUME TypeOK
  PROVE  /\ \A x \in 1 .. opened : x \in Conn /\ ~(x > opened) /\ x # None
         /\ \A x \in mine \cup linked \cup theirs \cup cut : x \in Conn /\ x # None
<1>1. \A x \in 1 .. opened : x \in Conn /\ ~(x > opened) /\ x \in Nat
  BY Typed, Bounds DEF Conn
<1>2. None \notin Nat
  BY GstcConnectionAssumption
<1> QED
  BY <1>1, <1>2, Typed, Zenon

\* The state at first has its types.
LEMMA InitTypes == Init => TypeInv
<1> SUFFICES ASSUME Init PROVE TypeInv
  OBVIOUS
<1>1. /\ opened \in 0 .. MaxConns /\ mine \subseteq 1 .. opened /\ linked \subseteq 1 .. opened
      /\ theirs \subseteq linked /\ cut \subseteq linked /\ socket \in Conn \cup {None}
  BY Bounds DEF Init, Conn
<1>2. \A S : <<>> \in Seq(S)
  BY EmptySeq
<1>3. /\ up \in [Conn -> Seq(Call)] /\ work \in [Conn -> Seq(Call)]
      /\ wire \in [Conn -> Seq(Chunk)] /\ down \in [Conn -> Seq(Chunk)]
      /\ acc \in [Caller -> Seq(Chunk)] /\ \A u \in Caller : acc[u] = <<>>
  BY <1>2 DEF Init
<1>4. /\ pc \in [Caller -> Where]
      /\ calls \in [Caller -> 0 .. MaxCalls] /\ fd \in [Caller -> Conn \cup {None}]
  BY Bounds DEF Init, Where
<1>5. got \in [Caller -> Reply]
  BY FailReply DEF Init, Status
<1>6. client \in Clients /\ alive \in BOOLEAN
  BY Zenon DEF Init
<1>7. Begun
  BY DEF Init, Begun
<1> QED
  BY <1>1, <1>3, <1>4, <1>5, <1>6, <1>7, Zenon DEF TypeInv, TypeOK, Reply, Where

\* Every step of a thread that is in a call began one.
LEMMA BegunStep ==
  ASSUME TypeInv, [Next]_vars
  PROVE  Begun'
<1> USE DEF Begun
<1>0. TypeOK /\ Begun /\ calls \in [Caller -> 0 .. MaxCalls] /\ pc \in [Caller -> Where]
  BY Typed DEF TypeInv
<1>1. ASSUME NEW u \in Caller, open_socket(u) PROVE Begun'
  <2>1. /\ calls'[u] = calls[u] + 1 /\ \A v \in Caller \ {u} : calls'[v] = calls[v]
        /\ \A v \in Caller \ {u} : pc'[v] = pc[v]
    BY <1>0, <1>1 DEF open_socket
  <2> QED
    BY <1>0, <2>1
<1>2. ASSUME NEW u \in Caller, Run(u) PROVE Begun'
  <2>1. /\ calls' = calls /\ pc[u] # "idle" /\ \A v \in Caller \ {u} : pc'[v] = pc[v]
    <3>1. CASE socket_send(u) \/ read_socket(u) \/ socket_poll(u) \/ socket_close(u)
      BY <1>0, <3>1 DEF socket_send, read_socket, socket_poll, socket_close
    <3>2. CASE accumulate_response(u)
      BY <1>0, <3>2 DEF accumulate_response, recv_some
    <3>3. CASE check_socket(u) \/ set_buffer(u) \/ connect_socket(u)
      BY <1>0, <3>3 DEF check_socket, set_buffer, connect_socket
    <3> QED
      BY <1>2, <3>1, <3>2, <3>3 DEF Run
  <2> QED
    BY <1>0, <2>1
<1>3. CASE UNCHANGED <<calls, pc>>
  BY <1>0, <1>3
<1>4. ASSUME NEW c \in Conn, Worker(c) \/ deliver(c) PROVE UNCHANGED <<calls, pc>>
  BY <1>4 DEF Worker, socket_callback_read, socket_callback_write, socket_callback_end, deliver
<1>5. daemon_dies \/ UNCHANGED vars => UNCHANGED <<calls, pc>>
  BY DEF daemon_dies, vars
<1> QED
  BY <1>1, <1>2, <1>3, <1>4, <1>5 DEF Next

\* What the worker of a connection writes to a client that is there.
LEMMA Wrote ==
  ASSUME TypeOK, NEW c \in Conn, socket_callback_write(c), c \in mine
  PROVE  \E k \in Call \cup {Garbled}, n \in 1 .. MaxChunks, whole \in BOOLEAN :
           /\ wire' = [wire EXCEPT ![c] = @ \o Chunks(k, n, whole)]
           /\ k = AnswerTo(work[c])
           /\ cut' = IF whole THEN cut ELSE cut \cup {c}
           /\ theirs' = theirs
<1>1. PICK n \in 1 .. MaxChunks, whole \in BOOLEAN :
        /\ wire' = [wire EXCEPT ![c] = @ \o [i \in 1 .. n |->
             [of |-> AnswerTo(work[c]), part |-> i, last |-> whole /\ i = n]]]
        /\ cut' = IF whole THEN cut ELSE cut \cup {c}
        /\ theirs' = theirs
  BY Zenon DEF socket_callback_write
<1>2. work[c] \in Seq(Call) /\ work[c] # <<>>
  BY Typed DEF socket_callback_write
<1>3. AnswerTo(work[c]) \in Call \cup {Garbled}
  BY <1>2, CommandOf
<1>4. wire' = [wire EXCEPT ![c] = @ \o Chunks(AnswerTo(work[c]), n, whole)]
  BY <1>1, Zenon DEF Chunks
<1> QED
  BY <1>1, <1>3, <1>4, Zenon

\* Every step keeps the types.
LEMMA TypeStep ==
  ASSUME TypeInv, [Next]_vars
  PROVE  TypeOK'
<1> DEFINE Acc == \A u \in Caller : acc[u] # <<>> =>
                    pc[u] \in {"recv", "spin", "stuck"} /\ ~acc[u][Len(acc[u])].last
           Net == /\ opened \in 0 .. MaxConns
                  /\ mine \subseteq 1 .. opened /\ linked \subseteq 1 .. opened
                  /\ theirs \subseteq linked /\ cut \subseteq linked
           Asks == up \in [Conn -> Seq(Call)] /\ work \in [Conn -> Seq(Call)]
           Answers == wire \in [Conn -> Seq(Chunk)] /\ down \in [Conn -> Seq(Chunk)]
           At == pc \in [Caller -> Where]
           Rest == /\ client \in Clients /\ alive \in BOOLEAN /\ socket \in Conn \cup {None}
                   /\ calls \in [Caller -> 0 .. MaxCalls]
                   /\ fd \in [Caller -> Conn \cup {None}]
           Has == acc \in [Caller -> Seq(Chunk)]
           Got == got \in [Caller -> Reply]
<1>i. TypeOK <=> Acc /\ Net /\ Asks /\ Answers /\ At /\ Rest /\ Has /\ Got
  BY Zenon DEF TypeOK, Where, Reply
<1>j. Acc' /\ Net' /\ Asks' /\ Answers' /\ At' /\ Rest' /\ Has' /\ Got' => TypeOK'
  BY Zenon DEF TypeOK, Where, Reply
<1>t. TypeOK /\ Begun /\ Acc /\ Net /\ Asks /\ Answers /\ At /\ Rest /\ Has /\ Got
  BY <1>i, Zenon DEF TypeInv
<1>d. \A x \in mine \cup linked : x \in Conn
  BY <1>t, Opened
<1>1. ASSUME NEW u \in Caller, open_socket(u) PROVE TypeOK'
  <2>1. /\ pc[u] = "idle" /\ \A v \in Caller \ {u} : pc'[v] = pc[v]
        /\ pc' = [pc EXCEPT ![u] = "send"] \/ pc' = [pc EXCEPT ![u] = "check"]
        /\ UNCHANGED <<client, alive, linked, theirs, cut, up, wire, down, work, fd, acc, got>>
    BY <1>1, <1>t DEF open_socket, create_new_socket
  <2>2. calls' \in [Caller -> 0 .. MaxCalls]
    BY <1>1, <1>t, Bounds DEF open_socket
  <2>3. Net' /\ socket' \in Conn \cup {None}
    <3>1. \/ UNCHANGED <<opened, mine>> /\ socket' \in {socket, None}
          \/ /\ opened < MaxConns /\ opened' = opened + 1 /\ mine' = mine \cup {opened'}
             /\ socket' = opened'
      BY <1>1 DEF open_socket, create_new_socket
    <3>2. CASE UNCHANGED <<opened, mine>> /\ socket' \in {socket, None}
      BY <1>t, <2>1, <3>2
    <3>3. CASE opened' = opened + 1 /\ opened < MaxConns
      <4>1. /\ opened' \in 0 .. MaxConns /\ opened' \in 1 .. opened' /\ opened' \in Conn
            /\ \A x \in 1 .. opened : x \in 1 .. opened'
        BY <1>t, <3>3, Bounds DEF Conn
      <4> QED
        BY <1>t, <2>1, <3>1, <4>1
    <3> QED
      BY <3>1, <3>2, <3>3
  <2>4. At'
    BY <1>t, <2>1 DEF Where
  <2>5. Acc'
    BY <1>t, <2>1
  <2>6. Rest' /\ Asks' /\ Answers' /\ Has' /\ Got'
    BY <1>t, <2>1, <2>2, <2>3
  <2> QED
    BY <2>3, <2>4, <2>5, <2>6, <1>j, Zenon
<1>2. ASSUME NEW u \in Caller, check_socket(u) \/ set_buffer(u) \/ connect_socket(u)
      PROVE  TypeOK'
  <2>1. /\ pc[u] \in {"check", "setsockopt", "connect"} /\ \A v \in Caller \ {u} : pc'[v] = pc[v]
        /\ UNCHANGED <<client, alive, opened, mine, cut, up, wire, down, work, socket, calls, fd, acc>>
    BY <1>2, <1>t DEF check_socket, set_buffer, connect_socket
  <2>2. At'
    BY <1>2, <1>t DEF check_socket, set_buffer, connect_socket, Where
  <2>3. Got'
    BY <1>2, <1>t, FailReply DEF check_socket, set_buffer, connect_socket, Status
  <2>4. Net'
    <3>1. \/ UNCHANGED <<linked, theirs>>
          \/ /\ socket \in mine
             /\ linked' = linked \cup {socket} /\ theirs' = theirs \cup {socket}
      BY <1>2 DEF check_socket, set_buffer, connect_socket
    <3> QED
      BY <1>t, <2>1, <3>1
  <2>5. Acc' /\ Asks' /\ Answers' /\ Rest' /\ Has'
    BY <1>t, <2>1
  <2> QED
    BY <2>2, <2>3, <2>4, <2>5, <1>j, Zenon
<1>3. ASSUME NEW u \in Caller, socket_send(u) PROVE TypeOK'
  <2>1. /\ pc[u] = "send" /\ \A v \in Caller \ {u} : pc'[v] = pc[v]
        /\ UNCHANGED <<client, alive, opened, mine, linked, theirs, cut, wire, down, work, socket,
                       calls, fd, acc>>
    BY <1>3, <1>t DEF socket_send
  <2>2. At'
    BY <1>3, <1>t DEF socket_send, Where
  <2>3. up' \in [Conn -> Seq(Call)]
    <3>1. <<u, calls[u]>> \in Call
      BY <2>1, <1>t, Bounds DEF Begun, Call
    <3>2. \/ up' = up
          \/ /\ socket \in mine
             /\ \E n \in 1 .. client.pieces :
                  up' = [up EXCEPT ![socket] = @ \o [i \in 1 .. n |-> <<u, calls[u]>>]]
      BY <1>3 DEF socket_send
    <3>3. ASSUME socket \in mine, NEW n \in 1 .. client.pieces,
                 up' = [up EXCEPT ![socket] = @ \o [i \in 1 .. n |-> <<u, calls[u]>>]]
          PROVE  up' \in [Conn -> Seq(Call)]
      <4>1. client.pieces \in Nat \ {0}
        BY <1>t, GstcConnectionAssumption
      <4>2. n \in Nat \ {0}
        BY <4>1
      <4>3. [i \in 1 .. n |-> <<u, calls[u]>>] \in Seq(Call)
        BY <3>1, <4>2, Pieces
      <4>4. up[socket] \in Seq(Call) /\ socket \in Conn
        BY <1>d, <1>t, <3>3
      <4>5. up[socket] \o [i \in 1 .. n |-> <<u, calls[u]>>] \in Seq(Call)
        BY <4>3, <4>4, ConcatProperties
      <4> QED
        BY <1>t, <3>3, <4>4, <4>5
    <3> QED
      BY <1>t, <3>2, <3>3
  <2>4. Got'
    BY <1>3, <1>t, FailReply DEF socket_send, Status
  <2>5. Acc' /\ Net' /\ Asks' /\ Answers' /\ Rest' /\ Has'
    BY <1>t, <2>1, <2>3
  <2> QED
    BY <2>2, <2>4, <2>5, <1>j, Zenon
<1>4. ASSUME NEW u \in Caller, read_socket(u) \/ socket_poll(u) PROVE TypeOK'
  <2>1. /\ pc[u] \in {"ufds", "respond", "poll"} /\ \A v \in Caller \ {u} : pc'[v] = pc[v]
        /\ UNCHANGED <<client, alive, netVars, work, socket, calls, acc>>
    BY <1>4, <1>t DEF read_socket, socket_poll
  <2>2. At' /\ fd' \in [Caller -> Conn \cup {None}]
    <3>1. /\ \E l \in {"poll", "recv", "respond", "close"} : pc' = [pc EXCEPT ![u] = l]
          /\ fd' = fd \/ fd' = [fd EXCEPT ![u] = socket]
      BY <1>4 DEF read_socket, socket_poll
    <3>2. \A l \in {"poll", "recv", "respond", "close"} : [pc EXCEPT ![u] = l] \in [Caller -> Where]
      BY <1>t, Put DEF Where
    <3>3. [fd EXCEPT ![u] = socket] \in [Caller -> Conn \cup {None}]
      BY <1>t, Put
    <3>4. At'
      BY <3>1, <3>2, Zenon
    <3>5. fd' \in [Caller -> Conn \cup {None}]
      BY <1>t, <3>1, <3>3, Zenon
    <3> QED
      BY <3>4, <3>5, Zenon
  <2>3. Got'
    <3>1. \/ got' = got
          \/ got' = [got EXCEPT ![u] = [status |-> "SOCKET_ERROR", of |-> NoCall]]
          \/ got' = [got EXCEPT ![u] = [status |-> "SOCKET_TIMEOUT", of |-> NoCall]]
      BY <1>4 DEF read_socket, socket_poll
    <3>2. /\ [got EXCEPT ![u] = [status |-> "SOCKET_ERROR", of |-> NoCall]] \in [Caller -> Reply]
          /\ [got EXCEPT ![u] = [status |-> "SOCKET_TIMEOUT", of |-> NoCall]] \in [Caller -> Reply]
      BY <1>t, FailReply, Put DEF Status
    <3> QED
      BY <1>t, <3>1, <3>2, Zenon
  <2>4. Acc' /\ Net' /\ Asks' /\ Answers' /\ Rest' /\ Has'
    BY <1>t, <2>1, <2>2
  <2> QED
    BY <2>2, <2>3, <2>4, <1>j, Zenon
<1>5. ASSUME NEW u \in Caller, accumulate_response(u) PROVE TypeOK'
  <2>0. /\ pc[u] = "recv"
        /\ UNCHANGED <<client, alive, opened, mine, linked, theirs, cut, up, wire, work, socket,
                       calls, fd>>
    BY <1>5, <1>t, Zenon DEF accumulate_response
  <2>a. Net' /\ Asks' /\ Rest'
    BY <1>t, <2>0
  <2>1. CASE fd[u] \in mine /\ recv_some(u)
    <3>1. PICK n, read, rest, all : Reading(u, n, read, rest, all)
      BY <2>1, <1>t, Received
    <3>2. fd[u] \in Conn
      BY <2>1, <1>d
    <3>3. Answers'
      BY <2>0, <3>1, <3>2, <1>t DEF Reading
    <3>4. Answer(all) \in Reply
      <4>1. all \in Seq(Chunk) /\ all # <<>>
        BY <3>1, Zenon DEF Reading
      <4>2. all[1] \in Chunk
        BY <4>1
      <4>3. all[1].of \in Call \cup {Garbled}
        BY <4>2 DEF Chunk
      <4> QED
        BY <4>1, <4>3, AnswerOf, FailReply DEF Status, Reply
    <3>5. Got' /\ At' /\ Has'
      <4>1. /\ all \in Seq(Chunk)
            /\ acc' = [acc EXCEPT ![u] = <<>>] \/ acc' = [acc EXCEPT ![u] = all]
            /\ pc' = pc \/ pc' = [pc EXCEPT ![u] = "close"]
            /\ \/ got' = got
               \/ got' = [got EXCEPT ![u] = Answer(all)]
               \/ got' = [got EXCEPT ![u] = [status |-> "LONG_RESPONSE", of |-> NoCall]]
        BY <3>1, Zenon DEF Reading
      <4>2. [status |-> "LONG_RESPONSE", of |-> NoCall] \in Reply
        BY FailReply DEF Status
      <4>3. <<>> \in Seq(Chunk)
        BY EmptySeq
      <4>4. [pc EXCEPT ![u] = "close"] \in [Caller -> Where]
        <5>1. "close" \in Where
          BY DEF Where
        <5> QED
          BY <1>t, <5>1, Put
      <4>5. /\ [acc EXCEPT ![u] = <<>>] \in [Caller -> Seq(Chunk)]
            /\ [acc EXCEPT ![u] = all] \in [Caller -> Seq(Chunk)]
        BY ONLY <1>t, u \in Caller, <4>1, <4>3, Put
      <4>6. /\ [got EXCEPT ![u] = Answer(all)] \in [Caller -> Reply]
            /\ [got EXCEPT ![u] = [status |-> "LONG_RESPONSE", of |-> NoCall]]
                 \in [Caller -> Reply]
        BY ONLY <1>t, u \in Caller, <3>4, <4>2, Put
      <4>7. At'
        BY <1>t, <4>1, <4>4, Zenon
      <4>8. Has'
        BY <1>t, <4>1, <4>5, Zenon
      <4>9. Got'
        BY <1>t, <4>1, <4>6, Zenon
      <4> QED
        BY <4>7, <4>8, <4>9, Zenon
    <3>6. Acc'
      <4>1. /\ acc'[u] = <<>> \/ (acc'[u] = all /\ pc' = pc)
            /\ \A v \in Caller \ {u} : acc'[v] = acc[v] /\ pc'[v] = pc[v]
        BY <3>1, <1>t DEF Reading
      <4>2. acc'[u] = all => ~all[Len(all)].last \/ acc'[u] = <<>>
        BY <3>1, <1>t DEF Reading
      <4> QED
        BY <1>t, <2>0, <4>1, <4>2
    <3> QED
      BY <2>a, <3>3, <3>5, <3>6, <1>j, Zenon
  <2>2. CASE ~(fd[u] \in mine /\ recv_some(u))
    <3>1. /\ down' = down /\ pc'[u] \in {"spin", "stuck", "close"}
          /\ \A v \in Caller \ {u} : pc'[v] = pc[v] /\ acc'[v] = acc[v]
          /\ acc'[u] = <<>> \/ (acc'[u] = acc[u] /\ pc'[u] \in {"spin", "stuck"})
      BY <1>5, <1>t, <2>2 DEF accumulate_response
    <3>2. At' /\ Has' /\ Got'
      <4>1. /\ acc' = [acc EXCEPT ![u] = <<>>] \/ acc' = acc
            /\ \E l \in {"spin", "stuck", "close"} : pc' = [pc EXCEPT ![u] = l]
            /\ \/ got' = got
               \/ \E s \in Status : got' = [got EXCEPT ![u] = [status |-> s, of |-> NoCall]]
        BY <1>5, <2>2 DEF accumulate_response, Status
      <4>2. <<>> \in Seq(Chunk)
        BY EmptySeq
      <4>3. Got'
        <5>1. \A s \in Status : [got EXCEPT ![u] = [status |-> s, of |-> NoCall]] \in [Caller -> Reply]
          BY <1>t, FailReply, Put
        <5>2. CASE got' = got
          BY <1>t, <5>2, Zenon
        <5>3. CASE got' # got
          <6>1. PICK s \in Status : got' = [got EXCEPT ![u] = [status |-> s, of |-> NoCall]]
            BY <4>1, <5>3
          <6>2. [got EXCEPT ![u] = [status |-> s, of |-> NoCall]] \in [Caller -> Reply]
            BY <5>1
          <6> QED
            BY ONLY <6>1, <6>2, Zenon
        <5> QED
          BY <5>2, <5>3
      <4>4. At'
        <5>1. \A l \in {"spin", "stuck", "close"} : [pc EXCEPT ![u] = l] \in [Caller -> Where]
          BY <1>t, Put DEF Where
        <5> QED
          BY <4>1, <5>1, Zenon
      <4>5. Has'
        <5>1. [acc EXCEPT ![u] = <<>>] \in [Caller -> Seq(Chunk)]
          BY <1>t, <4>2, Put
        <5> QED
          BY <1>t, <4>1, <5>1, Zenon
      <4> QED
        BY <4>3, <4>4, <4>5, Zenon
    <3>3. Acc' /\ Answers'
      BY <1>t, <2>0, <3>1
    <3> QED
      BY <2>a, <3>2, <3>3, <1>j, Zenon
  <2> QED
    BY <2>1, <2>2
<1>6. ASSUME NEW u \in Caller, socket_close(u) PROVE TypeOK'
  <2>1. /\ pc[u] = "close" /\ \A v \in Caller \ {u} : pc'[v] = pc[v]
        /\ UNCHANGED <<client, alive, opened, linked, theirs, cut, up, wire, down, work, socket,
                       calls, fd, acc, got>>
        /\ mine' \subseteq 1 .. opened /\ At'
    BY <1>6, <1>t DEF socket_close, Where
  <2>2. Acc' /\ Net' /\ Asks' /\ Answers' /\ Rest' /\ Has' /\ Got'
    BY <1>t, <2>1
  <2> QED
    BY <2>1, <2>2, <1>j, Zenon
<1>7. ASSUME NEW c \in Conn, socket_callback_read(c) PROVE TypeOK'
  <2>1. PICK n \in 1 .. Len(up[c]) :
          /\ work' = [work EXCEPT ![c] = SubSeq(up[c], 1, n)]
          /\ up' = [up EXCEPT ![c] = SubSeq(@, n + 1, Len(@))]
    BY <1>7, Zenon DEF socket_callback_read
  <2>2. SubSeq(up[c], 1, n) \in Seq(Call) /\ SubSeq(up[c], n + 1, Len(up[c])) \in Seq(Call)
    BY <1>t, Split
  <2>3. Asks'
    BY <1>t, <2>1, <2>2
  <2>4. Acc' /\ Net' /\ Answers' /\ At' /\ Rest' /\ Has' /\ Got'
    BY <1>7, <1>t, Zenon DEF socket_callback_read
  <2> QED
    BY <2>3, <2>4, <1>j, Zenon
<1>8. ASSUME NEW c \in Conn, socket_callback_write(c) PROVE TypeOK'
  <2>1. /\ work' \in [Conn -> Seq(Call)]
        /\ UNCHANGED <<client, alive, opened, mine, linked, up, down, socket, pc, calls, fd, acc, got>>
    BY <1>8, <1>t, EmptySeq DEF socket_callback_write
  <2>2. wire' \in [Conn -> Seq(Chunk)] /\ theirs' \subseteq theirs /\ cut' \subseteq cut \cup (theirs \cap {c})
    <3>1. CASE c \in mine
      <4>1. PICK k \in Call \cup {Garbled}, n \in 1 .. MaxChunks, whole \in BOOLEAN :
              /\ wire' = [wire EXCEPT ![c] = @ \o Chunks(k, n, whole)]
              /\ cut' = IF whole THEN cut ELSE cut \cup {c}
              /\ theirs' = theirs
        BY <1>8, <1>t, <3>1, Wrote, Zenon
      <4>2. Chunks(k, n, whole) \in Seq(Chunk)
        BY Written
      <4>3. wire[c] \o Chunks(k, n, whole) \in Seq(Chunk)
        BY <1>t, <4>2, ConcatProperties
      <4>4. wire' \in [Conn -> Seq(Chunk)]
        BY <1>t, <4>1, <4>3
      <4>5. c \in theirs
        BY <1>8 DEF socket_callback_write
      <4> QED
        BY <4>1, <4>4, <4>5
    <3>2. CASE c \notin mine
      BY <1>8, <1>t, <3>2 DEF socket_callback_write
    <3> QED
      BY <3>1, <3>2
  <2>3. Net' /\ Asks' /\ Answers'
    BY <1>t, <2>1, <2>2
  <2>4. Acc' /\ At' /\ Rest' /\ Has' /\ Got'
    BY <1>t, <2>1, Zenon
  <2> QED
    BY <2>3, <2>4, <1>j, Zenon
<1>9. ASSUME NEW c \in Conn, socket_callback_end(c) PROVE TypeOK'
  <2>1. Net' /\ Asks'
    BY <1>9, <1>t, EmptySeq DEF socket_callback_end
  <2>2. Acc' /\ Answers' /\ At' /\ Rest' /\ Has' /\ Got'
    BY <1>9, <1>t, Zenon DEF socket_callback_end
  <2> QED
    BY <2>1, <2>2, <1>j, Zenon
<1>10. ASSUME NEW c \in Conn, deliver(c) PROVE TypeOK'
  <2>1. PICK n \in 1 .. Len(wire[c]) :
          /\ down' = [down EXCEPT ![c] = @ \o SubSeq(wire[c], 1, n)]
          /\ wire' = [wire EXCEPT ![c] = SubSeq(@, n + 1, Len(@))]
    BY <1>10, Zenon DEF deliver
  <2>2. SubSeq(wire[c], 1, n) \in Seq(Chunk) /\ SubSeq(wire[c], n + 1, Len(wire[c])) \in Seq(Chunk)
    BY <1>t, Split
  <2>3. down[c] \o SubSeq(wire[c], 1, n) \in Seq(Chunk)
    BY <1>t, <2>2, ConcatProperties
  <2>4. Answers'
    BY <1>t, <2>1, <2>2, <2>3
  <2>5. Acc' /\ Net' /\ Asks' /\ At' /\ Rest' /\ Has' /\ Got'
    BY <1>10, <1>t, Zenon DEF deliver
  <2> QED
    BY <2>4, <2>5, <1>j, Zenon
<1>11. CASE daemon_dies
  <2>1. Net' /\ Asks' /\ Answers'
    BY <1>11, <1>t, EmptySeq DEF daemon_dies
  <2>2. Acc' /\ At' /\ Rest' /\ Has' /\ Got'
    BY <1>11, <1>t, Zenon DEF daemon_dies
  <2> QED
    BY <2>1, <2>2, <1>j, Zenon
<1>12. CASE UNCHANGED vars
  <2>1. Acc' /\ Net' /\ Asks' /\ Answers' /\ At' /\ Rest' /\ Has' /\ Got'
    BY <1>12, <1>t, Zenon DEF vars
  <2> QED
    BY <2>1, <1>j, Zenon
<1> QED
  BY <1>1, <1>2, <1>3, <1>4, <1>5, <1>6, <1>7, <1>8, <1>9, <1>10, <1>11, <1>12, Zenon
     DEF Next, Run, Worker

\* The client and its connections are well typed, and what a thread has accumulated has no
\* terminator at its end.
THEOREM ConnTypeCorrect == Spec => []TypeOK
<1>1. TypeInv /\ [Next]_vars => TypeInv'
  BY TypeStep, BegunStep DEF TypeInv
<1> QED
  BY <1>1, InitTypes, PTL DEF Spec, TypeInv

-----------------------------------------------------------------------------
(* A client that one thread uses leaves no connection open. *)

\* Whatever a call of the only thread opens it closes.
LEMMA TidyStep ==
  ASSUME OneCaller, TypeOK, Tidy, [Next]_vars
  PROVE  Tidy'
<1>0. pc \in [Caller -> Where] /\ None \notin mine
  BY Typed, Opened, Zenon
<1>1. ASSUME NEW u \in Caller, open_socket(u) PROVE Tidy'
  <2>1. /\ client' = client /\ pc[u] = "idle"
        /\ \/ UNCHANGED <<mine, socket>> /\ ~PerCall
           \/ mine' = mine \cup {socket'} /\ pc'[u] = "check"
           \/ mine' = mine /\ PerCall
    BY <1>0, <1>1 DEF open_socket, create_new_socket
  <2> QED
    BY <2>1 DEF Tidy, OneCaller, PerCall
<1>2. ASSUME NEW u \in Caller, socket_close(u) PROVE Tidy'
  <2>1. UNCHANGED <<client, socket>> /\ (PerCall => mine' = mine \ {socket})
    BY <1>2 DEF socket_close, Closed
  <2> QED
    BY <2>1 DEF Tidy, OneCaller, PerCall
<1>3. ASSUME NEW u \in Caller, check_socket(u) PROVE Tidy'
  <2>1. UNCHANGED <<client, socket, mine>> /\ (pc'[u] # "idle" \/ socket = None)
    BY <1>0, <1>3 DEF check_socket
  <2> QED
    BY <1>0, <2>1 DEF Tidy, OneCaller, PerCall
<1>4. ASSUME NEW u \in Caller, Run(u), ~socket_close(u), ~check_socket(u) PROVE Tidy'
  <2>1. UNCHANGED <<client, socket, mine>> /\ pc'[u] # "idle"
    <3>1. CASE socket_send(u) \/ read_socket(u) \/ socket_poll(u)
      BY <1>0, <3>1 DEF socket_send, read_socket, socket_poll
    <3>2. CASE accumulate_response(u)
      BY <1>0, <3>2 DEF accumulate_response, recv_some
    <3>3. CASE set_buffer(u) \/ connect_socket(u)
      BY <1>0, <3>3 DEF set_buffer, connect_socket
    <3> QED
      BY <1>4, <3>1, <3>2, <3>3 DEF Run
  <2> QED
    BY <2>1 DEF Tidy, OneCaller, PerCall
<1>5. CASE UNCHANGED <<client, socket, mine, pc>>
  BY <1>5 DEF Tidy, PerCall
<1>6. ASSUME NEW c \in Conn, Worker(c) \/ deliver(c)
      PROVE  UNCHANGED <<client, socket, mine, pc>>
  BY <1>6 DEF Worker, socket_callback_read, socket_callback_write, socket_callback_end, deliver
<1>7. daemon_dies \/ UNCHANGED vars => UNCHANGED <<client, socket, mine, pc>>
  BY DEF daemon_dies, vars
<1> QED
  BY <1>1, <1>2, <1>3, <1>4, <1>5, <1>6, <1>7 DEF Next

\* A thread that has a client without a kept connection for itself leaves no connection
\* open when a call returns, whichever way it ended and whether or not the daemon died.
THEOREM CallsTidyUp == ASSUME OneCaller PROVE Spec => []NothingLeftOpen
<1>1. Init => Tidy
  BY DEF Init, Tidy
<1>2. TypeOK /\ Tidy /\ [Next]_vars => Tidy'
  BY TidyStep
<1>3. Tidy => NothingLeftOpen
  BY DEF Tidy, NothingLeftOpen
<1> QED
  BY <1>1, <1>2, <1>3, ConnTypeCorrect, PTL DEF Spec

-----------------------------------------------------------------------------
(* What the connections hold of a call, step by step. *)

\* The parts of a queue are of one call if the queue is ...
LEMMA SplitOf ==
  ASSUME NEW S, NEW q \in Seq(S), NEW n \in 1 .. Len(q), NEW k
  PROVE  /\ AllOf(q, k) => AllOf(SubSeq(q, 1, n), k) /\ AllOf(SubSeq(q, n + 1, Len(q)), k)
         /\ OfAll(q, k) => OfAll(SubSeq(q, 1, n), k) /\ OfAll(SubSeq(q, n + 1, Len(q)), k)
<1> DEFINE pre == SubSeq(q, 1, n)
           rest == SubSeq(q, n + 1, Len(q))
<1>1. /\ Len(pre) = n /\ \A i \in 1 .. n : pre[i] = q[i]
      /\ Len(rest) = Len(q) - n /\ \A i \in 1 .. Len(q) - n : rest[i] = q[n + i]
  BY Split
<1>2. /\ \A i \in 1 .. n : i \in 1 .. Len(q)
      /\ \A i \in 1 .. Len(q) - n : n + i \in 1 .. Len(q)
  OBVIOUS
<1> HIDE DEF pre, rest
<1>3. AllOf(q, k) => AllOf(pre, k) /\ AllOf(rest, k)
  BY <1>1, <1>2, Zenon DEF AllOf
<1>4. OfAll(q, k) => OfAll(pre, k) /\ OfAll(rest, k)
  <2> SUFFICES ASSUME \A i \in 1 .. Len(q) : q[i].of = k
               PROVE  OfAll(pre, k) /\ OfAll(rest, k)
    BY DEF OfAll
  <2>1. \A i \in 1 .. Len(pre) : pre[i].of = k
    BY <1>1, <1>2
  <2>2. \A i \in 1 .. Len(rest) : rest[i].of = k
    BY <1>1, <1>2
  <2> QED
    BY <2>1, <2>2, Zenon DEF OfAll
<1> QED
  BY <1>3, <1>4 DEF pre, rest

\* ... and the queue is if its parts are.
LEMMA JoinOf ==
  ASSUME NEW S, NEW s \in Seq(S), NEW t \in Seq(S), NEW k
  PROVE  /\ AllOf(s, k) /\ AllOf(t, k) => AllOf(s \o t, k)
         /\ OfAll(s, k) /\ OfAll(t, k) => OfAll(s \o t, k)
<1>1. /\ Len(s) \in Nat /\ Len(t) \in Nat /\ Len(s \o t) = Len(s) + Len(t)
      /\ \A i \in 1 .. Len(s) + Len(t) : (s \o t)[i] =
           IF i <= Len(s) THEN s[i] ELSE t[i - Len(s)]
  BY ConcatProperties
<1>2. \A i \in 1 .. Len(s \o t) :
        \/ i \in 1 .. Len(s) /\ (s \o t)[i] = s[i]
        \/ i - Len(s) \in 1 .. Len(t) /\ (s \o t)[i] = t[i - Len(s)]
  BY <1>1
<1> QED
  BY <1>2, Zenon DEF AllOf, OfAll

\* Nothing is of any call.
LEMMA NothingOf ==
  ASSUME NEW k
  PROVE  AllOf(<<>>, k) /\ OfAll(<<>>, k) /\ Ends(<<>>, <<>>)
BY DEF AllOf, OfAll, Ends

\* What a step of the daemon or of the network does to a connection.
LEMMA Moved ==
  ASSUME TypeOK, NEW c \in Conn, Worker(c) \/ deliver(c)
  PROVE  /\ UNCHANGED <<client, alive, opened, mine, linked, socket, pc, calls, fd, acc, got>>
         /\ alive \/ UNCHANGED <<theirs, up, work>>
         /\ c \in 1 .. opened
         /\ \A x \in Conn \ {c} : /\ up'[x] = up[x] /\ work'[x] = work[x]
                                  /\ wire'[x] = wire[x] /\ down'[x] = down[x]
         /\ theirs' \in {theirs, theirs \ ({c} \ mine)}
         /\ \/ /\ work[c] = <<>> /\ down'[c] = down[c] /\ wire'[c] = wire[c]
               /\ \E n \in 1 .. Len(up[c]) :
                    work'[c] = SubSeq(up[c], 1, n) /\ up'[c] = SubSeq(up[c], n + 1, Len(up[c]))
            \/ /\ work[c] # <<>> /\ work'[c] = <<>> /\ up'[c] = up[c] /\ down'[c] = down[c]
               /\ \/ wire'[c] = wire[c]
                  \/ \E n \in 1 .. MaxChunks, whole \in BOOLEAN :
                       wire'[c] = wire[c] \o Chunks(AnswerTo(work[c]), n, whole)
            \/ /\ up'[c] = <<>> /\ work'[c] = work[c] /\ wire'[c] = wire[c] /\ down'[c] = down[c]
            \/ /\ up'[c] = up[c] /\ work'[c] = work[c]
               /\ \E n \in 1 .. Len(wire[c]) :
                    /\ down'[c] = down[c] \o SubSeq(wire[c], 1, n)
                    /\ wire'[c] = SubSeq(wire[c], n + 1, Len(wire[c]))
<1>t. /\ up \in [Conn -> Seq(Call)] /\ work \in [Conn -> Seq(Call)]
      /\ wire \in [Conn -> Seq(Chunk)] /\ down \in [Conn -> Seq(Chunk)]
      /\ mine \subseteq 1 .. opened /\ theirs \subseteq 1 .. opened
  BY Typed
<1>1. CASE socket_callback_read(c)
  BY <1>t, <1>1 DEF socket_callback_read
<1>2. CASE socket_callback_write(c)
  <2>1. CASE c \in mine
    <3>1. PICK k \in Call \cup {Garbled}, n \in 1 .. MaxChunks, whole \in BOOLEAN :
            /\ wire' = [wire EXCEPT ![c] = @ \o Chunks(k, n, whole)]
            /\ k = AnswerTo(work[c])
            /\ theirs' = theirs
      BY <1>2, <2>1, Wrote, Zenon
    <3>2. wire'[c] = wire[c] \o Chunks(AnswerTo(work[c]), n, whole)
      BY <1>t, <3>1
    <3>3. \A x \in Conn \ {c} : wire'[x] = wire[x]
      BY <1>t, <3>1
    <3> QED
      BY <1>t, <1>2, <2>1, <3>1, <3>2, <3>3 DEF socket_callback_write
  <2>2. CASE c \notin mine
    BY <1>t, <1>2, <2>2 DEF socket_callback_write
  <2> QED
    BY <2>1, <2>2
<1>3. CASE socket_callback_end(c)
  BY <1>t, <1>3 DEF socket_callback_end
<1>4. CASE deliver(c)
  BY <1>t, <1>4 DEF deliver
<1> QED
  BY <1>1, <1>2, <1>3, <1>4 DEF Worker

\* A connection with nothing on it stays so ...
LEMMA QuietMoved ==
  ASSUME TypeOK, NEW c \in Conn, Worker(c) \/ deliver(c), NEW x \in Conn, Quiet(x)
  PROVE  Quiet(x)'
<1>1. CASE x # c
  BY <1>1, Moved, Zenon DEF Quiet
<1>2. CASE x = c
  <2>1. up[c] = <<>> /\ work[c] = <<>> /\ wire[c] = <<>> /\ down[c] = <<>>
        /\ 1 .. Len(up[c]) = {} /\ 1 .. Len(wire[c]) = {}
    BY <1>2 DEF Quiet
  <2>2. up'[c] = <<>> /\ work'[c] = <<>> /\ wire'[c] = <<>> /\ down'[c] = <<>>
    BY <2>1, Moved, Zenon
  <2> QED
    BY <1>2, <2>2 DEF Quiet
<1> QED
  BY <1>1, <1>2

\* ... and one that holds nothing but a call's does.
LEMMA LabelMoved ==
  ASSUME TypeOK, NEW c \in Conn, Worker(c) \/ deliver(c), NEW x \in Conn, NEW k \in Call, NEW a,
         Labelled(x, k, a)
  PROVE  Labelled(x, k, a)'
<1>t. /\ up[c] \in Seq(Call) /\ work[c] \in Seq(Call)
      /\ wire[c] \in Seq(Chunk) /\ down[c] \in Seq(Chunk)
  BY Typed
<1>1. CASE x # c
  BY <1>1, Moved, Zenon DEF Labelled
<1>2. CASE x = c
  <2>2. Labelled(c, k, a)'
    <3>0. /\ AllOf(up[c], k) /\ AllOf(work[c], k)
          /\ OfAll(wire[c], k) /\ OfAll(down[c], k) /\ OfAll(a, k)
      BY <1>2 DEF Labelled
    <3> SUFFICES /\ AllOf(up'[c], k) /\ AllOf(work'[c], k)
                 /\ OfAll(wire'[c], k) /\ OfAll(down'[c], k)
      BY <3>0, Zenon DEF Labelled, AllOf, OfAll
    <3>1. CASE /\ work[c] = <<>> /\ down'[c] = down[c] /\ wire'[c] = wire[c]
               /\ \E n \in 1 .. Len(up[c]) :
                    work'[c] = SubSeq(up[c], 1, n) /\ up'[c] = SubSeq(up[c], n + 1, Len(up[c]))
      <4>1. \A n \in 1 .. Len(up[c]) :
              AllOf(SubSeq(up[c], 1, n), k) /\ AllOf(SubSeq(up[c], n + 1, Len(up[c])), k)
        BY <1>t, <3>0, SplitOf
      <4> QED
        BY <3>0, <3>1, <4>1, Zenon
    <3>2. CASE /\ work[c] # <<>> /\ work'[c] = <<>> /\ up'[c] = up[c] /\ down'[c] = down[c]
               /\ \/ wire'[c] = wire[c]
                  \/ \E n \in 1 .. MaxChunks, whole \in BOOLEAN :
                       wire'[c] = wire[c] \o Chunks(AnswerTo(work[c]), n, whole)
      <4>1. AnswerTo(work[c]) = k
        BY <1>t, <3>0, <3>2, CommandOf
      <4>2. \A n \in 1 .. MaxChunks, whole \in BOOLEAN :
              Chunks(k, n, whole) \in Seq(Chunk) /\ OfAll(Chunks(k, n, whole), k)
        BY Written
      <4>3. \A n \in 1 .. MaxChunks, whole \in BOOLEAN : OfAll(wire[c] \o Chunks(k, n, whole), k)
        BY <1>t, <3>0, <4>2, JoinOf, Zenon
      <4> QED
        BY <3>0, <3>2, <4>1, <4>3, NothingOf, Zenon
    <3>3. CASE up'[c] = <<>> /\ work'[c] = work[c] /\ wire'[c] = wire[c] /\ down'[c] = down[c]
      BY <3>0, <3>3, NothingOf, Zenon
    <3>4. CASE /\ up'[c] = up[c] /\ work'[c] = work[c]
               /\ \E n \in 1 .. Len(wire[c]) :
                    /\ down'[c] = down[c] \o SubSeq(wire[c], 1, n)
                    /\ wire'[c] = SubSeq(wire[c], n + 1, Len(wire[c]))
      <4>1. PICK n \in 1 .. Len(wire[c]) :
                    /\ down'[c] = down[c] \o SubSeq(wire[c], 1, n)
                    /\ wire'[c] = SubSeq(wire[c], n + 1, Len(wire[c]))
        BY <3>4
      <4>2. /\ SubSeq(wire[c], 1, n) \in Seq(Chunk)
            /\ OfAll(SubSeq(wire[c], 1, n), k) /\ OfAll(SubSeq(wire[c], n + 1, Len(wire[c])), k)
        BY <1>t, <3>0, Split, SplitOf
      <4>3. OfAll(down[c] \o SubSeq(wire[c], 1, n), k)
        BY <1>t, <3>0, <4>2, JoinOf
      <4> QED
        BY <3>0, <3>4, <4>1, <4>2, <4>3, Zenon
    <3> QED
      BY <3>1, <3>2, <3>3, <3>4, Moved, Zenon
  <2> QED
    BY <1>2, <2>2
<1> QED
  BY <1>1, <1>2

\* What is delivered and what is left on its way end as before ...
LEMMA EndsMoved ==
  ASSUME NEW d \in Seq(Chunk), NEW w \in Seq(Chunk), NEW n \in 1 .. Len(w), Ends(d, w)
  PROVE  /\ Ends(d \o SubSeq(w, 1, n), SubSeq(w, n + 1, Len(w)))
         /\ Len(d \o SubSeq(w, 1, n)) + Len(SubSeq(w, n + 1, Len(w))) = Len(d) + Len(w)
<1> DEFINE pre == SubSeq(w, 1, n)
           rest == SubSeq(w, n + 1, Len(w))
           e == d \o pre
<1>1. /\ pre \in Seq(Chunk) /\ Len(pre) = n /\ \A i \in 1 .. n : pre[i] = w[i]
      /\ rest \in Seq(Chunk) /\ Len(rest) = Len(w) - n
      /\ \A i \in 1 .. Len(w) - n : rest[i] = w[n + i]
  BY Split
<1> HIDE DEF pre, rest
<1>2. /\ Len(e) = Len(d) + n
      /\ \A i \in 1 .. Len(d) + n : e[i] = IF i <= Len(d) THEN d[i] ELSE pre[i - Len(d)]
  BY <1>1, ConcatProperties
<1> HIDE DEF e
<1>3. Len(d) \in Nat /\ Len(w) \in Nat /\ n \in Nat /\ 1 <= n /\ n <= Len(w) /\ w # <<>>
  OBVIOUS
<1>4. /\ \A i \in 1 .. Len(d) : ~d[i].last
      /\ \A i \in 1 .. Len(w) : w[i].last => i = Len(w)
  BY <1>3 DEF Ends
<1>5. ASSUME NEW i \in 1 .. Len(e), e[i].last PROVE i = Len(e) /\ rest = <<>>
  <2>1. i \in Nat /\ 1 <= i /\ i <= Len(d) + n
    BY <1>2, <1>3
  <2>2. ~(i <= Len(d))
    <3> SUFFICES ASSUME i <= Len(d) PROVE FALSE
      OBVIOUS
    <3>1. e[i] = d[i] /\ i \in 1 .. Len(d)
      BY <1>2, <1>3, <2>1
    <3> QED
      BY <1>4, <1>5, <3>1
  <2> DEFINE j == i - Len(d)
  <2>3. j \in 1 .. n /\ j \in 1 .. Len(w) /\ e[i] = pre[j]
    BY <1>2, <1>3, <2>1, <2>2
  <2>4. w[j].last
    BY <1>1, <1>5, <2>3
  <2>5. j = Len(w)
    BY <1>4, <2>3, <2>4
  <2>6. n = Len(w) /\ i = Len(d) + n
    BY <1>3, <2>1, <2>3, <2>5
  <2>7. Len(rest) = 0
    BY <1>1, <1>3, <2>6
  <2> QED
    BY <1>1, <1>2, <2>6, <2>7, EmptySeq
<1>6. ASSUME NEW i \in 1 .. Len(rest), rest[i].last PROVE i = Len(rest)
  <2>1. n + i \in 1 .. Len(w) /\ rest[i] = w[n + i]
    BY <1>1, <1>3
  <2>2. n + i = Len(w)
    BY <1>4, <1>6, <2>1
  <2>3. i \in Nat /\ Len(rest) = Len(w) - n
    BY <1>1, <1>3
  <2> QED
    BY <1>3, <2>2, <2>3
<1>7. Ends(e, rest)
  BY <1>5, <1>6, Zenon DEF Ends
<1>8. Len(e) + Len(rest) = Len(d) + Len(w)
  BY <1>1, <1>2, <1>3
<1> QED
  BY <1>7, <1>8 DEF e, pre, rest

\* ... and what is left of what arrived, with nothing after a terminator.
LEMMA EndsRead ==
  ASSUME NEW d \in Seq(Chunk), NEW w \in Seq(Chunk), NEW n \in 1 .. Len(d), Ends(d, w),
         NEW r \in Seq(Chunk), Len(r) = Len(d) - n, \A i \in 1 .. Len(r) : r[i] = d[n + i]
  PROVE  Ends(r, w) /\ (d[n].last => r = <<>> /\ w = <<>>)
<1>1. Len(d) \in Nat /\ n \in Nat /\ 1 <= n /\ n <= Len(d)
  OBVIOUS
<1>2. ASSUME NEW i \in 1 .. Len(r), r[i].last PROVE i = Len(r) /\ w = <<>>
  <2>1. n + i \in 1 .. Len(d) /\ r[i] = d[n + i]
    BY <1>1
  <2>2. n + i = Len(d) /\ w = <<>>
    BY <1>2, <2>1 DEF Ends
  <2> QED
    BY <1>1, <2>2
<1>3. d[n].last => n = Len(d) /\ w = <<>>
  BY DEF Ends
<1>4. n = Len(d) => r = <<>>
  BY <1>1, EmptySeq
<1>5. Ends(r, w)
  BY <1>2, Zenon DEF Ends
<1> QED
  BY <1>3, <1>4, <1>5

\* A read of the whole request leaves nothing of it.
LEMMA ReadWhole ==
  ASSUME NEW q \in Seq(Call), Len(q) = 1, NEW n \in 1 .. Len(q)
  PROVE  SubSeq(q, n + 1, Len(q)) = <<>>
<1>1. /\ SubSeq(q, n + 1, Len(q)) \in Seq(Call)
      /\ Len(SubSeq(q, n + 1, Len(q))) = Len(q) - n
  BY Split
<1>2. Len(q) - n = 0
  OBVIOUS
<1> QED
  BY <1>1, <1>2, EmptySeq

\* A kept connection has one request, or its answer, through every step of the daemon.
LEMMA OneMoved ==
  ASSUME TypeOK, NEW c \in Conn, Worker(c) \/ deliver(c), NEW a \in Seq(Chunk),
         NEW x \in Conn, One(x, a)
  PROVE  One(x, a)'
<1>1. CASE x # c
  BY <1>1, Moved, Zenon DEF One
<1>2. CASE x = c
  <2>t. /\ up[c] \in Seq(Call) /\ work[c] \in Seq(Call)
        /\ wire[c] \in Seq(Chunk) /\ down[c] \in Seq(Chunk) /\ Len(a) \in Nat
        /\ Len(down[c]) \in Nat /\ Len(wire[c]) \in Nat
    BY Typed
  <2>0. /\ up[c] # <<>> => Len(up[c]) = 1 /\ work[c] = <<>>
        /\ up[c] # <<>> \/ work[c] # <<>> => wire[c] = <<>> /\ down[c] = <<>> /\ a = <<>>
        /\ Ends(down[c], wire[c])
        /\ Len(a) + Len(down[c]) + Len(wire[c]) <= MaxChunks
    BY <1>2, Zenon DEF One
  <2> SUFFICES /\ up'[c] # <<>> => Len(up'[c]) = 1 /\ work'[c] = <<>>
               /\ up'[c] # <<>> \/ work'[c] # <<>> =>
                    wire'[c] = <<>> /\ down'[c] = <<>> /\ a = <<>>
               /\ Ends(down'[c], wire'[c])
               /\ Len(a) + Len(down'[c]) + Len(wire'[c]) <= MaxChunks
    BY <1>2, Zenon DEF One, Ends
  <2>1. CASE /\ work[c] = <<>> /\ down'[c] = down[c] /\ wire'[c] = wire[c]
             /\ \E n \in 1 .. Len(up[c]) :
                  work'[c] = SubSeq(up[c], 1, n) /\ up'[c] = SubSeq(up[c], n + 1, Len(up[c]))
    <3>1. PICK n \in 1 .. Len(up[c]) : up'[c] = SubSeq(up[c], n + 1, Len(up[c]))
      BY <2>1
    <3>2. up[c] # <<>>
      BY <2>t, <3>1
    <3>3. up'[c] = <<>>
      BY <2>t, <2>0, <3>1, <3>2, ReadWhole
    <3> QED
      BY <2>0, <2>1, <3>2, <3>3, Zenon
  <2>2. CASE /\ work[c] # <<>> /\ work'[c] = <<>> /\ up'[c] = up[c] /\ down'[c] = down[c]
             /\ \/ wire'[c] = wire[c]
                \/ \E n \in 1 .. MaxChunks, whole \in BOOLEAN :
                     wire'[c] = wire[c] \o Chunks(AnswerTo(work[c]), n, whole)
    <3>1. up'[c] = <<>> /\ work'[c] = <<>> /\ wire[c] = <<>> /\ down[c] = <<>> /\ a = <<>>
      BY <2>0, <2>2
    <3>2. CASE wire'[c] = wire[c]
      BY <2>0, <2>2, <3>1, <3>2, Zenon
    <3>3. ASSUME NEW n \in 1 .. MaxChunks, NEW whole \in BOOLEAN,
                 wire'[c] = wire[c] \o Chunks(AnswerTo(work[c]), n, whole)
          PROVE  /\ Ends(down'[c], wire'[c])
                 /\ Len(a) + Len(down'[c]) + Len(wire'[c]) <= MaxChunks
      <4>1. AnswerTo(work[c]) \in Call \cup {Garbled}
        BY <2>t, <2>2, CommandOf
      <4> DEFINE q == Chunks(AnswerTo(work[c]), n, whole)
      <4>2. q \in Seq(Chunk) /\ Len(q) = n /\ Ends(<<>>, q)
        BY <4>1, Written
      <4> HIDE DEF q
      <4>3. wire'[c] = q
        BY <3>1, <3>3, <4>2, ConcatEmptySeq DEF q
      <4>4. down'[c] = <<>>
        BY <2>2, <3>1
      <4>5. Len(<<>>) + Len(<<>>) + Len(q) <= MaxChunks
        BY <4>2, Bounds
      <4> QED
        BY <3>1, <4>2, <4>3, <4>4, <4>5
    <3> QED
      BY <2>2, <3>1, <3>2, <3>3
  <2>3. CASE up'[c] = <<>> /\ work'[c] = work[c] /\ wire'[c] = wire[c] /\ down'[c] = down[c]
    BY <2>0, <2>3, Zenon
  <2>4. CASE /\ up'[c] = up[c] /\ work'[c] = work[c]
             /\ \E n \in 1 .. Len(wire[c]) :
                  /\ down'[c] = down[c] \o SubSeq(wire[c], 1, n)
                  /\ wire'[c] = SubSeq(wire[c], n + 1, Len(wire[c]))
    <3>1. PICK n \in 1 .. Len(wire[c]) :
                  /\ down'[c] = down[c] \o SubSeq(wire[c], 1, n)
                  /\ wire'[c] = SubSeq(wire[c], n + 1, Len(wire[c]))
      BY <2>4
    <3>2. wire[c] # <<>> /\ up'[c] = <<>> /\ work'[c] = <<>>
      BY <2>t, <2>0, <2>4, <3>1
    <3>3. /\ Ends(down'[c], wire'[c])
          /\ Len(down'[c]) + Len(wire'[c]) = Len(down[c]) + Len(wire[c])
      <4>1. /\ Ends(down[c] \o SubSeq(wire[c], 1, n), SubSeq(wire[c], n + 1, Len(wire[c])))
            /\ Len(down[c] \o SubSeq(wire[c], 1, n)) + Len(SubSeq(wire[c], n + 1, Len(wire[c])))
                 = Len(down[c]) + Len(wire[c])
        BY <2>t, <2>0, EndsMoved
      <4> QED
        BY <3>1, <4>1, Zenon
    <3>4. Len(down'[c]) \in Nat /\ Len(wire'[c]) \in Nat
      <4>1. /\ SubSeq(wire[c], 1, n) \in Seq(Chunk)
            /\ SubSeq(wire[c], n + 1, Len(wire[c])) \in Seq(Chunk)
        BY <2>t, Split
      <4>2. down[c] \o SubSeq(wire[c], 1, n) \in Seq(Chunk)
        BY <2>t, <4>1, ConcatProperties
      <4> QED
        BY <3>1, <4>1, <4>2
    <3>5. Len(a) + Len(down'[c]) + Len(wire'[c]) <= MaxChunks
      <4> DEFINE l == Len(a)
                 d == Len(down[c])
                 w == Len(wire[c])
                 e == Len(down'[c])
                 v == Len(wire'[c])
      <4>1. /\ l \in Nat /\ d \in Nat /\ w \in Nat /\ e \in Nat /\ v \in Nat /\ MaxChunks \in Nat
            /\ l + d + w <= MaxChunks /\ e + v = d + w
        BY <2>t, <2>0, <3>3, <3>4, Bounds, Zenon
      <4> HIDE DEF l, d, w, e, v
      <4>2. l + e + v <= MaxChunks
        BY ONLY <4>1
      <4> QED
        BY ONLY <4>2 DEF l, e, v
    <3> QED
      BY <3>2, <3>3, <3>5, Zenon
  <2> QED
    BY <2>1, <2>2, <2>3, <2>4, Moved, Zenon
<1> QED
  BY <1>1, <1>2

-----------------------------------------------------------------------------
(* A thread that has a client for itself gets the answer to its own request. *)

\* The connection, the call and the chunks of a caller, by their values.
LEMMA ByValue ==
  ASSUME NEW u, NEW c, NEW k, NEW a, c = socket', k = <<u, calls'[u]>>, a = acc'[u]
  PROVE  /\ Labelled(socket, <<u, calls[u]>>, acc[u])' <=> Labelled(c, k, a)'
         /\ One(1, acc[u])' <=> One(1, a)'
<1>1. Labelled(socket, <<u, calls[u]>>, acc[u])' <=> Labelled(c, k, a)'
  BY Zenon DEF Labelled, AllOf, OfAll
<1>2. One(1, acc[u])' <=> One(1, a)'
  BY Zenon DEF One, Ends
<1> QED
  BY <1>1, <1>2, Zenon

\* A connection with nothing on it has nothing of another call, and no request.
LEMMA QuietIs ==
  ASSUME NEW c, Quiet(c), NEW k
  PROVE  Labelled(c, k, <<>>) /\ One(c, <<>>)
<1>1. up[c] = <<>> /\ work[c] = <<>> /\ wire[c] = <<>> /\ down[c] = <<>>
  BY DEF Quiet
<1>2. Labelled(c, k, <<>>)
  BY <1>1, NothingOf, Zenon DEF Labelled
<1>3. Len(<<>>) + Len(<<>>) + Len(<<>>) <= MaxChunks
  BY Bounds
<1>4. One(c, <<>>)
  BY <1>1, <1>3, NothingOf, Zenon DEF One
<1> QED
  BY <1>2, <1>4

\* What holds of a connection holds as long as nothing happens on it.
LEMMA SameConn ==
  ASSUME NEW c, up'[c] = up[c], work'[c] = work[c], wire'[c] = wire[c], down'[c] = down[c]
  PROVE  /\ Quiet(c) => Quiet(c)'
         /\ \A k, a : Labelled(c, k, a) => Labelled(c, k, a)'
         /\ \A a : One(c, a) => One(c, a)'
<1>1. Quiet(c) => Quiet(c)'
  BY Zenon DEF Quiet
<1>2. \A k, a : Labelled(c, k, a) => Labelled(c, k, a)'
  BY Zenon DEF Labelled
<1>3. \A a : One(c, a) => One(c, a)'
  BY Zenon DEF One
<1> QED
  BY <1>1, <1>2, <1>3, Zenon

\* What a caller knows follows from what is on its connections after the step.
LEMMA StillInCall ==
  ASSUME NEW u \in Caller, NEW k, NEW a, k = <<u, calls'[u]>>, a = acc'[u],
         pc'[u] \in Opening \cup Answered /\ socket' # None =>
           \E c : c = socket' /\ Labelled(c, k, a)',
         pc'[u] \in {"poll", "recv"} => fd'[u] = socket',
         ~PerCall' /\ pc'[u] \in {"idle", "send", "close"} => Quiet(1)',
         ~PerCall' /\ pc'[u] \in Answered => One(1, a)',
         pc'[u] \in {"check", "setsockopt", "connect"} => PerCall',
         pc'[u] = "close" /\ got'[u].status = "OK" => got'[u].of = k
  PROVE  InCall(u)'
<1>1. pc'[u] \in Opening \cup Answered /\ socket' # None =>
        Labelled(socket, <<u, calls[u]>>, acc[u])'
  <2> SUFFICES ASSUME NEW c, c = socket', Labelled(c, k, a)'
               PROVE  Labelled(socket, <<u, calls[u]>>, acc[u])'
    OBVIOUS
  <2> QED
    BY ByValue, Zenon
<1>2. ~PerCall' /\ pc'[u] \in Answered => One(1, acc[u])'
  BY ByValue, Zenon
<1> QED
  BY <1>1, <1>2, Zenon DEF InCall, Opening, Answered

\* The parts of the invariant.
LEMMA Parts ==
  ASSUME OwnInv, NEW u \in Caller
  PROVE  /\ TypeOK /\ Begun /\ Kept /\ Ahead /\ Dead
         /\ pc[u] \in Opening \cup Answered /\ socket # None =>
              Labelled(socket, <<u, calls[u]>>, acc[u])
         /\ pc[u] \in {"poll", "recv"} => fd[u] = socket
         /\ ~PerCall /\ pc[u] \in {"idle", "send", "close"} => Quiet(1)
         /\ ~PerCall /\ pc[u] \in Answered => One(1, acc[u])
         /\ pc[u] \in {"check", "setsockopt", "connect"} => PerCall
         /\ pc[u] = "close" /\ got[u].status = "OK" => got[u].of = <<u, calls[u]>>
         /\ pc[u] # "idle" => <<u, calls[u]>> \in Call
         /\ 1 \in Conn
<1>1. pc[u] # "idle" => <<u, calls[u]>> \in Call
  BY Typed, Bounds DEF OwnInv, TypeInv, Begun, Call
<1>2. 1 \in Conn
  BY Bounds DEF Conn
<1> QED
  BY <1>1, <1>2, Zenon DEF OwnInv, TypeInv, InCall

\* The first call of a client, or the next one, finds its connection quiet.
LEMMA OpenOwn ==
  ASSUME OwnInv, NEW u \in Caller, open_socket(u)
  PROVE  Kept' /\ Ahead' /\ Dead' /\ InCall(u)'
<1>0. /\ TypeOK /\ Kept /\ Ahead /\ Dead /\ (~PerCall => Quiet(1)) /\ acc[u] = <<>>
      /\ calls \in [Caller -> 0 .. MaxCalls] /\ pc \in [Caller -> Where] /\ pc[u] = "idle"
      /\ opened \in Nat
  BY Parts, Typed DEF open_socket
<1>1. /\ UNCHANGED <<client, alive, linked, theirs, up, wire, down, work, acc, got>>
      /\ pc'[u] \in {"send", "check"}
      /\ \/ ~PerCall /\ UNCHANGED <<opened, mine, socket>> /\ pc'[u] = "send"
         \/ /\ PerCall /\ pc'[u] = "check"
            /\ \/ /\ opened < MaxConns /\ opened' = opened + 1
                  /\ socket' = opened + 1
               \/ opened' = opened /\ socket' = None
  BY <1>0 DEF open_socket, create_new_socket
<1>2. Kept' /\ Ahead' /\ Dead'
  <2>1. opened' \in Nat /\ opened' >= opened
    BY <1>0, <1>1
  <2>2. Ahead'
    BY <1>0, <1>1, <2>1 DEF Ahead, Quiet, Conn
  <2>3. Kept' /\ Dead'
    BY <1>0, <1>1 DEF Kept, Dead, PerCall
  <2> QED
    BY <2>2, <2>3
<1>3. socket' # None => socket' \in Conn /\ Quiet(socket')
  <2>1. CASE ~PerCall
    BY <1>0, <1>1, <2>1, Bounds DEF Kept, Conn
  <2>2. CASE PerCall /\ socket' # None
    <3>1. opened + 1 \in Conn /\ opened + 1 > opened /\ socket' = opened + 1
      BY <1>0, <1>1, <2>2, Bounds DEF Conn
    <3> QED
      BY <1>0, <3>1 DEF Ahead
  <2> QED
    BY <2>1, <2>2
<1>4. \A k : socket' # None => \E c : c = socket' /\ Labelled(c, k, <<>>)'
  <2> SUFFICES ASSUME NEW k, NEW c, c = socket', Quiet(c) PROVE Labelled(c, k, <<>>)'
    BY <1>3
  <2>1. Labelled(c, k, <<>>)
    BY QuietIs
  <2> QED
    BY <1>1, <2>1, SameConn
<1>5. acc'[u] = <<>> /\ (PerCall' <=> PerCall)
  BY <1>0, <1>1 DEF PerCall
<1>6. ~PerCall => Quiet(1)'
  BY <1>0, <1>1, SameConn
<1> QED
  <2>0. PICK k, a : k = <<u, calls'[u]>> /\ a = acc'[u]
    OBVIOUS
  <2>1. pc'[u] \in Opening \cup Answered /\ socket' # None =>
          \E c : c = socket' /\ Labelled(c, k, a)'
    BY <1>4, <1>5, <2>0, Zenon
  <2>2. /\ pc'[u] \notin {"poll", "recv"} /\ pc'[u] \notin Answered /\ pc'[u] # "close"
        /\ pc'[u] \in {"check", "setsockopt", "connect"} => PerCall'
    BY <1>1, <1>5 DEF Answered
  <2>3. ~PerCall' => Quiet(1)'
    BY <1>5, <1>6
  <2>4. InCall(u)'
    BY <2>0, <2>1, <2>2, <2>3, StillInCall
  <2> QED
    BY <1>2, <2>4

\* A step of a caller that changes no connection and neither its call nor its chunks, and
\* that leaves a kept connection where it was or finds it quiet.
LEMMA StepOwn ==
  ASSUME OwnInv, NEW u \in Caller, pc[u] # "idle",
         UNCHANGED <<client, alive, opened, up, work, wire, down, socket, calls>>,
         PerCall \/ UNCHANGED <<mine, linked, theirs>>,
         ~alive => theirs' = theirs,
         acc'[u] = acc[u] \/ (acc'[u] = <<>> /\ pc'[u] = "close"),
         pc'[u] \in Opening \cup Answered => pc[u] \in Opening \cup Answered,
         pc'[u] \in {"poll", "recv"} => fd'[u] = socket,
         ~PerCall /\ pc'[u] \in {"idle", "send", "close"} => Quiet(1),
         ~PerCall /\ pc'[u] \in Answered => One(1, acc[u]),
         pc'[u] \in {"check", "setsockopt", "connect"} => PerCall,
         pc'[u] = "close" => got'[u].status # "OK"
  PROVE  Kept' /\ Ahead' /\ Dead' /\ InCall(u)'
<1>0. /\ TypeOK /\ Kept /\ Ahead /\ Dead
      /\ pc[u] \in Opening \cup Answered /\ socket # None =>
           Labelled(socket, <<u, calls[u]>>, acc[u])
  BY Parts
<1>1. Kept' /\ Ahead' /\ Dead'
  BY <1>0, Zenon DEF Kept, Ahead, Dead, Quiet, PerCall
<1>2. PICK k, a : k = <<u, calls'[u]>> /\ a = acc'[u]
  OBVIOUS
<1>3. pc'[u] \in Opening \cup Answered => a = acc[u]
  BY <1>2 DEF Opening, Answered
<1>4. pc'[u] \in Opening \cup Answered /\ socket' # None =>
        \E c : c = socket' /\ Labelled(c, k, a)'
  <2> SUFFICES ASSUME NEW c, c = socket, Labelled(c, k, a) PROVE Labelled(c, k, a)'
    BY <1>0, <1>2, <1>3, Zenon
  <2> QED
    BY SameConn
<1>5. PerCall' <=> PerCall
  BY DEF PerCall
<1>6. /\ ~PerCall' /\ pc'[u] \in {"idle", "send", "close"} => Quiet(1)'
      /\ ~PerCall' /\ pc'[u] \in Answered => One(1, a)'
  <2>1. Quiet(1) => Quiet(1)'
    BY SameConn
  <2>2. One(1, a) => One(1, a)'
    BY SameConn
  <2> QED
    BY <1>3, <1>5, <2>1, <2>2, Zenon
<1>7. InCall(u)'
  BY <1>2, <1>4, <1>5, <1>6, StillInCall
<1> QED
  BY <1>1, <1>7

\* Opening a connection, polling and closing.
LEMMA PollOwn ==
  ASSUME OneCaller, Patience, OwnInv, NEW u \in Caller,
         \/ check_socket(u) \/ set_buffer(u) \/ connect_socket(u)
         \/ read_socket(u) \/ socket_poll(u) \/ socket_close(u)
  PROVE  Kept' /\ Ahead' /\ Dead' /\ InCall(u)'
<1>0. /\ TypeOK /\ Kept
      /\ pc[u] \in {"poll", "recv"} => fd[u] = socket
      /\ ~PerCall /\ pc[u] \in {"idle", "send", "close"} => Quiet(1)
      /\ ~PerCall /\ pc[u] \in Answered => One(1, acc[u])
      /\ pc[u] \in {"check", "setsockopt", "connect"} => PerCall
      /\ pc[u] = "close" /\ got[u].status = "OK" => got[u].of = <<u, calls[u]>>
  BY Parts
<1>t. /\ client \in Clients /\ pc \in [Caller -> Where] /\ fd \in [Caller -> Conn \cup {None}]
      /\ got \in [Caller -> Reply]
  BY <1>0, Typed
<1>1. CASE check_socket(u) \/ set_buffer(u) \/ connect_socket(u)
  <2>1. /\ pc[u] \in {"check", "setsockopt", "connect"}
        /\ UNCHANGED <<client, alive, opened, up, work, wire, down, socket, calls, acc>>
        /\ ~alive => theirs' = theirs
        /\ pc'[u] \in {"idle", "setsockopt", "connect", "send", "close"}
        /\ pc'[u] = "close" => got'[u].status # "OK"
    BY <1>1, <1>t DEF check_socket, set_buffer, connect_socket
  <2>2. PerCall /\ pc[u] \in Opening /\ pc'[u] \notin Answered
    BY <1>0, <2>1 DEF Opening, Answered
  <2> QED
    BY <2>1, <2>2, StepOwn
<1>2. CASE read_socket(u)
  <2>1. /\ pc[u] \in {"ufds", "respond"} /\ pc'[u] \in {"poll", "recv"} /\ fd'[u] = socket
        /\ UNCHANGED <<client, alive, netVars, work, socket, calls, acc>>
    BY <1>2, <1>t DEF read_socket
  <2>2. pc[u] \in Answered /\ pc'[u] \in Answered /\ pc'[u] \notin Opening
    BY <2>1 DEF Answered, Opening
  <2> QED
    BY <1>0, <2>1, <2>2, StepOwn
<1>3. CASE socket_poll(u)
  <2>1. /\ pc[u] = "poll" /\ pc'[u] \in {"respond", "close"}
        /\ UNCHANGED <<client, alive, netVars, work, socket, calls, acc>>
        /\ pc'[u] = "close" => /\ got'[u].status # "OK"
                               /\ fd[u] \notin mine \cap linked \/ u \notin client.patient
    BY <1>3, <1>t DEF socket_poll, TimesOut
  <2>2. pc[u] \in Answered
    BY <2>1 DEF Answered
  <2>3. ~PerCall => pc'[u] # "close"
    <3> SUFFICES ASSUME ~PerCall PROVE fd[u] \in mine \cap linked /\ u \in client.patient
      BY <2>1
    <3>1. client.keep
      BY DEF PerCall
    <3> QED
      BY <1>0, <1>t, <2>1, <3>1 DEF Kept, Patience
  <2> QED
    BY <1>0, <2>1, <2>2, <2>3, StepOwn
<1>4. CASE socket_close(u)
  <2>1. /\ pc[u] = "close" /\ pc'[u] = "idle"
        /\ UNCHANGED <<client, alive, opened, linked, theirs, up, work, wire, down, socket, calls, acc>>
        /\ PerCall \/ mine' = mine
    BY <1>4, <1>t DEF socket_close
  <2>2. pc'[u] \notin Opening /\ pc'[u] \notin Answered
    BY <2>1 DEF Opening, Answered
  <2> QED
    BY <1>0, <2>1, <2>2, StepOwn
<1> QED
  BY <1>1, <1>2, <1>3, <1>4

\* The request goes out on a connection that has nothing of another call.
LEMMA SendOwn ==
  ASSUME Patience, OwnInv, NEW u \in Caller, socket_send(u)
  PROVE  Kept' /\ Ahead' /\ Dead' /\ InCall(u)'
<1>0. /\ TypeOK /\ Kept /\ Ahead /\ Dead /\ pc[u] = "send"
      /\ pc[u] \in Opening \cup Answered /\ socket # None =>
           Labelled(socket, <<u, calls[u]>>, acc[u])
      /\ ~PerCall => Quiet(1)
      /\ <<u, calls[u]>> \in Call /\ acc[u] = <<>> /\ pc[u] \in Opening
  <2>1. TypeOK /\ pc[u] = "send"
    BY Parts DEF socket_send
  <2>2. acc[u] = <<>>
    BY <2>1, Typed
  <2> QED
    BY <2>1, <2>2, Parts DEF Opening
<1>t. /\ client \in Clients /\ pc \in [Caller -> Where] /\ got \in [Caller -> Reply]
      /\ up \in [Conn -> Seq(Call)]
  BY <1>0, Typed
<1>1. CASE up' = up
  <2>1. /\ pc'[u] \in {"ufds", "close"} /\ (pc'[u] = "close" => got'[u].status # "OK")
        /\ UNCHANGED <<client, alive, netVars, work, socket, calls, acc>>
    BY <1>1, <1>t DEF socket_send
  <2>2. pc'[u] \notin Opening
    BY <2>1 DEF Opening
  <2>3. ~PerCall => One(1, acc[u])
    BY <1>0, QuietIs
  <2> QED
    BY <1>0, <2>1, <2>2, <2>3, StepOwn
<1>2. CASE up' # up
  <2>1. PICK n \in 1 .. client.pieces :
          up' = [up EXCEPT ![socket] = @ \o [i \in 1 .. n |-> <<u, calls[u]>>]]
    BY <1>2 DEF socket_send
  <2>2. /\ socket \in mine \cap theirs /\ pc'[u] = "ufds"
        /\ UNCHANGED <<client, alive, opened, mine, linked, theirs, wire, down, work, socket, calls, acc>>
    BY <1>2, <1>t DEF socket_send
  <2>3. socket \in 1 .. opened /\ socket \in Conn /\ socket # None /\ alive
    BY <1>0, <2>2, Opened, Typed DEF Dead
  <2>4. n \in Nat \ {0}
    <3>1. client.pieces \in Nat
      BY <1>t, GstcConnectionAssumption
    <3> QED
      BY <3>1
  <2>5. Kept' /\ Ahead' /\ Dead'
    <3>1. \A c \in Conn : c > opened => up'[c] = up[c]
      BY <1>t, <1>0, <2>1, <2>3, Opened
    <3> QED
      BY <1>0, <2>2, <2>3, <3>1 DEF Kept, Ahead, Dead, Quiet, PerCall
  <2>6. PICK k, a, c : k = <<u, calls'[u]>> /\ a = acc'[u] /\ c = socket'
    OBVIOUS
  <2>7. k = <<u, calls[u]>> /\ a = acc[u] /\ c = socket /\ c \in Conn
    BY <2>2, <2>3, <2>6
  <2>8. /\ up'[c] = up[c] \o [i \in 1 .. n |-> k] /\ work'[c] = work[c] /\ wire'[c] = wire[c]
        /\ down'[c] = down[c] /\ up[c] \in Seq(Call)
    BY <1>t, <2>1, <2>2, <2>7
  <2>9. /\ [i \in 1 .. n |-> k] \in Seq(Call) /\ Len([i \in 1 .. n |-> k]) = n
        /\ AllOf([i \in 1 .. n |-> k], k)
    BY <1>0, <2>4, <2>7, Pieces
  <2>10. Labelled(c, k, a)'
    <3>1. Labelled(c, k, a)
      BY <1>0, <2>3, <2>7, Zenon
    <3>2. AllOf(up[c], k)
      BY <3>1 DEF Labelled
    <3>3. AllOf(up'[c], k)
      BY <2>8, <2>9, <3>2, JoinOf
    <3> QED
      BY <2>8, <3>1, <3>3, Zenon DEF Labelled, AllOf, OfAll
  <2>11. ~PerCall => One(1, a)'
    <3> SUFFICES ASSUME ~PerCall PROVE One(1, a)'
      OBVIOUS
    <3>1. c = 1 /\ Quiet(1) /\ a = <<>> /\ n = 1
      <4>1. client.pieces = 1
        BY <1>t DEF Patience, PerCall
      <4> QED
        BY <1>0, <2>1, <2>7, <4>1 DEF Kept
    <3>2. up[1] = <<>> /\ work[1] = <<>> /\ wire[1] = <<>> /\ down[1] = <<>>
      BY <3>1 DEF Quiet
    <3>3. Len(up'[1]) = 1 /\ work'[1] = <<>> /\ wire'[1] = <<>> /\ down'[1] = <<>>
      <4>1. up'[1] = [i \in 1 .. n |-> k]
        BY <2>8, <2>9, <3>1, <3>2, ConcatEmptySeq
      <4> QED
        BY <2>8, <2>9, <3>1, <3>2, <4>1
    <3>4. Ends(down'[1], wire'[1]) /\ Len(a) + Len(down'[1]) + Len(wire'[1]) <= MaxChunks
      BY <3>1, <3>3, NothingOf, Bounds
    <3> QED
      BY <3>1, <3>3, <3>4, Zenon DEF One, Ends
  <2>12. (PerCall' <=> PerCall) /\ pc'[u] \notin {"check", "setsockopt", "connect"}
    BY <2>2 DEF PerCall
  <2>13. InCall(u)'
    BY <2>2, <2>6, <2>10, <2>11, <2>12, StillInCall
  <2> QED
    BY <2>5, <2>13
<1> QED
  BY <1>1, <1>2

\* A read takes chunks of the caller's own answer, and the last of them if it ends there.
LEMMA ReadOwn ==
  ASSUME Patience, OwnInv, NEW u \in Caller, pc[u] = "recv", fd[u] \in mine, recv_some(u),
         UNCHANGED <<client, alive, opened, mine, linked, theirs, up, wire, work, socket, calls,
                     fd>>
  PROVE  Kept' /\ Ahead' /\ Dead' /\ InCall(u)'
<1>0. /\ TypeOK /\ Kept /\ Ahead /\ Dead /\ fd[u] = socket /\ pc[u] \in Answered
      /\ pc[u] \in Opening \cup Answered /\ socket # None =>
           Labelled(socket, <<u, calls[u]>>, acc[u])
      /\ ~PerCall /\ pc[u] \in Answered => One(1, acc[u])
  BY Parts DEF Answered
<1>t. /\ client \in Clients /\ pc \in [Caller -> Where] /\ got \in [Caller -> Reply]
      /\ acc \in [Caller -> Seq(Chunk)] /\ down \in [Conn -> Seq(Chunk)]
      /\ wire \in [Conn -> Seq(Chunk)]
  BY <1>0, Typed
<1>1. PICK n, read, rest, all : Reading(u, n, read, rest, all)
  BY <1>0, Received
<1>2. PICK k, a, c : k = <<u, calls'[u]>> /\ a = acc'[u] /\ c = socket'
  OBVIOUS
<1>3. k = <<u, calls[u]>> /\ c = socket /\ c = fd[u] /\ c \in Conn /\ c \in 1 .. opened /\ c # None
  BY <1>0, <1>2, Opened, Typed
<1>4. /\ n \in 1 .. Len(down[c])
      /\ read \in Seq(Chunk) /\ Len(read) = n /\ \A i \in 1 .. n : read[i] = down[c][i]
      /\ rest \in Seq(Chunk) /\ Len(rest) = Len(down[c]) - n
      /\ \A i \in 1 .. Len(rest) : rest[i] = down[c][n + i]
      /\ all \in Seq(Chunk) /\ all = acc[u] \o read /\ Len(all) = Len(acc[u]) + n
      /\ all # <<>> /\ all[Len(all)] = read[n]
      /\ down' = [down EXCEPT ![c] = rest]
  BY <1>1, <1>3, Zenon DEF Reading
<1>5. \/ /\ Len(all) >= MaxResponse
         /\ got' = [got EXCEPT ![u] = [status |-> "LONG_RESPONSE", of |-> NoCall]]
         /\ pc' = [pc EXCEPT ![u] = "close"] /\ acc' = [acc EXCEPT ![u] = <<>>]
      \/ /\ read[n].last /\ got' = [got EXCEPT ![u] = Answer(all)]
         /\ pc' = [pc EXCEPT ![u] = "close"] /\ acc' = [acc EXCEPT ![u] = <<>>]
      \/ /\ ~read[n].last /\ acc' = [acc EXCEPT ![u] = all]
         /\ UNCHANGED <<got, pc>>
  BY <1>1, Zenon DEF Reading
<1>6. down'[c] = rest /\ \A x \in Conn : x # c => down'[x] = down[x]
  BY <1>t, <1>3, <1>4
<1>7. Kept' /\ Ahead' /\ Dead'
  <2>1. \A x \in Conn : x > opened => down'[x] = down[x]
    BY <1>0, <1>3, <1>6, Opened
  <2> QED
    BY <1>0, <2>1, Zenon DEF Kept, Ahead, Dead, Quiet, PerCall
<1>8. Labelled(c, k, acc[u])
  BY <1>0, <1>3, Zenon
<1>9. OfAll(rest, k) /\ OfAll(all, k)
  <2>1. OfAll(down[c], k) /\ OfAll(acc[u], k)
    BY <1>8 DEF Labelled
  <2>2. /\ \A i \in 1 .. n : i \in 1 .. Len(down[c])
        /\ \A i \in 1 .. Len(rest) : n + i \in 1 .. Len(down[c])
    BY <1>3, <1>4, <1>t
  <2>3. OfAll(read, k) /\ OfAll(rest, k)
    <3>1. \A i \in 1 .. n : read[i].of = k
      BY <1>4, <2>1, <2>2, Zenon DEF OfAll
    <3>2. \A i \in 1 .. Len(rest) : rest[i].of = k
      BY <1>4, <2>1, <2>2, Zenon DEF OfAll
    <3>3. Len(read) = n
      BY <1>4, Zenon
    <3> QED
      BY <3>1, <3>2, <3>3, Zenon DEF OfAll
  <2>4. OfAll(acc[u] \o read, k)
    BY <1>t, <1>4, <2>1, <2>3, JoinOf
  <2> QED
    BY <1>4, <2>3, <2>4
<1>10. OfAll(a, k) => Labelled(c, k, a)'
  BY <1>6, <1>8, <1>9, Zenon DEF Labelled, AllOf, OfAll
<1>11. ~PerCall => /\ c = 1 /\ Len(all) < MaxResponse
                   /\ up'[1] = <<>> /\ work'[1] = <<>> /\ wire'[1] = wire[1] /\ down'[1] = rest
                   /\ Ends(rest, wire[1]) /\ (read[n].last => rest = <<>> /\ wire[1] = <<>>)
                   /\ Len(all) + Len(rest) + Len(wire[1]) <= MaxChunks
  <2> SUFFICES ASSUME ~PerCall
               PROVE  /\ c = 1 /\ Len(all) < MaxResponse
                      /\ up'[1] = <<>> /\ work'[1] = <<>> /\ wire'[1] = wire[1]
                      /\ down'[1] = rest
                      /\ Ends(rest, wire[1]) /\ (read[n].last => rest = <<>> /\ wire[1] = <<>>)
                      /\ Len(all) + Len(rest) + Len(wire[1]) <= MaxChunks
    OBVIOUS
  <2>1. c = 1 /\ MaxChunks < MaxResponse
    BY <1>0, <1>3, <1>t DEF Kept, Patience, PerCall
  <2>2. /\ up[1] # <<>> \/ work[1] # <<>> => down[1] = <<>>
        /\ Ends(down[1], wire[1])
        /\ Len(acc[u]) + Len(down[1]) + Len(wire[1]) <= MaxChunks
    BY <1>0, Zenon DEF One
  <2>3. down[1] # <<>>
    BY <1>t, <1>3, <1>4, <2>1
  <2>4. Ends(rest, wire[1]) /\ (down[1][n].last => rest = <<>> /\ wire[1] = <<>>)
    BY <1>t, <1>3, <1>4, <2>1, <2>2, EndsRead
  <2>5. read[n] = down[1][n]
    <3>1. n \in 1 .. n
      BY <1>4
    <3> QED
      BY <1>4, <2>1, <3>1, Zenon
  <2>6. Len(all) + Len(rest) + Len(wire[1]) <= MaxChunks /\ Len(all) < MaxResponse
    <3> DEFINE l == Len(acc[u])
               d == Len(down[1])
               w == Len(wire[1])
               r == Len(rest)
               z == Len(all)
    <3>1. /\ l \in Nat /\ d \in Nat /\ w \in Nat /\ n \in Nat /\ n <= d
          /\ MaxChunks \in Nat /\ MaxResponse \in Nat
          /\ r = d - n /\ z = l + n
          /\ l + d + w <= MaxChunks /\ MaxChunks < MaxResponse
      BY <1>t, <1>3, <1>4, <2>1, <2>2, Bounds
    <3> HIDE DEF l, d, w, r, z
    <3>2. z + r + w <= MaxChunks /\ z < MaxResponse
      BY ONLY <3>1
    <3> QED
      BY ONLY <3>2 DEF r, w, z
  <2> QED
    BY <1>6, <2>1, <2>2, <2>3, <2>4, <2>5, <2>6, Zenon
<1>12. PerCall' <=> PerCall
  BY DEF PerCall
<1>13. InCall(u)'
  <2>1. CASE /\ Len(all) >= MaxResponse
             /\ got' = [got EXCEPT ![u] = [status |-> "LONG_RESPONSE", of |-> NoCall]]
             /\ pc' = [pc EXCEPT ![u] = "close"] /\ acc' = [acc EXCEPT ![u] = <<>>]
    <3>1. PerCall
      <4>1. Len(all) \in Nat /\ MaxResponse \in Nat
        BY <1>4, Bounds
      <4>2. ~(Len(all) < MaxResponse)
        BY ONLY <2>1, <4>1
      <4> QED
        BY <1>11, <4>2, Zenon
    <3>2. pc'[u] = "close" /\ got'[u].status # "OK"
      BY <1>t, <2>1
    <3>3. pc'[u] \notin Opening \cup Answered
      BY <3>2 DEF Opening, Answered
    <3> QED
      BY <1>2, <1>12, <3>1, <3>2, <3>3, StillInCall
  <2>2. CASE /\ read[n].last /\ got' = [got EXCEPT ![u] = Answer(all)]
             /\ pc' = [pc EXCEPT ![u] = "close"] /\ acc' = [acc EXCEPT ![u] = <<>>]
    <3>1. pc'[u] = "close" /\ got'[u] = Answer(all)
      BY <1>t, <2>2
    <3>2. pc'[u] \notin Opening \cup Answered
      BY <3>1 DEF Opening, Answered
    <3>3. all[1].of = k
      <4>1. 1 \in 1 .. Len(all)
        BY <1>4
      <4> QED
        BY <1>9, <4>1, Zenon DEF OfAll
    <3>4. got'[u].status = "OK" => got'[u].of = k
      <4>1. \/ Answer(all) = [status |-> "OK", of |-> all[1].of]
            \/ Answer(all) = [status |-> "MALFORMED", of |-> NoCall]
        BY <1>4, AnswerOf, Zenon
      <4> QED
        BY ONLY <3>1, <3>3, <4>1
    <3>5. ~PerCall => Quiet(1)'
      BY <1>11, <2>2, Zenon DEF Quiet
    <3> QED
      BY <1>2, <1>12, <3>1, <3>2, <3>4, <3>5, StillInCall
  <2>3. CASE ~read[n].last /\ acc' = [acc EXCEPT ![u] = all] /\ UNCHANGED <<got, pc>>
    <3>1. pc'[u] = "recv" /\ a = all /\ fd'[u] = socket'
      BY <1>0, <1>2, <1>t, <2>3
    <3>2. Labelled(c, k, a)'
      BY <1>9, <1>10, <3>1
    <3>3. ~PerCall => One(1, a)'
      <4> SUFFICES ASSUME ~PerCall PROVE One(1, a)'
        OBVIOUS
      <4>1. /\ up'[1] = <<>> /\ work'[1] = <<>>
            /\ Ends(down'[1], wire'[1])
            /\ Len(a) + Len(down'[1]) + Len(wire'[1]) <= MaxChunks
        BY <1>11, <3>1, Zenon
      <4> QED
        BY <4>1, Zenon DEF One, Ends
    <3> QED
      BY <1>2, <1>12, <3>1, <3>2, <3>3, StillInCall
  <2> QED
    BY <1>5, <2>1, <2>2, <2>3
<1> QED
  BY <1>7, <1>13

\* A recv, whether it returned something or not.
LEMMA RecvOwn ==
  ASSUME Patience, OwnInv, NEW u \in Caller, accumulate_response(u)
  PROVE  Kept' /\ Ahead' /\ Dead' /\ InCall(u)'
<1>0. /\ TypeOK /\ Kept /\ Dead /\ pc[u] = "recv" /\ fd[u] = socket
  BY Parts DEF accumulate_response
<1>t. pc \in [Caller -> Where] /\ got \in [Caller -> Reply] /\ acc \in [Caller -> Seq(Chunk)]
  BY <1>0, Typed
<1>1. CASE fd[u] \in mine /\ recv_some(u)
  BY <1>0, <1>1, ReadOwn DEF accumulate_response
<1>2. CASE ~(fd[u] \in mine /\ recv_some(u))
  <2>1. /\ UNCHANGED <<client, alive, netVars, work, socket, calls, fd>>
        /\ pc'[u] \in {"spin", "stuck", "close"}
        /\ pc'[u] = "close" => got'[u].status # "OK"
        /\ acc'[u] = acc[u] \/ (acc'[u] = <<>> /\ pc'[u] = "close")
        /\ AtEnd(fd[u]) \/ fd[u] \notin mine \cap linked
    BY <1>2, <1>t DEF accumulate_response
  <2>2. ~PerCall => Quiet(1)
    <3> SUFFICES ASSUME ~PerCall PROVE Quiet(1)
      OBVIOUS
    <3>1. socket = 1 /\ mine = {1} /\ linked = {1} /\ (alive => theirs = {1})
      BY <1>0 DEF Kept
    <3>2. AtEnd(1)
      BY <1>0, <2>1, <3>1
    <3>3. ~alive /\ wire[1] = <<>> /\ down[1] = <<>>
      BY <3>1, <3>2 DEF AtEnd
    <3>4. up[1] = <<>> /\ work[1] = <<>>
      BY <1>0, <3>3, Bounds DEF Dead, Conn
    <3> QED
      BY <3>3, <3>4 DEF Quiet
  <2>3. pc'[u] \notin Opening /\ pc'[u] \notin Answered
    BY <2>1 DEF Opening, Answered
  <2> QED
    BY <1>0, <2>1, <2>2, <2>3, StepOwn
<1> QED
  BY <1>1, <1>2

\* What a caller knows of its connections stays, when it does nothing and they keep it.
LEMMA NetOwn ==
  ASSUME OwnInv, NEW u \in Caller, UNCHANGED <<client, socket, pc, calls, fd, acc, got>>,
         \A x \in Conn, k \in Call, a \in Seq(Chunk) : Labelled(x, k, a) => Labelled(x, k, a)',
         \A a \in Seq(Chunk) : One(1, a) => One(1, a)',
         Quiet(1) => Quiet(1)'
  PROVE  InCall(u)'
<1>0. /\ TypeOK
      /\ pc[u] \in Opening \cup Answered /\ socket # None =>
           Labelled(socket, <<u, calls[u]>>, acc[u])
      /\ pc[u] \in {"poll", "recv"} => fd[u] = socket
      /\ ~PerCall /\ pc[u] \in {"idle", "send", "close"} => Quiet(1)
      /\ ~PerCall /\ pc[u] \in Answered => One(1, acc[u])
      /\ pc[u] \in {"check", "setsockopt", "connect"} => PerCall
      /\ pc[u] = "close" /\ got[u].status = "OK" => got[u].of = <<u, calls[u]>>
      /\ pc[u] # "idle" => <<u, calls[u]>> \in Call
  BY Parts
<1>t. socket \in Conn \cup {None} /\ acc[u] \in Seq(Chunk)
  BY <1>0, Typed
<1>1. PICK k, a, c : k = <<u, calls[u]>> /\ a = acc[u] /\ c = socket
  OBVIOUS
<1>2. k = <<u, calls'[u]>> /\ a = acc'[u] /\ c = socket' /\ a \in Seq(Chunk)
  BY <1>1, <1>t
<1>3. pc'[u] \in Opening \cup Answered /\ socket' # None =>
        \E x : x = socket' /\ Labelled(x, k, a)'
  <2> SUFFICES ASSUME pc[u] \in Opening \cup Answered, socket # None
               PROVE  Labelled(c, k, a)'
    BY <1>2
  <2>1. c \in Conn /\ k \in Call
    BY <1>0, <1>1, <1>t DEF Opening, Answered
  <2>2. Labelled(c, k, a)
    BY <1>0, <1>1, Zenon
  <2> QED
    BY <1>2, <2>1, <2>2, Zenon
<1>4. ~PerCall' /\ pc'[u] \in Answered => One(1, a)'
  BY <1>0, <1>1, <1>2, Zenon DEF PerCall
<1>5. PerCall' <=> PerCall
  BY DEF PerCall
<1> QED
  BY <1>0, <1>1, <1>2, <1>3, <1>4, <1>5, StillInCall

\* The daemon answers a call on the connection it came from.
LEMMA DaemonOwn ==
  ASSUME OwnInv, NEW u \in Caller, NEW c \in Conn, Worker(c) \/ deliver(c)
  PROVE  Kept' /\ Ahead' /\ Dead' /\ InCall(u)'
<1>0. TypeOK /\ Kept /\ Ahead /\ Dead /\ 1 \in Conn
  BY Parts
<1>1. /\ UNCHANGED <<client, alive, opened, mine, linked, socket, pc, calls, fd, acc, got>>
      /\ alive \/ UNCHANGED <<theirs, up, work>>
      /\ c \in 1 .. opened
      /\ \A x \in Conn \ {c} : /\ up'[x] = up[x] /\ work'[x] = work[x]
                               /\ wire'[x] = wire[x] /\ down'[x] = down[x]
      /\ theirs' \in {theirs, theirs \ ({c} \ mine)}
  BY <1>0, Moved, Zenon
<1>2. Ahead'
  <2>1. \A x \in Conn : x > opened => x \in Conn \ {c}
    BY <1>0, <1>1, Opened, Zenon
  <2> QED
    BY <1>0, <1>1, <2>1, Zenon DEF Ahead, Quiet
<1>3. Dead'
  BY <1>0, <1>1, Zenon DEF Dead
<1>4. Kept'
  <2>1. ~PerCall => mine = {1} /\ (alive => theirs = {1})
    BY <1>0 DEF Kept
  <2>2. ~PerCall /\ alive => theirs' = {1}
    BY <1>1, <2>1
  <2> QED
    BY <1>0, <1>1, <2>2, Zenon DEF Kept, PerCall
<1>5. \A x \in Conn, k \in Call, a \in Seq(Chunk) : Labelled(x, k, a) => Labelled(x, k, a)'
  BY <1>0, LabelMoved, Zenon
<1>6. \A a \in Seq(Chunk) : One(1, a) => One(1, a)'
  BY <1>0, OneMoved, Zenon
<1>7. Quiet(1) => Quiet(1)'
  BY <1>0, QuietMoved, Zenon
<1>8. InCall(u)'
  BY <1>1, <1>5, <1>6, <1>7, NetOwn
<1> QED
  BY <1>2, <1>3, <1>4, <1>8

\* A daemon that dies sends nothing more.
LEMMA DiesOwn ==
  ASSUME OwnInv, NEW u \in Caller, daemon_dies
  PROVE  Kept' /\ Ahead' /\ Dead' /\ InCall(u)'
<1>0. TypeOK /\ Kept /\ Ahead /\ Dead /\ 1 \in Conn
  BY Parts
<1>t. /\ up \in [Conn -> Seq(Call)] /\ work \in [Conn -> Seq(Call)]
      /\ wire \in [Conn -> Seq(Chunk)] /\ down \in [Conn -> Seq(Chunk)]
  BY <1>0, Typed
<1>1. /\ UNCHANGED <<client, opened, mine, linked, down, socket, pc, calls, fd, acc, got>>
      /\ ~alive' /\ theirs' = {}
      /\ \A x \in Conn : up'[x] = <<>> /\ work'[x] = <<>> /\ wire'[x] \in {wire[x], <<>>}
  BY DEF daemon_dies
<1>2. Kept' /\ Ahead' /\ Dead'
  BY <1>0, <1>1, Zenon DEF Kept, Ahead, Dead, Quiet, PerCall
<1>3. ASSUME NEW x \in Conn, NEW k \in Call, NEW a \in Seq(Chunk), Labelled(x, k, a)
      PROVE  Labelled(x, k, a)'
  <2>1. AllOf(up'[x], k) /\ AllOf(work'[x], k) /\ OfAll(wire'[x], k)
    BY <1>1, <1>3, NothingOf, Zenon DEF Labelled
  <2> QED
    BY <1>1, <1>3, <2>1, Zenon DEF Labelled, AllOf, OfAll
<1>4. ASSUME NEW a \in Seq(Chunk), One(1, a) PROVE One(1, a)'
  <2>1. /\ Ends(down[1], wire[1])
        /\ Len(a) + Len(down[1]) + Len(wire[1]) <= MaxChunks
    BY <1>4 DEF One
  <2>2. Len(a) \in Nat /\ Len(down[1]) \in Nat /\ Len(wire[1]) \in Nat
    BY <1>0, <1>t
  <2>3. Ends(down[1], <<>>) /\ Len(a) + Len(down[1]) + Len(<<>>) <= MaxChunks
    <3>1. Ends(down[1], <<>>)
      <4>1. 1 .. Len(<<>>) = {}
        OBVIOUS
      <4> QED
        BY <2>1, <4>1, Zenon DEF Ends
    <3>2. Len(a) + Len(down[1]) + Len(<<>>) <= MaxChunks
      <4> DEFINE l == Len(a)
                 d == Len(down[1])
                 w == Len(wire[1])
      <4>1. l \in Nat /\ d \in Nat /\ w \in Nat /\ MaxChunks \in Nat /\ l + d + w <= MaxChunks
        BY <2>1, <2>2, Bounds, Zenon
      <4> HIDE DEF l, d, w
      <4>2. l + d + Len(<<>>) <= MaxChunks
        BY ONLY <4>1
      <4> QED
        BY ONLY <4>2 DEF l, d
    <3> QED
      BY <3>1, <3>2
  <2>4. /\ up'[1] = <<>> /\ work'[1] = <<>>
        /\ Ends(down'[1], wire'[1]) /\ Len(a) + Len(down'[1]) + Len(wire'[1]) <= MaxChunks
    BY <1>0, <1>1, <2>1, <2>3, Zenon
  <2> QED
    BY <2>4, Zenon DEF One, Ends
<1>5. Quiet(1) => Quiet(1)'
  BY <1>0, <1>1, Zenon DEF Quiet
<1>6. InCall(u)'
  BY <1>1, <1>3, <1>4, <1>5, NetOwn
<1> QED
  BY <1>2, <1>6

\* Every step keeps what the caller knows.
LEMMA OwnStep ==
  ASSUME OneCaller, Patience, OwnInv, [Next]_vars, NEW u \in Caller
  PROVE  Kept' /\ Ahead' /\ Dead' /\ InCall(u)'
<1>1. CASE \E v \in Caller : open_socket(v) \/ Run(v)
  <2>1. open_socket(u) \/ Run(u)
    BY <1>1, Zenon DEF OneCaller
  <2> QED
    BY <2>1, OpenOwn, PollOwn, SendOwn, RecvOwn, Zenon DEF Run
<1>2. CASE \E c \in Conn : Worker(c) \/ deliver(c)
  BY <1>2, DaemonOwn, Zenon
<1>3. CASE daemon_dies
  BY <1>3, DiesOwn, Zenon
<1>4. CASE UNCHANGED vars
  <2>1. UNCHANGED <<client, alive, opened, mine, linked, theirs, up, wire, down, work, socket, pc,
                    calls, fd, acc, got>>
    BY <1>4 DEF vars
  <2>2. Kept' /\ Ahead' /\ Dead'
    BY <2>1, Parts, Zenon DEF Kept, Ahead, Dead, Quiet, PerCall
  <2>3. /\ \A x \in Conn, k \in Call, a \in Seq(Chunk) : Labelled(x, k, a) => Labelled(x, k, a)'
        /\ \A a \in Seq(Chunk) : One(1, a) => One(1, a)'
        /\ Quiet(1) => Quiet(1)'
    BY <2>1, SameConn, Zenon
  <2>4. InCall(u)'
    BY <2>1, <2>3, NetOwn
  <2> QED
    BY <2>2, <2>4
<1> QED
  BY <1>1, <1>2, <1>3, <1>4, Zenon DEF Next

\* An answer that a call returns was given to this call's bytes and to no others
\* (gstc_socket_send, accumulate_response), if one thread uses the client and, on a kept
\* connection, waits without a limit for answers that fit its buffer, the daemon reading each
\* request whole.  A client that opens a connection for each call may give up, have its requests
\* read in pieces and its answers cut short; and in either case the daemon may die.
THEOREM OwnAnswerGot == ASSUME OneCaller, Patience PROVE Spec => []OwnAnswer
<1> DEFINE Inv == TypeInv /\ (Caller # {} => OwnInv)
<1>1. Init => Inv
  <2> SUFFICES ASSUME Init PROVE OwnInv
    BY InitTypes
  <2>1. TypeInv
    BY InitTypes
  <2>2. \A c \in Conn : Quiet(c)
    BY DEF Init, Quiet
  <2>3. Kept /\ Ahead /\ Dead
    <3>1. Ahead /\ Dead
      BY <2>2, Zenon DEF Init, Ahead, Dead
    <3>2. Kept
      BY DEF Init, Kept
    <3> QED
      BY <3>1, <3>2
  <2>4. ASSUME NEW u \in Caller PROVE InCall(u)
    <3>1. pc[u] = "idle"
      BY DEF Init
    <3>2. Quiet(1)
      BY <2>2, Bounds DEF Conn
    <3> QED
      BY <3>1, <3>2 DEF InCall, Opening, Answered
  <2> QED
    BY <2>1, <2>3, <2>4 DEF OwnInv
<1>2. Inv /\ [Next]_vars => Inv'
  <2> SUFFICES ASSUME Inv, [Next]_vars PROVE Inv'
    OBVIOUS
  <2>1. TypeInv'
    BY TypeStep, BegunStep DEF TypeInv
  <2>2. Caller # {} => OwnInv'
    BY <2>1, OwnStep, Zenon DEF OwnInv
  <2> QED
    BY <2>1, <2>2
<1>3. Inv => OwnAnswer
  BY Zenon DEF OwnInv, InCall, OwnAnswer
<1> QED
  BY <1>1, <1>2, <1>3, PTL DEF Spec

=============================================================================
