---------------------------- MODULE GstcConnection ----------------------------
(***************************************************************************)
(* A GstClient of libgstc talking to the daemon's TCP server.              *)
(*                                                                         *)
(* The callers are the threads of the application that use the client,     *)
(* gstc_bus_thread included.  They share one GstcSocket, which either      *)
(* keeps one connection open or opens one for each call.  On the daemon's  *)
(* side every connection has a worker thread that reads, executes and      *)
(* answers (gstd_socket_callback).                                         *)
(*                                                                         *)
(* Requests carry no terminator and no number: the daemon takes what one   *)
(* read returns for one command, be it a part of a request or several      *)
(* requests run together, and the client takes what arrives up to a        *)
(* terminator for the answer to its request.  Neither side sends again     *)
(* what a send or a write left out.                                        *)
(***************************************************************************)
EXTENDS Integers, FiniteSets, Sequences, SequencesExt, FiniteSetsExt

CONSTANTS
  Caller,    \* threads that use the client
  Clients,   \* the clients there may be: whether they keep their connection
             \* open, which threads wait without a limit, and the most pieces
             \* in which one of their requests reaches the daemon
  MayDie,    \* TRUE: the daemon may die
  MaxCalls,  \* bound on the calls a caller makes
  MaxConns,  \* bound on the connections opened
  MaxChunks, \* the most reads an answer may need
  MaxResponse, \* GSTC_MAX_RESPONSE_LENGTH, in reads
  None       \* no connection

ASSUME GstcConnectionAssumption ==
  /\ Clients \subseteq [keep : BOOLEAN, patient : SUBSET Caller, pieces : Nat \ {0}]
  /\ MayDie \in BOOLEAN
  /\ MaxCalls \in Nat /\ MaxConns \in Nat \ {0} /\ MaxChunks \in Nat \ {0}
  /\ MaxResponse \in Nat \ {0}
  /\ None \notin Caller \cup Nat

Conn == 1 .. MaxConns
Call == Caller \X (1 .. MaxCalls)
Garbled == <<None, 0>>   \* the answer to pieces of several requests
NoCall == <<None, 1>>
Chunk == [of : Call \cup {Garbled}, part : 1 .. MaxChunks, last : BOOLEAN]

VARIABLES
  client,  \* what gstc_client_new was asked for
  alive,   \* the daemon runs
  opened,  \* connections opened so far
  mine,    \* descriptors the client has open
  linked,  \* those that were connected
  theirs,  \* connections the daemon has open
  up,      \* requests on their way, in pieces, per connection
  wire,    \* what the daemon wrote and the network has, in chunks
  down,    \* what has arrived at the client
  cut,     \* connections on which a write was short
  work,    \* what the worker of a connection executes as one command
  socket,  \* self->socket, shared by the callers
  pc,      \* where each caller is
  calls,   \* calls it made
  fd,      \* the descriptor it polls or reads, once it has read self->socket
  acc,     \* the chunks accumulated
  got      \* the answer its last call returned, or an error

netVars == <<opened, mine, linked, theirs, up, wire, down, cut>>
vars == <<client, alive, netVars, work, socket, pc, calls, fd, acc, got>>

Status == {"OK", "UNREACHABLE", "SEND_ERROR", "SOCKET_TIMEOUT",
           "SOCKET_ERROR", "RECV_ERROR", "LONG_RESPONSE", "MALFORMED"}
Goto(u, l) == pc' = [pc EXCEPT ![u] = l]
Fail(u, s) == got' = [got EXCEPT ![u] = [status |-> s, of |-> NoCall]]
-----------------------------------------------------------------------------
(* The client *)

\* A call opens a connection of its own unless the client keeps one.
PerCall == ~client.keep

\* The new descriptor goes to self->socket at once.
create_new_socket ==
  \/ /\ opened < MaxConns
     /\ opened' = opened + 1
     /\ mine' = mine \cup {opened + 1}
     /\ socket' = opened + 1
     /\ UNCHANGED <<linked, theirs, up, wire, down, cut>>
  \/ socket' = None /\ UNCHANGED netVars

\* A call begins.  open_socket reads self->socket again in each of its steps,
\* where another thread may have put its own descriptor meanwhile.
open_socket(u) ==
  /\ pc[u] = "idle"
  /\ calls[u] < MaxCalls
  /\ calls' = [calls EXCEPT ![u] = @ + 1]
  /\ \/ ~PerCall /\ Goto(u, "send") /\ UNCHANGED <<netVars, socket>>
     \/ PerCall /\ create_new_socket /\ Goto(u, "check")
  /\ UNCHANGED <<client, alive, work, fd, acc, got>>

check_socket(u) ==
  /\ pc[u] = "check"
  /\ \/ socket = None /\ Fail(u, "SOCKET_ERROR") /\ Goto(u, "idle")
     \/ socket # None /\ Goto(u, "setsockopt") /\ UNCHANGED got
  /\ UNCHANGED <<client, alive, netVars, work, socket, calls, fd, acc>>

set_buffer(u) ==
  /\ pc[u] = "setsockopt"
  /\ \/ socket \in mine /\ Goto(u, "connect") /\ UNCHANGED got
     \/ Fail(u, "SOCKET_ERROR") /\ Goto(u, "close")
  /\ UNCHANGED <<client, alive, netVars, work, socket, calls, fd, acc>>

connect_socket(u) ==
  /\ pc[u] = "connect"
  /\ \/ /\ socket \in mine \ linked /\ alive
        /\ linked' = linked \cup {socket} /\ theirs' = theirs \cup {socket}
        /\ Goto(u, "send")
        /\ UNCHANGED got
     \/ /\ Fail(u, "UNREACHABLE") /\ Goto(u, "close")
        /\ UNCHANGED <<linked, theirs>>
  /\ UNCHANGED <<client, alive, opened, mine, up, wire, down, cut, work, socket, calls,
                 fd, acc>>

\* send on whatever descriptor the shared socket has now.  Bytes for a peer
\* that is gone are lost, or refused once the client knows.
socket_send(u) ==
  /\ pc[u] = "send"
  /\ \/ /\ socket \in mine \cap theirs
        /\ \E n \in 1 .. client.pieces :
             up' = [up EXCEPT ![socket] = @ \o [i \in 1 .. n |-> <<u, calls[u]>>]]
        /\ Goto(u, "ufds")
        /\ UNCHANGED got
     \/ /\ socket \in (mine \cap linked) \ theirs
        /\ Goto(u, "ufds")
        /\ UNCHANGED <<up, got>>
     \/ /\ socket \notin mine \cap theirs
        /\ Fail(u, "SEND_ERROR")
        /\ Goto(u, "close")
        /\ UNCHANGED up
  /\ UNCHANGED <<client, alive, opened, mine, linked, theirs, wire, down, cut, work,
                 socket, calls, fd, acc>>

\* self->socket is read again for poll, and again for accumulate_response.
read_socket(u) ==
  /\ pc[u] \in {"ufds", "respond"}
  /\ fd' = [fd EXCEPT ![u] = socket]
  /\ Goto(u, IF pc[u] = "ufds" THEN "poll" ELSE "recv")
  /\ UNCHANGED <<client, alive, netVars, work, socket, calls, acc, got>>

\* poll with the client's wait time: it ends in time.  (Faulty: a poll that
\* was given no time.)
EndlessPoll(u) == FALSE
TimesOut(u) == u \notin client.patient

\* The peer closed the connection, and all it had written has arrived.
AtEnd(c) == c \in linked \ theirs /\ wire[c] = <<>> /\ down[c] = <<>>

\* poll passes over a descriptor of -1, and reports one that is closed or not
\* connected without POLLIN.
socket_poll(u) ==
  /\ pc[u] = "poll"
  /\ \/ /\ fd[u] \in mine
        /\ down[fd[u]] # <<>> \/ AtEnd(fd[u])
        /\ Goto(u, "respond")
        /\ UNCHANGED got
     \/ /\ fd[u] \notin (mine \cap linked) \cup {None}
        /\ Fail(u, "SOCKET_ERROR")
        /\ Goto(u, "close")
     \/ /\ TimesOut(u)
        /\ Fail(u, "SOCKET_TIMEOUT")
        /\ Goto(u, "close")
  /\ UNCHANGED <<client, alive, netVars, work, socket, calls, fd, acc>>

\* The loop of accumulate_response ends at a terminator.  (Faulty: one read
\* is taken for the whole answer, or the terminator is overlooked.)
OneRead(chunk) == TRUE
Overlooked(chunk) == FALSE
Terminated(chunk) == chunk.last

\* What the client makes of the chunks it accumulated: the string ends at the
\* first terminator, the rest is dropped with the buffer, and a string that is
\* not one whole answer does not parse.
Answer(chunks) ==
  LET n == Min({i \in DOMAIN chunks : chunks[i].last \/ i = Len(chunks)})
      whole == \A i \in 1 .. n : chunks[i].of = chunks[1].of /\ chunks[i].part = i
  IN  IF whole /\ chunks[n].last
      THEN [status |-> "OK", of |-> chunks[1].of]
      ELSE [status |-> "MALFORMED", of |-> NoCall]

\* A recv that returned something, which may be too much.
recv_some(u) ==
  \E n \in 1 .. Len(down[fd[u]]) :
    LET read == SubSeq(down[fd[u]], 1, n)
        all == acc[u] \o read
    IN  /\ down' = [down EXCEPT ![fd[u]] = SubSeq(@, n + 1, Len(@))]
        /\ \/ /\ Len(all) >= MaxResponse
              /\ Fail(u, "LONG_RESPONSE")
              /\ Goto(u, "close")
              /\ acc' = [acc EXCEPT ![u] = <<>>]
           \/ /\ Len(all) < MaxResponse /\ Terminated(Last(read))
              /\ got' = [got EXCEPT ![u] = Answer(all)]
              /\ Goto(u, "close")
              /\ acc' = [acc EXCEPT ![u] = <<>>]
           \/ /\ Len(all) < MaxResponse /\ ~Terminated(Last(read))
              /\ acc' = [acc EXCEPT ![u] = all]
              /\ UNCHANGED <<got, pc>>

\* One recv of accumulate_response, which waits for something to arrive
\* however long that takes.  A read of 0 bytes looks at the byte before the
\* buffer to decide whether to go on: the loop ends, or that byte keeps it
\* spinning.  A descriptor that another thread closed is refused, but a recv
\* that was waiting on it may stay there.
accumulate_response(u) ==
  /\ pc[u] = "recv"
  /\ \/ fd[u] \in mine /\ recv_some(u)
     \/ /\ fd[u] \in mine /\ AtEnd(fd[u])
        /\ \/ Goto(u, "spin") /\ UNCHANGED <<got, acc>>
           \/ /\ Fail(u, "MALFORMED")
              /\ Goto(u, "close")
              /\ acc' = [acc EXCEPT ![u] = <<>>]
        /\ UNCHANGED down
     \/ /\ fd[u] \notin mine \cap linked \/ AtEnd(fd[u])
        /\ Fail(u, "RECV_ERROR")
        /\ Goto(u, "close")
        /\ acc' = [acc EXCEPT ![u] = <<>>]
        /\ UNCHANGED down
     \/ /\ fd[u] \in linked \ mine /\ down[fd[u]] = <<>>
        /\ Goto(u, "stuck")
        /\ UNCHANGED <<got, acc, down>>
  /\ UNCHANGED <<client, alive, opened, mine, linked, theirs, up, wire, cut, work, socket,
                 calls, fd>>

\* What the client closes at the end of a call, or of an open_socket that
\* failed: whatever self->socket is now.  (Faulty: nothing on an error
\* path that jumps past the close.)
Leaked(u) == IF got[u].status # "OK" THEN {} ELSE {socket}
Closed(u) == {socket}

socket_close(u) ==
  /\ pc[u] = "close"
  /\ mine' = IF PerCall THEN mine \ Closed(u) ELSE mine
  /\ Goto(u, "idle")
  /\ UNCHANGED <<client, alive, opened, linked, theirs, up, wire, down, cut, work,
                 socket, calls, fd, acc, got>>
-----------------------------------------------------------------------------
(* The daemon and the network *)

\* A read returns some of what there is on the connection: a piece of a request
\* or several requests, taken for one command either way.
socket_callback_read(c) ==
  /\ alive /\ c \in theirs
  /\ work[c] = <<>>
  /\ \E n \in 1 .. Len(up[c]) :
       /\ work' = [work EXCEPT ![c] = SubSeq(up[c], 1, n)]
       /\ up' = [up EXCEPT ![c] = SubSeq(@, n + 1, Len(@))]
  /\ UNCHANGED <<client, alive, opened, mine, linked, theirs, wire, down, cut, socket,
                 pc, calls, fd, acc, got>>

\* The call whose bytes a command is made of, if it is one.
AnswerTo(pieces) ==
  IF \A i \in DOMAIN pieces : pieces[i] = Head(pieces) THEN Head(pieces) ELSE Garbled

\* The command is done and answered, however long it took.  The write may be
\* short, which is not noticed: the rest of the answer, its terminator
\* included, is never sent.  The write to a client that is gone fails and
\* closes the connection.
socket_callback_write(c) ==
  /\ alive /\ c \in theirs
  /\ work[c] # <<>>
  /\ work' = [work EXCEPT ![c] = <<>>]
  /\ \/ /\ c \in mine
        /\ \E n \in 1 .. MaxChunks, whole \in BOOLEAN :
             /\ wire' = [wire EXCEPT ![c] = @ \o [i \in 1 .. n |->
                  [of |-> AnswerTo(work[c]), part |-> i, last |-> whole /\ i = n]]]
             /\ cut' = IF whole THEN cut ELSE cut \cup {c}
        /\ UNCHANGED theirs
     \/ /\ c \notin mine
        /\ theirs' = theirs \ {c}
        /\ UNCHANGED <<wire, cut>>
  /\ UNCHANGED <<client, alive, opened, mine, linked, up, down, socket, pc, calls, fd,
                 acc, got>>

\* The worker reads the end of the connection, or that it was reset with what
\* had arrived on it.
socket_callback_end(c) ==
  /\ alive /\ c \in theirs \ mine
  /\ work[c] = <<>>
  /\ theirs' = theirs \ {c}
  /\ up' = [up EXCEPT ![c] = <<>>]
  /\ UNCHANGED <<client, alive, opened, mine, linked, wire, down, cut, work, socket, pc,
                 calls, fd, acc, got>>

\* The network brings some of what was written, in its order.
deliver(c) ==
  /\ c \in mine
  /\ \E n \in 1 .. Len(wire[c]) :
       /\ down' = [down EXCEPT ![c] = @ \o SubSeq(wire[c], 1, n)]
       /\ wire' = [wire EXCEPT ![c] = SubSeq(@, n + 1, Len(@))]
  /\ UNCHANGED <<client, alive, opened, mine, linked, theirs, up, cut, work, socket, pc,
                 calls, fd, acc, got>>

\* The daemon's process ends, and the kernel closes its connections: those it
\* resets lose what was on its way.
daemon_dies ==
  /\ MayDie /\ alive
  /\ alive' = FALSE
  /\ theirs' = {}
  /\ work' = [c \in Conn |-> <<>>]
  /\ up' = [c \in Conn |-> <<>>]
  /\ \E reset \in SUBSET Conn :
       wire' = [c \in Conn |-> IF c \in reset THEN <<>> ELSE wire[c]]
  /\ UNCHANGED <<client, opened, mine, linked, down, cut, socket, pc, calls, fd, acc, got>>
-----------------------------------------------------------------------------
\* gstc_client_new: a client that keeps its connection opens it now.
Init ==
  /\ client \in Clients
  /\ alive = TRUE
  /\ opened = IF PerCall THEN 0 ELSE 1
  /\ mine = 1 .. opened /\ linked = 1 .. opened /\ theirs = 1 .. opened
  /\ up = [c \in Conn |-> <<>>] /\ work = [c \in Conn |-> <<>>]
  /\ wire = [c \in Conn |-> <<>>] /\ down = [c \in Conn |-> <<>>]
  /\ cut = {}
  /\ socket = IF PerCall THEN None ELSE 1
  /\ pc = [u \in Caller |-> "idle"] /\ calls = [u \in Caller |-> 0]
  /\ fd = [u \in Caller |-> None] /\ acc = [u \in Caller |-> <<>>]
  /\ got = [u \in Caller |-> [status |-> "OK", of |-> NoCall]]

Run(u) ==
  \/ check_socket(u)
  \/ set_buffer(u)
  \/ connect_socket(u)
  \/ socket_send(u)
  \/ read_socket(u)
  \/ socket_poll(u)
  \/ accumulate_response(u)
  \/ socket_close(u)

Worker(c) ==
  \/ socket_callback_read(c)
  \/ socket_callback_write(c)
  \/ socket_callback_end(c)

Next ==
  \/ \E u \in Caller : open_socket(u) \/ Run(u)
  \/ \E c \in Conn : Worker(c) \/ deliver(c)
  \/ daemon_dies

Spec == Init /\ [][Next]_vars

\* The callers' threads are scheduled, a poll that is given a time ends, and
\* what was written arrives.  A command may take the daemon forever: nothing is
\* assumed of its workers.
FairSpec ==
  Spec /\ (\A u \in Caller : WF_vars(Run(u))) /\ (\A c \in Conn : WF_vars(deliver(c)))
-----------------------------------------------------------------------------
(* Properties *)

\* Type invariant of the connection; what a caller has accumulated is an answer
\* whose end has not arrived.
TypeOK ==
  /\ client \in Clients /\ alive \in BOOLEAN
  /\ opened \in 0 .. MaxConns
  /\ mine \subseteq 1 .. opened /\ linked \subseteq 1 .. opened
  /\ theirs \subseteq linked /\ cut \subseteq linked
  /\ up \in [Conn -> Seq(Call)] /\ work \in [Conn -> Seq(Call)]
  /\ wire \in [Conn -> Seq(Chunk)] /\ down \in [Conn -> Seq(Chunk)]
  /\ socket \in Conn \cup {None}
  /\ pc \in [Caller -> {"idle", "check", "setsockopt", "connect", "send", "ufds", "poll",
                    "respond", "recv", "spin", "stuck", "close"}]
  /\ calls \in [Caller -> 0 .. MaxCalls]
  /\ fd \in [Caller -> Conn \cup {None}]
  /\ acc \in [Caller -> Seq(Chunk)]
  /\ \A u \in Caller : acc[u] # <<>> =>
       pc[u] \in {"recv", "spin", "stuck"} /\ ~acc[u][Len(acc[u])].last
  /\ got \in [Caller -> [status : Status, of : Call \cup {Garbled, NoCall}]]

\* An answer that gstc_socket_send hands a caller was given to bytes that this
\* call sent and to no others, whatever pieces its request was read in: never
\* to an earlier call, and not to requests run together.
OwnAnswer ==
  \A u \in Caller : pc[u] = "close" /\ got[u].status = "OK" =>
    got[u].of = <<u, calls[u]>>

\* Without keep_connection_open no call leaves a connection behind, whichever
\* way it ended.
NothingLeftOpen ==
  PerCall /\ (\A u \in Caller : pc[u] = "idle") => mine = {}

Waiting == {"poll", "respond", "recv"}

\* The threads keep out of each other's way: none finds another descriptor in
\* self->socket than the one it polled, or has its own closed or read from.
Undisturbed ==
  \A u \in Caller : pc[u] \in Waiting =>
    /\ fd[u] \in mine
    /\ pc[u] = "respond" => socket = fd[u]
    /\ \A v \in Caller \ {u} : pc[v] \in Waiting => fd[v] # fd[u]

\* libgstc.h: none of the functions blocks longer than the wait time.  A call
\* that has one returns, though the daemon may never answer, if the daemon
\* lives, its writes are whole and the threads of the client keep out of each
\* other's way.
CallsReturn ==
  [](alive /\ cut = {} /\ Undisturbed) =>
    \A u \in Caller : (pc[u] # "idle" /\ u \notin client.patient) ~> (pc[u] = "idle")

\* The same as libgstc.h has it, without conditions.
WaitTimeKept ==
  \A u \in Caller : (pc[u] # "idle" /\ u \notin client.patient) ~> (pc[u] = "idle")
=============================================================================
