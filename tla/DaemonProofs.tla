---------------------------- MODULE DaemonProofs ----------------------------
(***************************************************************************)
(* Proofs about Daemon for any number of invocations, addresses and        *)
(* threads, whatever the command lines, the faults and the crashes.        *)
(***************************************************************************)
EXTENDS Daemon, FiniteSetTheorems, TLAPS

(* The inductive invariant, in parts. *)

\* The stages of main in which a process is one the shell started, and those in which it
\* has taken no reference to the session yet, or has given all of them back.
Early == {"new", "check", "fork", "wait", "kill", "killwait", "remove"}
Bare == Early \cup {"none", "create", "select", "exit"}

\* Which process may be where.
Stages ==
  \A p \in Proc :
    /\ pc[p] \in Early => p[2] = "parent"
    /\ pc[p] \in {"check", "fork", "wait"} => Mode(p) = "daemon"
    /\ pc[p] \in {"kill", "killwait", "remove"} => Mode(p) = "kill"

\* A process that has not forked has no child.
Unborn ==
  \A i \in Inv : pc[<<i, "parent">>] \in {"none", "new", "check", "fork"} =>
    pc[<<i, "child">>] = "none"

\* The references to the session: an IPC that is yet to be started has none, and one that
\* has one is yet to be stopped.
Balanced(p) == sess[p] = Cardinality(hold[p]) + (IF pc[p] \in {"new", "exit"} THEN 0 ELSE 1)
RefsOf(p) ==
  /\ pc[p] \in Bare => hold[p] = {}
  /\ hold[p] \subseteq enabled[p]
  /\ pc[p] = "start" => todo[p] \subseteq enabled[p] /\ hold[p] \cap todo[p] = {}
  /\ pc[p] = "stop" => hold[p] \subseteq todo[p]
  /\ pc[p] = "none" => sess[p] = 0
  /\ Alive(p) => Balanced(p)
Refs == \A p \in Proc : RefsOf(p)

\* The HTTP server and its workers are those of an IPC that has a reference.
WorkerOwned(w) ==
  /\ worker[w].busy => worker[w].proc # NoProc
  /\ worker[w].proc # NoProc =>
       /\ Alive(worker[w].proc)
       /\ worker[w].kind = "http" => "http" \in hold[worker[w].proc]
HttpOwned ==
  /\ \A a \in Addr : bound[<<"http", a>>] # NoProc => "http" \in hold[bound[<<"http", a>>]]
  /\ \A w \in Worker : WorkerOwned(w)

\* A path of a process that was not killed is one of an IPC it has yet to dispose of.
Owns(p, a) ==
  /\ pc[p] \in {"start", "handlers", "run", "stop"}
  /\ "unix" \in enabled[p]
  /\ a \in Range(opt[p[1]].addr)
  /\ pc[p] = "stop" => "unix" \in todo[p]
PathOwned ==
  \A a \in Addr, p \in Proc : file[a] = p /\ p \notin crashed => Owns(p, a)

\* As long as nobody kills, the pid file names the daemon that runs.
FileOwned == (\A i \in Inv : opt[i].mode # "kill") => \A p \in Daemons : pidfile = p

DaemonInv ==
  TypeOK /\ Stages /\ Unborn /\ Refs /\ HttpOwned /\ PathOwned /\ FileOwned

-----------------------------------------------------------------------------
(* What the steps have in common. *)

USE OptionAssumption, FaultsAssumption, NoProcAssumption DEF os, ipc, Goto, Leave, Mode, Alive

\* The two processes of an invocation.
LEMMA ProcFacts ==
  /\ \A i \in Inv : <<i, "parent">> \in Proc /\ <<i, "child">> \in Proc
  /\ \A p \in Proc : p[1] \in Inv /\ (p = <<p[1], "parent">> \/ p = <<p[1], "child">>)
  /\ \A p \in Proc : Child(p) \in Proc /\ Child(p)[1] = p[1] /\ Child(p)[2] = "child"
  /\ \A i \in Inv : Child(<<i, "parent">>) = <<i, "child">>
BY DEF Proc, Child

\* There are three IPCs: a process holds at most three references for them.
LEMMA KindFacts ==
  ASSUME NEW ks \in SUBSET Kind
  PROVE  IsFiniteSet(ks) /\ Cardinality(ks) \in 0..3
<1> DEFINE A == {"tcp"}
           B == A \cup {"unix"}
           C == B \cup {"http"}
<1>1. IsFiniteSet(A) /\ Cardinality(A) = 1 /\ "unix" \notin A
  BY FS_Singleton
<1>2. "http" \notin B /\ Kind = C
  BY DEF Kind
<1>3. IsFiniteSet(B) /\ Cardinality(B) = 2
  <2> HIDE DEF A
  <2> QED
    BY <1>1, FS_AddElement
<1>4. IsFiniteSet(C) /\ Cardinality(C) = 3
  <2> HIDE DEF B
  <2> QED
    BY <1>2, <1>3, FS_AddElement
<1>5. IsFiniteSet(ks) /\ Cardinality(ks) <= 3
  <2> HIDE DEF C
  <2> QED
    BY <1>2, <1>4, FS_Subset
<1>6. Cardinality(ks) \in Nat
  BY <1>5, FS_CardinalityType
<1> QED
  BY <1>5, <1>6

\* Taking a reference and giving it back, as set and as number.
LEMMA HoldFacts ==
  ASSUME NEW ks \in SUBSET Kind, NEW k \in Kind
  PROVE  /\ k \notin ks => Cardinality(ks \cup {k}) = Cardinality(ks) + 1
         /\ k \in ks => Cardinality(ks \ {k}) = Cardinality(ks) - 1 /\ Cardinality(ks \cap {k}) = 1
         /\ k \notin ks => Cardinality(ks \ {k}) = Cardinality(ks) /\ Cardinality(ks \cap {k}) = 0
         /\ k \in ks => Cardinality(ks) > 0
<1>1. IsFiniteSet(ks) /\ Cardinality(ks) \in 0..3
  BY KindFacts
<1>2. k \notin ks => Cardinality(ks \cup {k}) = Cardinality(ks) + 1
  BY <1>1, FS_AddElement
<1>3. k \in ks => Cardinality(ks \ {k}) = Cardinality(ks) - 1
  BY <1>1, FS_RemoveElement
<1>4. k \in ks => ks \cap {k} = {k}
  OBVIOUS
<1>5. k \notin ks => ks \cap {k} = {} /\ ks \ {k} = ks
  OBVIOUS
<1>6. Cardinality({k}) = 1 /\ Cardinality({}) = 0
  BY FS_Singleton, FS_EmptySet
<1>7. k \in ks => Cardinality(ks) > 0
  <2>1. k \in ks => Cardinality(ks \ {k}) \in 0..3
    BY KindFacts, ks \ {k} \in SUBSET Kind
  <2> QED
    BY <2>1, <1>3, <1>1
<1> QED
  BY <1>2, <1>3, <1>4, <1>5, <1>6, <1>7

\* What a process does of itself, of the signals and of the loops of the others.
Act(p) == Step(p) \/ sigterm(p) \/ interrupt(p) \/ crash(p)

\* A step leaves q as it is.
Same(q) ==
  /\ pc'[q] = pc[q] /\ todo'[q] = todo[q] /\ enabled'[q] = enabled[q]
  /\ hold'[q] = hold[q] /\ sess'[q] = sess[q]

\* A process changes nobody but itself and the child it forks.
LEMMA OthersSame ==
  ASSUME TypeOK, NEW p \in Proc, Act(p),
         NEW q \in Proc, q # p, q # Child(p) \/ pc[p] # "fork"
  PROVE  Same(q)
<1> USE DEF TypeOK, Same
<1>1. CASE main(p)
  BY <1>1 DEF main, gstd_new, session_new, context_add_group
<1>2. CASE daemon_start(p) \/ daemon_start_child(p) \/ daemon_start_parent(p)
  BY <1>2 DEF daemon_start, daemon_start_child, daemon_start_parent
<1>3. CASE daemon_fork(p)
  BY <1>3 DEF daemon_fork
<1>4. CASE gstd_start(p) \/ ipcs_started(p) \/ install_handlers(p)
  BY <1>4 DEF gstd_start, ipcs_started, install_handlers
<1>5. CASE ipc_start(p)
  BY <1>5 DEF ipc_start, class_start
<1>6. CASE ipc_stop(p)
  BY <1>6 DEF ipc_stop, Unref
<1>7. CASE int_term_handler(p) \/ gstd_free(p) \/ interrupt(p)
  BY <1>7 DEF int_term_handler, gstd_free, interrupt, Unref
<1>8. CASE process_exit(p) \/ sigterm(p) \/ crash(p)
  BY <1>8 DEF process_exit, sigterm, crash, Ends
<1>9. CASE daemon_stop(p) \/ kill_wait(p) \/ pid_file_remove(p)
  BY <1>9 DEF daemon_stop, kill_wait, pid_file_remove
<1> QED
  BY <1>1, <1>2, <1>3, <1>4, <1>5, <1>6, <1>7, <1>8, <1>9 DEF Act, Step

\* A process that nobody touches keeps what is said of its references.
LEMMA SameRefs ==
  ASSUME NEW q \in Proc, RefsOf(q), Same(q)
  PROVE  RefsOf(q)'
BY DEF RefsOf, Same, Balanced, Bare

\* Every step of a process keeps its references in balance.
LEMMA RefsAct ==
  ASSUME TypeOK, Stages, Unborn, Refs, NEW p \in Proc, Act(p)
  PROVE  Refs'
<1> SUFFICES RefsOf(p)' /\ (pc[p] = "fork" => RefsOf(Child(p))')
  BY OthersSame, SameRefs, ProcFacts DEF Refs
<1> USE DEF TypeOK
<1>r. RefsOf(p)
  BY DEF Refs
<1>c. \A ks \in SUBSET Kind : Cardinality(ks) \in 0..3
  BY KindFacts
<1>e. Cardinality({}) = 0
  BY FS_EmptySet
<1>1. CASE main(p)
  <2>1. pc[p] = "new" /\ hold'[p] = hold[p] /\ sess'[p] = 1 /\ hold[p] = {}
    BY <1>1, <1>r DEF main, gstd_new, session_new, context_add_group, RefsOf, Bare, Early
  <2>2. pc'[p] \in {"select", "check", "kill", "stop"}
    BY <1>1 DEF main
  <2> QED
    BY <2>1, <2>2, <1>e DEF RefsOf, Balanced
<1>2. CASE daemon_start(p) \/ daemon_start_child(p) \/ daemon_start_parent(p)
           \/ install_handlers(p) \/ ipcs_started(p) \/ int_term_handler(p)
           \/ daemon_stop(p) \/ kill_wait(p) \/ pid_file_remove(p) \/ interrupt(p)
  <2>1. /\ enabled'[p] = enabled[p] /\ hold'[p] = hold[p] /\ sess'[p] = sess[p]
        /\ pc[p] \notin {"none", "new", "exit", "dead"}
        /\ pc[p] \in {"start", "handlers", "run"} \cup Bare
        /\ pc'[p] \notin {"none", "new", "exit", "dead", "start"}
        /\ \/ pc'[p] = "stop" /\ todo'[p] = enabled[p]
           \/ pc'[p] # "stop" /\ todo'[p] = todo[p]
        /\ pc'[p] \in Bare => pc[p] \in Bare
    BY <1>2 DEF daemon_start, daemon_start_child, daemon_start_parent, install_handlers,
       ipcs_started, int_term_handler, daemon_stop, kill_wait, pid_file_remove, interrupt,
       Bare, Early
  <2>2. pc[p] # "fork"
    BY <1>2 DEF daemon_start, daemon_start_child, daemon_start_parent, install_handlers,
       ipcs_started, int_term_handler, daemon_stop, kill_wait, pid_file_remove, interrupt
  <2>3. RefsOf(p)'
    BY <2>1, <1>r DEF RefsOf, Balanced
  <2> QED
    BY <2>2, <2>3
<1>3. CASE daemon_fork(p)
  <2>0. pc[p] = "fork" /\ hold' = hold /\ hold[p] = {}
    BY <1>3, <1>r DEF daemon_fork, RefsOf, Bare, Early
  <2>1. /\ pc[p] = "fork" /\ hold' = hold /\ hold[p] = {} /\ sess[p] = 1
    BY <2>0, <1>r, <1>e DEF RefsOf, Balanced
  <2>2. /\ p = <<p[1], "parent">> /\ Child(p) \in Proc /\ Child(p) # p
        /\ pc[Child(p)] = "none"
    BY <2>1, ProcFacts DEF Stages, Unborn, Early
  <2>3. hold[Child(p)] = {} /\ sess[Child(p)] = 0
    BY <2>2 DEF Refs, RefsOf, Bare
  <2>4. /\ pc'[p] \in {"wait", "stop"} /\ sess'[p] = 1 /\ enabled'[p] = enabled[p]
    BY <1>3, <2>1, <2>2 DEF daemon_fork
  <2>5. \/ pc'[Child(p)] = "create" /\ sess'[Child(p)] = 1
        \/ pc'[Child(p)] = "none" /\ sess'[Child(p)] = 0
    BY <1>3, <2>1, <2>2, <2>3 DEF daemon_fork
  <2>6. RefsOf(p)'
    BY <2>1, <2>4, <1>e DEF RefsOf, Balanced
  <2>7. RefsOf(Child(p))'
    BY <2>1, <2>3, <2>5, <1>e DEF RefsOf, Balanced
  <2> QED
    BY <2>6, <2>7
<1>4. CASE gstd_start(p)
  <2>1. /\ pc[p] = "select" /\ pc'[p] = "start" /\ hold'[p] = hold[p] /\ sess'[p] = sess[p]
        /\ todo'[p] = enabled'[p]
    BY <1>4 DEF gstd_start
  <2>0. hold[p] = {}
    BY <2>1, <1>r DEF RefsOf, Bare
  <2>2. hold[p] = {} /\ sess[p] = 1
    BY <2>0, <2>1, <1>r, <1>e DEF RefsOf, Balanced
  <2> QED
    BY <2>1, <2>2, <1>e DEF RefsOf, Balanced, Bare, Early
<1>5. CASE ipc_start(p)
  <2>1. PICK k \in todo[p] :
          /\ todo' = [todo EXCEPT ![p] = @ \ {k}]
          /\ hold' = [hold EXCEPT ![p] = @ \cup {k}]
          /\ sess' = [sess EXCEPT ![p] = @ + 1]
    BY <1>5 DEF ipc_start, NextIpc
  <2>2. /\ pc[p] = "start" /\ UNCHANGED <<pc, enabled>>
    BY <1>5 DEF ipc_start
  <2>3. /\ todo'[p] = todo[p] \ {k} /\ hold'[p] = hold[p] \cup {k} /\ sess'[p] = sess[p] + 1
        /\ k \notin hold[p] /\ k \in enabled[p] /\ k \in Kind
    BY <2>1, <2>2, <1>r DEF RefsOf
  <2>5. hold[p] \in SUBSET Kind
    OBVIOUS
  <2>4. Cardinality(hold'[p]) = Cardinality(hold[p]) + 1
    <3>1. Cardinality(hold[p] \cup {k}) = Cardinality(hold[p]) + 1
      BY <2>3, <2>5, HoldFacts
    <3> QED
      BY <3>1, <2>3
  <2>6. sess[p] = Cardinality(hold[p]) + 1 /\ Cardinality(hold[p]) \in 0..3
    BY <2>2, <1>r, <1>c, <2>5 DEF RefsOf, Balanced
  <2>7. Balanced(p)'
    BY <2>2, <2>3, <2>4, <2>6 DEF Balanced
  <2> QED
    BY <2>2, <2>3, <2>7, <1>r DEF RefsOf, Bare, Early
<1>6. CASE ipc_stop(p)
  <2>1. PICK k \in todo[p] :
          /\ todo' = [todo EXCEPT ![p] = @ \ {k}]
          /\ hold' = [hold EXCEPT ![p] = @ \ {k}]
          /\ sess' = [sess EXCEPT ![p] = @ - Cardinality(hold[p] \cap {k})]
    BY <1>6 DEF ipc_stop, NextIpc, Unref, Released
  <2>2. /\ pc[p] = "stop" /\ UNCHANGED <<pc, enabled>>
    BY <1>6 DEF ipc_stop
  <2>3. /\ todo'[p] = todo[p] \ {k} /\ hold'[p] = hold[p] \ {k} /\ k \in Kind
        /\ sess'[p] = sess[p] - Cardinality(hold[p] \cap {k})
    BY <2>1, <2>2
  <2>4. hold[p] \in SUBSET Kind
    OBVIOUS
  <2>5. sess[p] = Cardinality(hold[p]) + 1 /\ Cardinality(hold[p]) \in 0..3
    BY <2>2, <1>r, <1>c, <2>4 DEF RefsOf, Balanced
  <2>6. sess'[p] = Cardinality(hold'[p]) + 1
    <3>1. \/ /\ Cardinality(hold[p] \ {k}) = Cardinality(hold[p]) - 1
             /\ Cardinality(hold[p] \cap {k}) = 1
          \/ /\ Cardinality(hold[p] \ {k}) = Cardinality(hold[p])
             /\ Cardinality(hold[p] \cap {k}) = 0
      BY <2>3, <2>4, HoldFacts
    <3>2. Cardinality(hold'[p]) = Cardinality(hold[p] \ {k})
      BY <2>3
    <3> QED
      BY <3>1, <3>2, <2>3, <2>5
  <2>7. Balanced(p)'
    BY <2>2, <2>6 DEF Balanced
  <2> QED
    BY <2>2, <2>3, <2>7, <1>r DEF RefsOf, Bare, Early
<1>7. CASE gstd_free(p)
  <2>1. /\ pc[p] = "stop" /\ pc'[p] = "exit" /\ todo[p] = {} /\ sess'[p] = sess[p] - 1
        /\ hold'[p] = hold[p] /\ enabled'[p] = enabled[p]
    BY <1>7 DEF gstd_free, Unref
  <2>2. hold[p] = {}
    BY <2>1, <1>r DEF RefsOf
  <2>3. sess[p] = 1
    BY <2>1, <2>2, <1>r, <1>e DEF RefsOf, Balanced
  <2> QED
    BY <2>1, <2>2, <2>3, <1>e DEF RefsOf, Balanced
<1>8. CASE process_exit(p) \/ sigterm(p) \/ crash(p)
  <2>1. pc'[p] = "dead" /\ UNCHANGED <<todo, enabled, hold, sess>>
    BY <1>8 DEF process_exit, sigterm, crash, Ends
  <2>2. RefsOf(p)'
    BY <2>1, <1>r DEF RefsOf, Bare, Early
  <2>3. CASE pc[p] = "fork"
    <3>1. Child(p) # p /\ Child(p) \in Proc
      BY <2>3, ProcFacts DEF Stages, Early
    <3>2. Same(Child(p))
      BY <2>1, <3>1, <1>8 DEF Same, process_exit, sigterm, crash, Ends
    <3> QED
      BY <2>2, <3>1, <3>2, SameRefs DEF Refs
  <2> QED
    BY <2>2, <2>3
<1> QED
  BY <1>1, <1>2, <1>3, <1>4, <1>5, <1>6, <1>7, <1>8 DEF Act, Step

\* A client's connection comes and goes without any of that.
Serve == \E w \in Worker : command(w) \/ answer(w) \/ \E p \in Proc : accept(w, p)

\* Every step keeps the references in balance.
LEMMA RefsStep ==
  ASSUME TypeOK, Stages, Unborn, Refs, [Next]_vars
  PROVE  Refs'
<1>1. CASE \E p \in Proc : Act(p)
  BY <1>1, RefsAct
<1>2. CASE Serve \/ UNCHANGED vars
  <2>1. UNCHANGED <<pc, todo, enabled, hold, sess>>
    BY <1>2 DEF Serve, command, answer, accept, vars
  <2> QED
    BY <2>1, SameRefs DEF Refs, Same
<1>3. ASSUME NEW i \in Inv, launch(i) PROVE Refs'
  <2> DEFINE p == <<i, "parent">>
  <2>1. p \in Proc /\ pc[p] = "none" /\ pc' = [pc EXCEPT ![p] = "new"]
        /\ UNCHANGED <<todo, enabled, hold, sess>>
    BY <1>3, ProcFacts DEF launch
  <2> HIDE DEF p
  <2>2. \A q \in Proc \ {p} : RefsOf(q)'
    BY <2>1, SameRefs DEF Refs, Same, TypeOK
  <2>3. pc'[p] = "new" /\ hold[p] = {} /\ sess[p] = 0
    BY <2>1 DEF TypeOK, Refs, RefsOf, Bare
  <2>4. Cardinality({}) = 0
    BY FS_EmptySet
  <2>5. RefsOf(p)'
    BY <2>1, <2>3, <2>4 DEF RefsOf, Balanced
  <2> QED
    BY <2>2, <2>5 DEF Refs
<1> QED
  BY <1>1, <1>2, <1>3 DEF Next, Act, Serve

\* Command lines do not change.
LEMMA OptSame ==
  ASSUME [Next]_vars
  PROVE  opt' = opt
BY DEF Next, Step, main, daemon_start, daemon_fork, daemon_start_child, daemon_start_parent,
   gstd_start, ipc_start, ipcs_started, install_handlers, int_term_handler, ipc_stop, gstd_free,
   process_exit, daemon_stop, kill_wait, pid_file_remove, launch, sigterm, interrupt, crash,
   Ends, command, answer, accept, vars

\* Every step leads a process to a stage it may be in, and forks once.
LEMMA StagesStep ==
  ASSUME TypeOK, Stages, Unborn, [Next]_vars
  PROVE  Stages' /\ Unborn'
<1>o. UNCHANGED opt
  BY OptSame
<1>1. CASE \E p \in Proc : Act(p)
  <2>0. PICK p \in Proc : Act(p)
    BY <1>1
  <2>1. ASSUME NEW q \in Proc, q # p, q # Child(p) \/ pc[p] # "fork" PROVE pc'[q] = pc[q]
    BY <2>0, <2>1, OthersSame DEF Same
  <2>2. /\ pc[p] \notin {"none", "dead"}
        /\ pc'[p] \in Early => pc[p] \in Early
        /\ pc'[p] \in {"check", "fork", "wait"} =>
              (pc[p] = "new" /\ Mode(p) = "daemon") \/ pc[p] \in {"check", "fork"}
        /\ pc'[p] \in {"kill", "killwait", "remove"} =>
              (pc[p] = "new" /\ Mode(p) = "kill") \/ pc[p] \in {"kill", "killwait"}
        /\ pc'[p] # "none"
        /\ pc'[p] \in {"new", "check", "fork"} => pc[p] \in {"new", "check"}
    <3> USE <2>0 DEF TypeOK, Early
    <3>1. CASE main(p)
      BY <3>1 DEF main
    <3>2. CASE daemon_fork(p)
      <4>1. pc[p] = "fork" /\ p # Child(p)
        BY <3>2, ProcFacts DEF daemon_fork, Stages
      <4> QED
        BY <3>2, <4>1 DEF daemon_fork
    <3>3. CASE daemon_start(p) \/ daemon_start_child(p) \/ daemon_start_parent(p)
               \/ gstd_start(p) \/ ipc_start(p) \/ ipcs_started(p)
      BY <3>3 DEF daemon_start, daemon_start_child, daemon_start_parent, gstd_start, ipc_start,
         ipcs_started
    <3>4. CASE install_handlers(p) \/ int_term_handler(p) \/ ipc_stop(p) \/ gstd_free(p)
               \/ process_exit(p) \/ daemon_stop(p) \/ kill_wait(p) \/ pid_file_remove(p)
      BY <3>4 DEF install_handlers, int_term_handler, ipc_stop, gstd_free, process_exit, Ends,
         daemon_stop, kill_wait, pid_file_remove
    <3>5. CASE sigterm(p) \/ interrupt(p) \/ crash(p)
      BY <3>5 DEF sigterm, interrupt, crash, Unhandled, Ends
    <3> QED
      BY <3>1, <3>2, <3>3, <3>4, <3>5 DEF Act, Step
  <2>3. pc[p] = "fork" => /\ p = <<p[1], "parent">> /\ Child(p) # p /\ Child(p) \in Proc
                           /\ pc[Child(p)] = "none"
                           /\ \/ pc'[Child(p)] = "create" /\ pc'[p] \notin {"none", "new", "check", "fork"}
                              \/ pc'[Child(p)] = "none"
    <3> SUFFICES ASSUME pc[p] = "fork" PROVE <2>3!2
      OBVIOUS
    <3>1. p = <<p[1], "parent">> /\ Child(p) # p /\ Child(p) \in Proc /\ pc[Child(p)] = "none"
      BY ProcFacts DEF Stages, Unborn, Early
    <3>2. daemon_fork(p) \/ crash(p)
      BY <2>0 DEF Act, Step, main, daemon_start, daemon_start_child, daemon_start_parent,
         gstd_start, ipc_start, ipcs_started, install_handlers, int_term_handler, ipc_stop,
         gstd_free, process_exit, daemon_stop, kill_wait, pid_file_remove, sigterm, interrupt,
         Unhandled
    <3> QED
      BY <3>1, <3>2 DEF TypeOK, daemon_fork, crash, Ends
  <2>4. Stages'
    <3> SUFFICES ASSUME NEW q \in Proc
                 PROVE  /\ pc'[q] \in Early => q[2] = "parent"
                        /\ pc'[q] \in {"check", "fork", "wait"} => Mode(q) = "daemon"
                        /\ pc'[q] \in {"kill", "killwait", "remove"} => Mode(q) = "kill"
      BY <1>o DEF Stages
    <3>1. CASE q = p
      BY <3>1, <2>2 DEF Stages
    <3>2. CASE q # p /\ q = Child(p) /\ pc[p] = "fork"
      BY <3>2, <2>3 DEF Early
    <3>3. CASE q # p /\ (q # Child(p) \/ pc[p] # "fork")
      BY <3>3, <2>1 DEF Stages
    <3> QED
      BY <3>1, <3>2, <3>3
  <2>5. Unborn'
    <3> SUFFICES ASSUME NEW i \in Inv, pc'[<<i, "parent">>] \in {"none", "new", "check", "fork"}
                 PROVE  pc'[<<i, "child">>] = "none"
      BY DEF Unborn
    <3>0. <<i, "parent">> \in Proc /\ <<i, "child">> \in Proc
          /\ (p = <<i, "parent">> => Child(p) = <<i, "child">>) /\ Child(p)[2] = "child"
          /\ <<i, "parent">> # <<i, "child">> /\ <<i, "parent">> # Child(p)
          /\ (<<i, "child">> = Child(p) => p[1] = i)
      BY ProcFacts DEF Child
    <3>1. CASE p = <<i, "parent">>
      BY <3>0, <3>1, <2>1, <2>2, <2>3 DEF Unborn
    <3>2. CASE p # <<i, "parent">>
      <4>1. pc[<<i, "parent">>] \in {"none", "new", "check", "fork"}
        BY <3>0, <3>2, <2>1
      <4>2. pc[<<i, "child">>] = "none"
        BY <4>1 DEF Unborn
      <4>3. p # <<i, "child">>
        BY <4>2, <2>2
      <4>4. <<i, "child">> # Child(p) \/ pc[p] # "fork"
        BY <3>0, <3>2, <2>3
      <4> QED
        BY <4>2, <4>3, <4>4, <2>1, <3>0
    <3> QED
      BY <3>1, <3>2
  <2> QED
    BY <2>4, <2>5
<1>2. CASE Serve \/ UNCHANGED vars
  <2>1. UNCHANGED pc
    BY <1>2 DEF Serve, command, answer, accept, vars
  <2> QED
    BY <2>1, <1>o DEF Stages, Unborn
<1>3. ASSUME NEW i \in Inv, launch(i) PROVE Stages' /\ Unborn'
  <2>1. /\ pc[<<i, "parent">>] = "none" /\ pc' = [pc EXCEPT ![<<i, "parent">>] = "new"]
        /\ <<i, "parent">> \in Proc
    BY <1>3, ProcFacts DEF launch
  <2>2. Stages'
    BY <2>1, <1>o DEF Stages, TypeOK, Early
  <2>3. Unborn'
    BY <2>1, ProcFacts DEF Unborn, TypeOK
  <2> QED
    BY <2>2, <2>3
<1> QED
  BY <1>1, <1>2, <1>3 DEF Next, Act, Serve

\* Only the start and the stop of an IPC, and the end of a process, change who holds, listens
\* and serves; a process that does not end stays alive.
LEMMA QuietAct ==
  ASSUME TypeOK, Stages, NEW p \in Proc, Act(p)
  PROVE  \/ ipc_start(p)
         \/ ipc_stop(p)
         \/ Ends(p) /\ (p \in crashed' \/ pc[p] = "exit")
         \/ /\ UNCHANGED <<hold, bound, file, worker, crashed>>
            /\ pc[p] \notin {"none", "dead"} /\ pc'[p] \notin {"none", "dead"}
<1> USE DEF TypeOK
<1>1. CASE main(p) \/ daemon_start(p) \/ daemon_start_child(p) \/ daemon_start_parent(p)
           \/ gstd_start(p)
  BY <1>1 DEF main, daemon_start, daemon_start_child, daemon_start_parent, gstd_start
<1>2. CASE daemon_fork(p)
  <2>1. pc[p] = "fork" /\ p # Child(p)
    BY <1>2, ProcFacts DEF daemon_fork, Stages, Early
  <2> QED
    BY <1>2, <2>1 DEF daemon_fork
<1>3. CASE ipcs_started(p) \/ install_handlers(p) \/ int_term_handler(p) \/ gstd_free(p)
           \/ daemon_stop(p) \/ kill_wait(p) \/ pid_file_remove(p) \/ interrupt(p)
  BY <1>3 DEF ipcs_started, install_handlers, int_term_handler, gstd_free, daemon_stop, kill_wait,
     pid_file_remove, interrupt
<1>4. CASE process_exit(p) \/ sigterm(p) \/ crash(p)
  BY <1>4 DEF process_exit, sigterm, crash
<1> QED
  BY <1>1, <1>2, <1>3, <1>4 DEF Act, Step

\* A process that ends takes nobody else with it, and one that does not keeps all alive.
LEMMA AliveStays ==
  ASSUME TypeOK, Stages, Unborn, NEW p \in Proc, Act(p),
         NEW q \in Proc, pc[q] \notin {"none", "dead"}, q # p \/ ~Ends(p)
  PROVE  pc'[q] \notin {"none", "dead"}
<1>1. CASE q = p
  BY <1>1, QuietAct DEF ipc_start, ipc_stop
<1>2. CASE q # p /\ (q # Child(p) \/ pc[p] # "fork")
  BY <1>2, OthersSame DEF Same
<1>3. CASE q = Child(p) /\ pc[p] = "fork"
  <2>1. p = <<p[1], "parent">> /\ pc[Child(p)] = "none"
    BY <1>3, ProcFacts DEF Stages, Unborn, Early
  <2> QED
    BY <2>1, <1>3
<1> QED
  BY <1>1, <1>2, <1>3

\* Every step leaves the HTTP server with the IPC that has it.
LEMMA HttpStep ==
  ASSUME TypeOK, Stages, Unborn, HttpOwned, [Next]_vars
  PROVE  HttpOwned'
<1> USE DEF TypeOK, WorkerOwned
<1>i. ASSUME NEW w \in Worker, worker'[w] = Idle PROVE WorkerOwned(w)'
  BY <1>i DEF Idle
<1>k. \A a \in Addr : <<"http", a>> \in Kind \X Addr
  BY DEF Kind
<1>1. ASSUME NEW p \in Proc, Act(p) PROVE HttpOwned'
  <2>1. CASE ipc_start(p)
    <3>1. PICK k \in Kind : hold' = [hold EXCEPT ![p] = @ \cup {k}] /\ class_start(p, k)
      BY <2>1 DEF ipc_start, NextIpc
    <3>2. UNCHANGED <<pc, worker>>
      BY <2>1 DEF ipc_start
    <3>3. \A q \in Proc : hold[q] \subseteq hold'[q]
      BY <3>1
    <3>4. ASSUME NEW a \in Addr, bound'[<<"http", a>>] # NoProc
          PROVE  "http" \in hold'[bound'[<<"http", a>>]]
      <4>1. \/ bound'[<<"http", a>>] = p /\ k = "http"
            \/ bound'[<<"http", a>>] = bound[<<"http", a>>]
        BY <3>1, <1>k DEF class_start
      <4> QED
        BY <4>1, <3>1, <3>3, <3>4, <1>k DEF HttpOwned
    <3> QED
      BY <3>2, <3>3, <3>4 DEF HttpOwned
  <2>2. CASE ipc_stop(p)
    <3>1. PICK k \in Kind : /\ hold' = [hold EXCEPT ![p] = @ \ {k}]
                            /\ ~StopWaits(p, k) /\ http_stop(p, k)
      BY <2>2 DEF ipc_stop, NextIpc
    <3>2. UNCHANGED pc
      BY <2>2 DEF ipc_stop
    <3>3. /\ \A q \in Proc \ {p} : hold'[q] = hold[q]
          /\ hold'[p] = hold[p] \ {k}
      BY <3>1
    <3>4. ASSUME NEW a \in Addr, bound'[<<"http", a>>] # NoProc
          PROVE  "http" \in hold'[bound'[<<"http", a>>]]
      <4>1. bound'[<<"http", a>>] = bound[<<"http", a>>] /\ (k = "http" => bound[<<"http", a>>] # p)
        BY <3>1, <3>4, <1>k DEF http_stop
      <4> QED
        BY <4>1, <3>3, <3>4, <1>k DEF HttpOwned
    <3>5. ASSUME NEW w \in Worker
          PROVE  WorkerOwned(w)'
      <4>1. CASE worker'[w] = Idle
        BY <4>1, <1>i
      <4>2. CASE worker'[w] # Idle
        <5>1. worker'[w] = worker[w] /\ ~(k = "http" /\ worker[w].proc = p /\ worker[w].kind = k)
          BY <4>2, <3>1 DEF http_stop, StopWaits
        <5> QED
          BY <5>1, <3>2, <3>3 DEF HttpOwned
      <4> QED
        BY <4>1, <4>2
    <3> QED
      BY <3>4, <3>5 DEF HttpOwned
  <2>3. CASE Ends(p)
    <3>1. /\ UNCHANGED hold /\ \A q \in Proc \ {p} : pc'[q] = pc[q]
          /\ \A a \in Addr : bound'[<<"http", a>>] = IF bound[<<"http", a>>] = p THEN NoProc
                                                              ELSE bound[<<"http", a>>]
          /\ \A w \in Worker : worker'[w] = IF worker[w].proc = p THEN Idle ELSE worker[w]
      BY <2>3, <1>k DEF Ends
    <3>2. ASSUME NEW w \in Worker PROVE WorkerOwned(w)'
      BY <3>1, <1>i DEF HttpOwned
    <3>3. \A a \in Addr : bound'[<<"http", a>>] # NoProc => "http" \in hold'[bound'[<<"http", a>>]]
      BY <3>1 DEF HttpOwned
    <3> QED
      BY <3>2, <3>3 DEF HttpOwned
  <2>4. CASE UNCHANGED <<hold, bound, worker>> /\ ~Ends(p)
    <3>1. \A w \in Worker : worker[w].proc # NoProc =>
              pc'[worker[w].proc] \notin {"none", "dead"}
      BY <1>1, <2>4, AliveStays DEF HttpOwned
    <3> QED
      BY <2>4, <3>1 DEF HttpOwned
  <2> QED
    BY <1>1, <2>1, <2>2, <2>3, <2>4, QuietAct DEF Ends
<1>2. CASE UNCHANGED vars
  BY <1>2 DEF vars, HttpOwned
<1>3. ASSUME NEW i \in Inv, launch(i) PROVE HttpOwned'
  <2>1. /\ pc[<<i, "parent">>] = "none" /\ pc' = [pc EXCEPT ![<<i, "parent">>] = "new"]
        /\ UNCHANGED <<hold, bound, worker>>
    BY <1>3 DEF launch
  <2> QED
    BY <2>1 DEF HttpOwned
<1>4. ASSUME NEW v \in Worker, command(v) \/ answer(v) \/ \E p \in Proc : accept(v, p)
      PROVE  HttpOwned'
  <2>0. UNCHANGED <<pc, hold, bound>> /\ \A w \in Worker \ {v} : worker'[w] = worker[w]
    BY <1>4 DEF command, answer, accept
  <2>1. CASE command(v) \/ answer(v)
    <3>1. \/ worker'[v] = Idle
          \/ /\ worker'[v].proc = worker[v].proc /\ worker'[v].kind = worker[v].kind
             /\ worker[v].proc # NoProc
      BY <2>1 DEF command, answer, HttpOwned
    <3>2. WorkerOwned(v)'
      BY <2>0, <3>1, <1>i DEF HttpOwned
    <3> QED
      BY <2>0, <3>2 DEF HttpOwned
  <2>2. ASSUME NEW p \in Proc, accept(v, p) PROVE HttpOwned'
    <3>1. PICK k \in Kind : Reachable(p, k) /\ worker'[v] = [proc |-> p, kind |-> k, busy |-> FALSE]
      BY <2>2 DEF accept
    <3>2. pc[p] = "run" /\ (k = "http" => "http" \in hold[p])
      BY <2>2, <3>1 DEF accept, Reachable, HttpOwned
    <3>3. WorkerOwned(v)'
      BY <2>0, <3>1, <3>2
    <3> QED
      BY <2>0, <3>3 DEF HttpOwned
  <2> QED
    BY <1>4, <2>1, <2>2
<1> QED
  BY <1>1, <1>2, <1>3, <1>4 DEF Next, Act

\* What is created is one of the paths that were asked for.
LEMMA AddedPaths ==
  ASSUME NEW as, NEW used
  PROVE  Added(as, used) \subseteq Range(as)
BY DEF Added, Range

\* Every step of a process keeps the paths with processes that will remove them.
LEMMA PathAct ==
  ASSUME TypeOK, Stages, Unborn, Refs, PathOwned, NEW p \in Proc, Act(p)
  PROVE  PathOwned'
<1> USE DEF TypeOK
<1>o. opt' = opt
  BY OptSame DEF Next, Act
<1> SUFFICES ASSUME NEW a \in Addr, NEW q \in Proc, file'[a] = q, q \notin crashed'
             PROVE  Owns(q, a)'
  BY DEF PathOwned
<1>c. crashed \subseteq crashed'
  BY QuietAct DEF ipc_start, ipc_stop, Act, Step, process_exit, sigterm, crash, main, daemon_start,
     daemon_fork, daemon_start_child, daemon_start_parent, gstd_start, ipcs_started,
     install_handlers, int_term_handler, gstd_free, daemon_stop, kill_wait, pid_file_remove,
     interrupt
<1>s. ASSUME q # p, file[a] = q PROVE Owns(q, a)'
  <2>1. Owns(q, a)
    BY <1>s, <1>c DEF PathOwned
  <2>2. q # Child(p) \/ pc[p] # "fork"
    <3>1. pc[p] = "fork" => pc[Child(p)] = "none"
      BY ProcFacts DEF Stages, Unborn, Early
    <3> QED
      BY <3>1, <2>1 DEF Owns
  <2>3. Same(q)
    BY <1>s, <2>2, OthersSame
  <2> QED
    BY <2>1, <2>3, <1>o DEF Owns, Same
<1>1. CASE ipc_start(p)
  <2>1. PICK k \in todo[p] : class_start(p, k) /\ todo' = [todo EXCEPT ![p] = @ \ {k}]
    BY <1>1 DEF ipc_start, NextIpc
  <2>2. pc[p] = "start" /\ UNCHANGED <<pc, enabled>>
    BY <1>1 DEF ipc_start
  <2>3. \/ file'[a] = file[a]
        \/ k = "unix" /\ file'[a] = p /\ a \in ClassStart(p)[k]
    BY <2>1 DEF class_start
  <2>4. CASE file'[a] = file[a] /\ q = p
    <3>1. Owns(p, a)
      BY <2>4, <1>c DEF PathOwned
    <3> QED
      BY <2>2, <2>4, <3>1, <1>o DEF Owns
  <2>5. CASE k = "unix" /\ file'[a] = p /\ a \in ClassStart(p)[k]
    <3>1. a \in Added(opt[p[1]].addr, {b \in Addr : file[b] # NoProc})
      BY <2>5 DEF ClassStart, unix_create_socket_service
    <3>2. a \in Range(opt[p[1]].addr)
      BY <3>1, AddedPaths
    <3>3. "unix" \in enabled[p]
      BY <2>1, <2>2, <2>5 DEF Refs, RefsOf
    <3> QED
      BY <2>2, <2>5, <3>2, <3>3, <1>o DEF Owns
  <2> QED
    BY <2>3, <2>4, <2>5, <1>s
<1>2. CASE ipc_stop(p)
  <2>1. PICK k \in todo[p] :
          /\ todo' = [todo EXCEPT ![p] = @ \ {k}]
          /\ file' = [b \in Addr |-> IF Unlinked(p, k) /\ b \in Range(Wanted(p, k)) THEN NoProc
                                                                                ELSE file[b]]
    BY <1>2 DEF ipc_stop, NextIpc
  <2>2. pc[p] = "stop" /\ UNCHANGED <<pc, enabled>>
    BY <1>2 DEF ipc_stop
  <2>3. file[a] = q /\ ~(Unlinked(p, k) /\ a \in Range(Wanted(p, k)))
    BY <2>1
  <2>4. CASE q = p
    <3>1. Owns(p, a)
      BY <2>3, <2>4, <1>c DEF PathOwned
    <3>2. k # "unix"
      BY <2>3, <3>1 DEF Owns, Unlinked, Wanted
    <3>3. todo'[p] = todo[p] \ {k}
      BY <2>1
    <3> QED
      BY <2>2, <2>4, <3>1, <3>2, <3>3, <1>o DEF Owns
  <2> QED
    BY <2>3, <2>4, <1>s
<1>3. CASE Ends(p) /\ (p \in crashed' \/ pc[p] = "exit")
  <2>1. file' = file
    BY <1>3 DEF Ends
  <2>2. q # p
    BY <2>1, <1>3, <1>c DEF PathOwned, Owns
  <2> QED
    BY <2>1, <2>2, <1>s
<1>4. CASE file' = file /\ pc'[p] # "dead"
  <2>1. CASE q = p /\ ~ipc_start(p) /\ ~ipc_stop(p)
    <3>1. Owns(p, a)
      BY <2>1, <1>4, <1>c DEF PathOwned
    <3>2. /\ enabled'[p] = enabled[p] /\ pc'[p] \in {"start", "handlers", "run", "stop"}
          /\ pc'[p] = "stop" => pc[p] # "stop" /\ todo'[p] = enabled[p]
      <4>1. pc[p] \in {"start", "handlers", "run", "stop"} /\ (pc[p] = "stop" => todo[p] # {})
        BY <3>1 DEF Owns
      <4>2. ipcs_started(p) \/ install_handlers(p) \/ int_term_handler(p) \/ interrupt(p)
        BY <4>1, <2>1, <1>4 DEF Act, Step, main, daemon_start, daemon_fork, daemon_start_child,
           daemon_start_parent, gstd_start, gstd_free, process_exit, sigterm, crash, Ends,
           daemon_stop, kill_wait, pid_file_remove
      <4> QED
        BY <4>1, <4>2 DEF ipcs_started, install_handlers, int_term_handler, interrupt
    <3> QED
      BY <2>1, <3>1, <3>2, <1>o DEF Owns
  <2> QED
    BY <2>1, <1>1, <1>2, <1>4, <1>s
<1> QED
  BY <1>1, <1>2, <1>3, <1>4, QuietAct

\* Every step does.
LEMMA PathStep ==
  ASSUME TypeOK, Stages, Unborn, Refs, PathOwned, [Next]_vars
  PROVE  PathOwned'
<1>1. CASE \E p \in Proc : Act(p)
  BY <1>1, PathAct
<1>2. CASE Serve \/ UNCHANGED vars
  <2>1. UNCHANGED <<opt, pc, todo, enabled, file, crashed>>
    BY <1>2 DEF Serve, command, answer, accept, vars
  <2> QED
    BY <2>1 DEF PathOwned, Owns
<1>3. ASSUME NEW i \in Inv, launch(i) PROVE PathOwned'
  <2>1. /\ pc[<<i, "parent">>] = "none" /\ pc' = [pc EXCEPT ![<<i, "parent">>] = "new"]
        /\ UNCHANGED <<opt, todo, enabled, file, crashed>>
    BY <1>3 DEF launch
  <2>2. ASSUME NEW a \in Addr, NEW q \in Proc, file'[a] = q, q \notin crashed'
        PROVE  Owns(q, a)'
    <3>1. Owns(q, a)
      BY <2>1, <2>2 DEF PathOwned
    <3>2. pc'[q] = pc[q]
      BY <2>1, <3>1 DEF Owns, TypeOK
    <3> QED
      BY <2>1, <3>1, <3>2 DEF Owns
  <2> QED
    BY <2>2 DEF PathOwned
<1> QED
  BY <1>1, <1>2, <1>3 DEF Next, Act, Serve

\* Every step keeps the pid file with the daemon that runs, as long as nobody kills.
LEMMA FileStep ==
  ASSUME TypeOK, Stages, Unborn, FileOwned, [Next]_vars
  PROVE  FileOwned'
<1> USE DEF TypeOK
<1>o. opt' = opt
  BY OptSame
<1> SUFFICES ASSUME \A i \in Inv : opt[i].mode # "kill", NEW q \in Proc, q \in Daemons'
             PROVE  pidfile' = q
  BY <1>o DEF FileOwned, Daemons
<1>q. q[2] = "child" /\ pc'[q] \in {"select", "start", "handlers", "run"}
  BY DEF Daemons
<1>d. q \in Daemons => pidfile = q
  BY DEF FileOwned
<1>1. ASSUME NEW p \in Proc, Act(p) PROVE pidfile' = q
  <2>1. ASSUME q # p PROVE q \in Daemons
    <3>1. q # Child(p) \/ pc[p] # "fork"
      <4>1. CASE pc[p] = "fork" /\ q = Child(p)
        <5>1. daemon_fork(p) \/ crash(p)
          BY <4>1, <1>1 DEF Act, Step, main, daemon_start, daemon_start_child, daemon_start_parent,
             gstd_start, ipc_start, ipcs_started, install_handlers, int_term_handler, ipc_stop,
             gstd_free, process_exit, daemon_stop, kill_wait, pid_file_remove, sigterm, interrupt,
             Unhandled
        <5>2. p = <<p[1], "parent">> /\ pc[Child(p)] = "none"
          BY <4>1, ProcFacts DEF Stages, Unborn, Early
        <5> QED
          BY <4>1, <5>1, <5>2, <1>q, <2>1 DEF daemon_fork, crash, Ends
      <4> QED
        BY <4>1
    <3>2. pc'[q] = pc[q]
      BY <1>1, <2>1, <3>1, OthersSame DEF Same
    <3> QED
      BY <1>q, <3>2 DEF Daemons
  <2>k. Mode(p) # "kill"
    BY ProcFacts
  <2>2. CASE daemon_start_child(p)
    <3>1. CASE FileTaken
      <4>1. pc'[p] = "stop" /\ pidfile' = pidfile
        BY <2>2, <3>1 DEF daemon_start_child
      <4> QED
        BY <4>1, <2>1, <1>q, <1>d
    <3>2. CASE ~FileTaken
      <4>1. pidfile = NoProc /\ pidfile' = p
        BY <2>2, <3>2 DEF daemon_start_child, FileTaken
      <4> QED
        BY <4>1, <2>1, <1>d
    <3> QED
      BY <3>1, <3>2
  <2>3. CASE daemon_start(p)
    <3>1. /\ pc'[p] \in {"stop", "fork"} /\ pidfile' = IF Running THEN pidfile ELSE NoProc
      BY <2>3 DEF daemon_start, pid_file_is_running
    <3>2. q \in Daemons /\ pidfile = q
      BY <3>1, <2>1, <1>q, <1>d
    <3>3. Running
      BY <3>2 DEF Running, Daemons
    <3> QED
      BY <3>1, <3>2, <3>3
  <2>4. CASE daemon_stop(p) \/ kill_wait(p) \/ pid_file_remove(p)
    BY <2>4, <2>k DEF daemon_stop, kill_wait, pid_file_remove, Stages
  <2>5. CASE main(p)
    BY <2>5, <2>1, <1>q, <1>d DEF main, Stages, Early
  <2>6. CASE daemon_start_parent(p) \/ int_term_handler(p) \/ ipc_stop(p) \/ gstd_free(p)
             \/ ipc_start(p) \/ ipcs_started(p) \/ install_handlers(p) \/ interrupt(p)
             \/ gstd_start(p)
    <3>1. pidfile' = pidfile
      BY <2>6 DEF daemon_start_parent, int_term_handler, ipc_stop, gstd_free, ipc_start,
         ipcs_started, install_handlers, interrupt, gstd_start
    <3>2. CASE q = p
      <4>1. pc[p] \in {"select", "start", "handlers", "run"}
        BY <2>6, <3>2, <1>q DEF daemon_start_parent, int_term_handler, ipc_stop, gstd_free, ipc_start,
           ipcs_started, install_handlers, interrupt, gstd_start
      <4> QED
        BY <4>1, <3>1, <3>2, <1>q, <1>d DEF Daemons
    <3> QED
      BY <3>1, <3>2, <2>1, <1>d
  <2>7. CASE process_exit(p) \/ sigterm(p) \/ crash(p)
    <3>1. pidfile' = pidfile /\ pc'[p] = "dead"
      BY <2>7 DEF process_exit, sigterm, crash, Ends
    <3> QED
      BY <3>1, <2>1, <1>q, <1>d
  <2>8. CASE daemon_fork(p)
    <3>1. /\ pidfile' = pidfile /\ pc[p] = "fork" /\ p # Child(p)
      BY <2>8, ProcFacts DEF daemon_fork, Stages, Early
    <3>2. pc'[p] \in {"wait", "stop"}
      BY <2>8, <3>1 DEF daemon_fork
    <3> QED
      BY <3>1, <3>2, <2>1, <1>q, <1>d
  <2> QED
    BY <1>1, <2>2, <2>3, <2>4, <2>5, <2>6, <2>7, <2>8 DEF Act, Step
<1>2. CASE Serve \/ UNCHANGED vars
  <2>1. UNCHANGED <<pc, pidfile>>
    BY <1>2 DEF Serve, command, answer, accept, vars
  <2> QED
    BY <2>1, <1>q, <1>d DEF Daemons
<1>3. ASSUME NEW i \in Inv, launch(i) PROVE pidfile' = q
  <2>1. pc' = [pc EXCEPT ![<<i, "parent">>] = "new"] /\ pidfile' = pidfile
    BY <1>3 DEF launch
  <2> QED
    BY <2>1, <1>q, <1>d DEF Daemons
<1> QED
  BY <1>1, <1>2, <1>3 DEF Next, Act, Serve

\* Every step of a process keeps the types; the references to a session are at most four.
LEMMA TypeAct ==
  ASSUME TypeOK, Stages, Refs, Refs', NEW p \in Proc, Act(p)
  PROVE  TypeOK'
<1>p. p[1] \in Inv /\ Child(p) \in Proc
  BY ProcFacts
<1>o. opt' = opt /\ (opt[p[1]]).ipcs \subseteq Kind
  BY <1>p, OptSame DEF Next, Act, TypeOK
<1> USE <1>p, <1>o DEF TypeOK
<1>b. ASSUME pc'[p] \notin {"none", "dead"}, hold'[p] \in SUBSET Kind
      PROVE  sess'[p] \in 0..4
  <2>1. Balanced(p)'
    BY <1>b DEF Refs, RefsOf
  <2>2. Cardinality(hold'[p]) \in 0..3
    BY <1>b, KindFacts
  <2> QED
    BY <2>1, <2>2 DEF Balanced
<1>1. CASE main(p)
  BY <1>1 DEF main, gstd_new, session_new, context_add_group, Labels
<1>2. CASE daemon_start(p) \/ daemon_start_child(p)
  BY <1>2 DEF daemon_start, daemon_start_child, pid_file_is_running, Labels
<1>3. CASE daemon_start_parent(p) \/ ipcs_started(p) \/ install_handlers(p) \/ interrupt(p)
           \/ int_term_handler(p)
  BY <1>3 DEF daemon_start_parent, ipcs_started, install_handlers, interrupt, int_term_handler,
     Labels
<1>4. CASE daemon_fork(p)
  <2> HIDE <1>p, <1>o
  <2>c. Child(p) \in Proc
    BY <1>p
  <2> DEFINE c == Child(p)
  <2> HIDE DEF c
  <2>1. /\ pc' \in [Proc -> Labels] /\ todo' \in [Proc -> SUBSET Kind]
    <3>1. \/ pc' = [pc EXCEPT ![p] = "wait", ![c] = "create"] /\ todo' = todo
          \/ pc' = [pc EXCEPT ![p] = "stop"] /\ todo' = [todo EXCEPT ![p] = enabled[p]]
      BY <1>4 DEF daemon_fork, c
    <3>2. pc \in [Proc -> Labels] /\ todo \in [Proc -> SUBSET Kind] /\ enabled[p] \in SUBSET Kind
      OBVIOUS
    <3>3. {"wait", "create", "stop"} \subseteq Labels
      BY DEF Labels
    <3> HIDE DEF TypeOK
    <3>4. c \in Proc
      BY <2>c DEF c
    <3>5. CASE pc' = [pc EXCEPT ![p] = "wait", ![c] = "create"] /\ todo' = todo
      BY <3>2, <3>3, <3>4, <3>5
    <3>6. CASE pc' = [pc EXCEPT ![p] = "stop"] /\ todo' = [todo EXCEPT ![p] = enabled[p]]
      BY <3>2, <3>3, <3>6
    <3> QED
      BY <3>1, <3>5, <3>6
  <2>2. sess' \in [Proc -> 0..4] /\ enabled' \in [Proc -> SUBSET Kind]
    <3>1. \/ sess' = [sess EXCEPT ![c] = sess[p]] /\ enabled' = [enabled EXCEPT ![c] = enabled[p]]
          \/ UNCHANGED <<sess, enabled>>
      BY <1>4 DEF daemon_fork, c
    <3> QED
      BY <3>1, <2>c DEF c
  <2>3. UNCHANGED <<opt, failed, hold, os, term, worker, crashed>>
    BY <1>4 DEF daemon_fork
  <2> QED
    BY <2>1, <2>2, <2>3
<1>5. CASE gstd_start(p)
  <2>1. Selected(p) \in SUBSET Kind
    BY DEF Selected, Kind
  <2> QED
    BY <1>5, <2>1 DEF gstd_start, Labels
<1>6. CASE ipc_start(p)
  <2>1. PICK k \in todo[p] :
          /\ todo' = [todo EXCEPT ![p] = @ \ {k}]
          /\ hold' = [hold EXCEPT ![p] = @ \cup {k}]
          /\ sess' = [sess EXCEPT ![p] = @ + 1]
          /\ class_start(p, k)
    BY <1>6 DEF ipc_start, NextIpc
  <2>2. /\ pc[p] = "start"
        /\ UNCHANGED <<pc, enabled, pidfile, term, worker, crashed>>
    BY <1>6 DEF ipc_start
  <2>3. hold' \in [Proc -> SUBSET Kind] /\ todo' \in [Proc -> SUBSET Kind]
    BY <2>1
  <2>4. sess'[p] \in 0..4
    BY <2>2, <2>3, <1>b
  <2>5. sess' \in [Proc -> 0..4]
    BY <2>1, <2>4
  <2>6. /\ bound' \in [Kind \X Addr -> Proc \cup {NoProc}] /\ file' \in [Addr -> Proc \cup {NoProc}]
        /\ failed' \in [Proc -> BOOLEAN]
    <3>1. bound' \in [Kind \X Addr -> Proc \cup {NoProc}]
      BY <2>1 DEF class_start
    <3>2. file' \in [Addr -> Proc \cup {NoProc}]
      BY <2>1 DEF class_start
    <3>3. failed' \in [Proc -> BOOLEAN]
      BY <2>1 DEF class_start
    <3> QED
      BY <3>1, <3>2, <3>3
  <2> QED
    BY <2>2, <2>3, <2>5, <2>6
<1>7. CASE ipc_stop(p)
  <2>1. PICK k \in todo[p] :
          /\ todo' = [todo EXCEPT ![p] = @ \ {k}]
          /\ hold' = [hold EXCEPT ![p] = @ \ {k}]
          /\ sess' = [sess EXCEPT ![p] = @ - Cardinality(Released(p, k))]
          /\ file' = [b \in Addr |-> IF Unlinked(p, k) /\ b \in Range(Wanted(p, k)) THEN NoProc
                                                                                ELSE file[b]]
          /\ http_stop(p, k)
    BY <1>7 DEF ipc_stop, NextIpc, Unref
  <2>2. /\ pc[p] = "stop"
        /\ UNCHANGED <<pc, enabled, failed, pidfile, term, crashed>>
    BY <1>7 DEF ipc_stop
  <2>3. hold' \in [Proc -> SUBSET Kind] /\ todo' \in [Proc -> SUBSET Kind]
    BY <2>1
  <2>4. sess'[p] \in 0..4
    BY <2>2, <2>3, <1>b
  <2>5. sess' \in [Proc -> 0..4]
    BY <2>1, <2>4
  <2>6. /\ bound' \in [Kind \X Addr -> Proc \cup {NoProc}] /\ file' \in [Addr -> Proc \cup {NoProc}]
    BY <2>1 DEF http_stop
  <2>7. worker' \in [Worker -> [proc : Proc \cup {NoProc}, kind : Kind, busy : BOOLEAN]]
    BY <2>1 DEF http_stop, Idle, Kind
  <2> QED
    BY <2>2, <2>3, <2>5, <2>6, <2>7
<1>8. CASE gstd_free(p)
  <2>1. sess'[p] \in 0..4
    BY <1>8, <1>b DEF gstd_free
  <2>2. sess' \in [Proc -> 0..4]
    BY <1>8, <2>1 DEF gstd_free, Unref
  <2> QED
    BY <1>8, <2>2 DEF gstd_free, Labels
<1>9. CASE process_exit(p) \/ sigterm(p) \/ crash(p)
  <2>1. /\ Ends(p) /\ crashed' \subseteq Proc
    BY <1>9 DEF process_exit, sigterm, crash
  <2>2. worker' \in [Worker -> [proc : Proc \cup {NoProc}, kind : Kind, busy : BOOLEAN]]
    BY <2>1 DEF Ends, Idle, Kind
  <2> QED
    BY <2>1, <2>2 DEF Ends, Labels
<1>10. CASE daemon_stop(p) \/ kill_wait(p) \/ pid_file_remove(p)
  <2>1. CASE daemon_stop(p)
    <3>1. /\ pc' \in [Proc -> Labels] /\ pidfile' \in Proc \cup {NoProc}
      BY <2>1 DEF daemon_stop, pid_file_is_running, Running, Labels
    <3>2. term' \subseteq Proc
      BY <2>1 DEF daemon_stop, Running
    <3>3. UNCHANGED <<opt, todo, ipc, bound, file, worker, crashed>>
      BY <2>1 DEF daemon_stop
    <3> QED
      BY <3>1, <3>2, <3>3
  <2>2. CASE kill_wait(p)
    BY <2>2 DEF kill_wait, Labels
  <2>3. CASE pid_file_remove(p)
    BY <2>3 DEF pid_file_remove, Labels
  <2> QED
    BY <1>10, <2>1, <2>2, <2>3
<1> QED
  BY <1>1, <1>2, <1>3, <1>4, <1>5, <1>6, <1>7, <1>8, <1>9, <1>10 DEF Act, Step

\* Every step keeps the types.
LEMMA TypeStep ==
  ASSUME TypeOK, Stages, Refs, Refs', [Next]_vars
  PROVE  TypeOK'
<1>1. CASE \E p \in Proc : Act(p)
  BY <1>1, TypeAct
<1>2. CASE UNCHANGED vars
  BY <1>2 DEF vars, TypeOK
<1>3. ASSUME NEW i \in Inv, launch(i) PROVE TypeOK'
  BY <1>3 DEF launch, TypeOK, Labels
<1>4. ASSUME NEW w \in Worker, command(w) \/ answer(w) \/ \E p \in Proc : accept(w, p)
      PROVE  TypeOK'
  <2>1. UNCHANGED <<opt, pc, todo, ipc, os, term, crashed>>
    BY <1>4 DEF command, answer, accept
  <2>2. worker' \in [Worker -> [proc : Proc \cup {NoProc}, kind : Kind, busy : BOOLEAN]]
    <3> DEFINE W == [proc : Proc \cup {NoProc}, kind : Kind, busy : BOOLEAN]
    <3>1. worker \in [Worker -> W] /\ worker[w].proc \in Proc \cup {NoProc} /\ worker[w].kind \in Kind
      BY DEF TypeOK
    <3>2. PICK v \in W : worker' = [worker EXCEPT ![w] = v]
      <4>1. CASE command(w)
        BY <4>1, <3>1 DEF command
      <4>2. CASE answer(w)
        BY <4>2, <3>1 DEF answer, Idle, Kind
      <4>3. ASSUME NEW p \in Proc, accept(w, p) PROVE \E v \in W : worker' = [worker EXCEPT ![w] = v]
        BY <4>3 DEF accept
      <4> QED
        BY <1>4, <4>1, <4>2, <4>3
    <3> QED
      BY <3>1, <3>2
  <2> QED
    BY <2>1, <2>2 DEF TypeOK
<1> QED
  BY <1>1, <1>2, <1>3, <1>4 DEF Next, Act

-----------------------------------------------------------------------------
(* The invariant holds, and what follows from it. *)

\* Nothing has been started at first.
LEMMA InitDaemon == Init => DaemonInv
<1> SUFFICES ASSUME Init PROVE DaemonInv
  OBVIOUS
<1> USE DEF Init
<1>1. TypeOK
  BY DEF TypeOK, Labels, Kind, Idle
<1>2. Stages /\ Unborn /\ FileOwned
  BY ProcFacts DEF Stages, Unborn, FileOwned, Early, Daemons
<1>3. Refs
  BY DEF Refs, RefsOf
<1>4. HttpOwned
  BY DEF HttpOwned, WorkerOwned, Idle, Kind
<1>5. PathOwned
  BY DEF PathOwned
<1> QED
  BY <1>1, <1>2, <1>3, <1>4, <1>5 DEF DaemonInv

\* The invariant holds in every state.
LEMMA DaemonHolds == Spec => []DaemonInv
<1>1. DaemonInv /\ [Next]_vars => DaemonInv'
  BY TypeStep, StagesStep, RefsStep, HttpStep, PathStep, FileStep DEF DaemonInv
<1> QED
  BY InitDaemon, <1>1, PTL DEF Spec

\* Every process is well typed, and its session never has more than four references.
THEOREM DaemonTypeCorrect == Spec => []TypeOK
BY DaemonHolds, PTL DEF DaemonInv

\* Unless somebody kills a daemon, and so removes a pid file, two daemons never run at the
\* same time: daemon_pid_file_create refuses the second, whatever the checks before it saw.
THEOREM OneDaemonRuns == Spec => []OneDaemonUnkilled
<1>1. DaemonInv => OneDaemonUnkilled
  BY DEF DaemonInv, FileOwned, OneDaemonUnkilled, OneDaemon
<1> QED
  BY DaemonHolds, <1>1, PTL

\* gstd_ipc_start and gstd_ipc_stop keep the references to the session in balance on every
\* path through main.
THEOREM SessionInBalance == Spec => []SessionBalanced
<1>1. DaemonInv => SessionBalanced
  BY DEF DaemonInv, Refs, RefsOf, Balanced, SessionBalanced
<1> QED
  BY DaemonHolds, <1>1, PTL

\* A command of the HTTP server has a session to run on: gstd_http_stop waits for it before
\* the reference of the IPC is given back.
THEOREM HttpHasSession == Spec => []HttpSessionAlive
<1>1. DaemonInv => HttpSessionAlive
  <2> SUFFICES ASSUME DaemonInv, NEW w \in Worker, worker[w].busy, worker[w].kind = "http"
               PROVE  sess[worker[w].proc] > 0
    BY DEF HttpSessionAlive
  <2> DEFINE p == worker[w].proc
  <2>1. p \in Proc /\ pc[p] \notin {"none", "dead"} /\ "http" \in hold[p] /\ hold[p] \in SUBSET Kind
    BY DEF DaemonInv, HttpOwned, WorkerOwned, TypeOK
  <2> HIDE DEF p
  <2>2. Cardinality(hold[p]) \in 0..3 /\ Cardinality(hold[p]) > 0
    BY <2>1, KindFacts, HoldFacts
  <2>3. Balanced(p)
    BY <2>1 DEF DaemonInv, Refs, RefsOf
  <2>4. sess[p] > 0
    BY <2>2, <2>3 DEF Balanced
  <2> QED
    BY <2>4 DEF p
<1> QED
  BY DaemonHolds, <1>1, PTL

\* A process that ends by itself has removed the paths it made: gstd_unix_dispose comes
\* before the end on every path through main.
THEOREM PathsRemoved == Spec => []NoPathLeft
<1>1. DaemonInv => NoPathLeft
  BY DEF DaemonInv, TypeOK, PathOwned, Owns, NoPathLeft
<1> QED
  BY DaemonHolds, <1>1, PTL
=============================================================================
