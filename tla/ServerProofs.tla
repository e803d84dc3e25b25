----------------------------- MODULE ServerProofs -----------------------------
(***************************************************************************)
(* Proofs about Server, for any commands and any number of workers.        *)
(***************************************************************************)
EXTENDS ServerSafety, SequenceTheorems, TLAPS

(***************************************************************************)
(* The strengthening.  A handler that waits is at one of the workers.      *)
(***************************************************************************)
Waits ==
    \A m \in Masters : \A n \in DOMAIN handlers[m] :
        handlers[m][n].wait => handlers[m][n].i <= Workers

\* A master is what a command has become; with "debug" it forks nobody.
Births ==
    /\ \A c \in Commands : cli[c].at = "go" => c \in Masters
    /\ \A m \in Masters : master[m].at # "none" => cli[m].at = "done"
    /\ \A m \in Masters :
          master[m].debug => master[m].at \notin {"none", "fork", "assign", "forked", "pause", "test"}

\* Past hk_write_pid, and up to hk_clear_pid.
Serving(m) == master[m].at \notin {"none", "truncate", "write", "end", "exited"}

\* Forked workers and masters that fork go together; a "debug" server has one worker,
\* and calls hk_worker_run until that returns.
Parents ==
    /\ \A k \in DOMAIN kids :
          LET m == kids[k].master
          IN  /\ master[m].at \notin {"none", "truncate", "write", "create"}
              /\ kids[k].is_forked <=> ~master[m].debug
              /\ ~kids[k].is_forked /\ kids[k].at # "returned" => master[m].at = "run"
    /\ \A k, l \in DOMAIN kids :
          ~kids[k].is_forked /\ kids[k].master = kids[l].master => k = l

\* The pid file holds the pid of the master there is, once that has written it; while
\* a command is on its way to become one there is no other.
PidTold ==
    ~hasty =>
        /\ \A c, d \in Commands : Starting(c) /\ Starting(d) => c = d
        /\ \A m \in Masters : Exists(m) /\ Serving(m) => pidfile = m
        /\ \A c \in Commands : \A m \in Masters : Starting(c) /\ Active(m) => m = c

(***************************************************************************)
(* A worker forked and not exited is the one whose pid its master holds,   *)
(* or is about to store, and the handler has not come to it yet.           *)
(***************************************************************************)
Live(k) == kids[k].is_forked /\ kids[k].at # "exited"

Reaped == \A k \in DOMAIN kids : kids[k].reaped => kids[k].at = "exited"

HeldBy(m, k) ==
    LET i       == kids[k].i
        forking == master[m].at = "assign" /\ i = master[m].i
    IN  /\ master[m].at \in {"fork", "assign", "forked", "pause"}
        /\ master[m].at = "fork" => i < master[m].i
        /\ master[m].at = "assign" => i <= master[m].i
        /\ IF forking THEN master[m].child = k ELSE wpid[m][i] = k
        /\ handlers[m] # <<>> => Top(m).i <= i

HoldsAll(m) == \A k \in DOMAIN kids : Live(k) /\ kids[k].master = m => HeldBy(m, k)

AtEase(m) ==
    handlers[m] # <<>> =>
        Len(handlers[m]) = 1 /\ master[m].at \in {"pause", "run", "test", "clear", "end"}

Held == ~hasty => \A m \in Masters : AtEase(m) /\ HoldsAll(m)

\* A master whose pid has been read has written it, and a command that has stopped one
\* has waited for it.
Written(m) == m # NoPid => master[m].at \notin {"none", "truncate", "write"}

StopsWaited ==
    /\ Written(pidfile) /\ \A c \in Commands : Written(cli[c].pid)
    /\ ~hasty => \A c \in Stops :
          cli[c].at = "done" /\ cli[c].pid # NoPid => ~Active(cli[c].pid)

IInv == TypeOK /\ Waits /\ Births /\ Parents /\ PidTold /\ Reaped /\ Held /\ StopsWaited
-----------------------------------------------------------------------------
(***************************************************************************)
(* The workers by themselves and with their signals: none changes hands,   *)
(* and one that has exited or returned stays so.                           *)
(***************************************************************************)
Ended == {"exited", "returned"}

Evolves ==
    /\ kids' \in Seq(Kid) /\ Len(kids') = Len(kids)
    /\ \A k \in DOMAIN kids :
          /\ kids'[k].master = kids[k].master /\ kids'[k].is_forked = kids[k].is_forked
          /\ kids[k].at \in Ended => kids'[k].at = kids[k].at
          /\ kids'[k].i = kids[k].i
          /\ kids'[k].reaped => kids[k].reaped \/ kids[k].at = "exited"

\* One worker changed, to another state of itself.
LEMMA OneEvolves ==
    ASSUME kids \in Seq(Kid), NEW k \in DOMAIN kids, NEW x \in Kid,
           x.master = kids[k].master, x.is_forked = kids[k].is_forked,
           kids[k].at \in Ended => x.at = kids[k].at, x.i = kids[k].i,
           x.reaped => kids[k].reaped \/ kids[k].at = "exited",
           kids' = [kids EXCEPT ![k] = x]
    PROVE  Evolves
<1>1. kids' \in Seq(Kid) /\ Len(kids') = Len(kids)
      /\ \A l \in DOMAIN kids : kids'[l] = IF l = k THEN x ELSE kids[l]
  OBVIOUS
<1> QED BY <1>1 DEF Evolves

\* No worker changed.
LEMMA SameEvolves ==
    ASSUME kids \in Seq(Kid), UNCHANGED kids
    PROVE  Evolves
BY DEF Evolves

\* A SIGINT changes nothing but whether one is pending.
LEMMA InterruptedEvolves ==
    ASSUME kids \in Seq(Kid), NEW ks, kids' = Interrupted(ks)
    PROVE  Evolves
<1>1. ASSUME NEW k \in DOMAIN kids
      PROVE  kids'[k] \in Kid /\ kids'[k].master = kids[k].master
             /\ kids'[k].is_forked = kids[k].is_forked /\ kids'[k].at = kids[k].at
             /\ kids'[k].i = kids[k].i /\ kids'[k].reaped = kids[k].reaped
  <2>1. kids[k] \in Kid
    OBVIOUS
  <2>2. [kids[k] EXCEPT !.sigint = @ \/ kids[k].at \notin {"exited", "returned"}] \in Kid
    BY <2>1 DEF Kid
  <2> QED BY <2>1, <2>2 DEF Interrupted, Kid
<1>2. DOMAIN kids' = DOMAIN kids
  BY DEF Interrupted
<1>3. kids' \in Seq(Kid) /\ Len(kids') = Len(kids)
  BY <1>1, <1>2, IsASeq DEF Interrupted
<1> QED BY <1>1, <1>3 DEF Evolves

\* hk_worker_stop in the worker's own process.
LEMMA ToldEvolves ==
    ASSUME kids \in Seq(Kid), NEW k \in DOMAIN kids, kids' \in Told(k)
    PROVE  Evolves
<1>1. PICK down \in BOOLEAN :
         kids' = [kids EXCEPT ![k].stopping = TRUE, ![k].sigint = FALSE, ![k].down = @ \/ down]
  BY DEF Told, Listening
<1> DEFINE x == [kids[k] EXCEPT !.stopping = TRUE, !.sigint = FALSE, !.down = @ \/ down]
<1>2. x \in Kid /\ x.master = kids[k].master /\ x.is_forked = kids[k].is_forked
      /\ x.at = kids[k].at /\ x.i = kids[k].i /\ x.reaped = kids[k].reaped
  <2>1. kids[k] \in Kid
    OBVIOUS
  <2>2. \A b \in BOOLEAN : LET y == [kids[k] EXCEPT !.stopping = TRUE, !.sigint = FALSE, !.down = b]
                          IN  y \in Kid /\ y.master = kids[k].master
                              /\ y.is_forked = kids[k].is_forked /\ y.at = kids[k].at
                              /\ y.i = kids[k].i /\ y.reaped = kids[k].reaped
    BY <2>1 DEF Kid
  <2> QED BY <2>2
<1>3. kids' = [kids EXCEPT ![k] = x]
  BY <1>1
<1> HIDE DEF x
<1> QED BY <1>2, <1>3, OneEvolves

\* What a worker does by itself, and a connection.
LEMMA KidStepEvolves ==
    ASSUME kids \in Seq(Kid), NEW k \in DOMAIN kids, KidStep(k) \/ Accept(k) \/ Close(k)
    PROVE  Evolves
<1> DEFINE Places == {"born", "ready", "known", "init", "loop", "poll", "closing", "exited", "returned"}
<1>1. ASSUME NEW from, NEW to \in Places, from \notin Ended, Moves(k, from, to)
      PROVE  Evolves
  <2> DEFINE x == [kids[k] EXCEPT !.at = to]
  <2>1. x \in Kid /\ x.master = kids[k].master /\ x.is_forked = kids[k].is_forked
        /\ x.i = kids[k].i /\ x.reaped = kids[k].reaped
    <3>1. kids[k] \in Kid
      OBVIOUS
    <3> QED BY <3>1 DEF Kid
  <2>2. kids' = [kids EXCEPT ![k] = x] /\ kids[k].at \notin Ended
    BY <1>1 DEF Moves
  <2> HIDE DEF x
  <2> QED BY <2>1, <2>2, OneEvolves
<1>2. CASE SignalsInit(k)
  BY <1>1, <1>2 DEF SignalsInit, Ended
<1>3. CASE InstanceSet(k)
  BY <1>1, <1>3 DEF InstanceSet, Ended
<1>4. CASE StateCheck(k)
  BY <1>1, <1>4 DEF StateCheck, Ended
<1>5. CASE LoopTest(k)
  BY <1>1, <1>5 DEF LoopTest, Ended
<1>6. CASE PollReturns(k) \/ Accept(k)
  BY <1>1, <1>6 DEF PollReturns, Accept, Ended
<1>7. CASE Close(k)
  BY <1>1, <1>7 DEF Close, Ended
<1>8. CASE Listen(k)
  <2>1. \E x \in {[kids[k] EXCEPT !.at = "exited"], [kids[k] EXCEPT !.at = "loop", !.stopping = FALSE]} :
          kids' = [kids EXCEPT ![k] = x]
    BY <1>8 DEF Listen
  <2>2. PICK x \in {[kids[k] EXCEPT !.at = "exited"], [kids[k] EXCEPT !.at = "loop", !.stopping = FALSE]} :
          kids' = [kids EXCEPT ![k] = x]
    BY <2>1
  <2>3. x \in Kid /\ x.master = kids[k].master /\ x.is_forked = kids[k].is_forked
        /\ x.i = kids[k].i /\ x.reaped = kids[k].reaped
    <3>1. kids[k] \in Kid
      OBVIOUS
    <3> QED BY <2>2, <3>1 DEF Kid
  <2>4. kids[k].at \notin Ended
    BY <1>8 DEF Listen, Ended
  <2> QED BY <2>2, <2>3, <2>4, OneEvolves
<1> QED BY <1>2, <1>3, <1>4, <1>5, <1>6, <1>7, <1>8 DEF KidStep

\* hk_worker_sig, and the handler of the master in a process just forked.
LEMMA SigintEvolves ==
    ASSUME kids \in Seq(Kid), NEW k \in DOMAIN kids, Sigint(k)
    PROVE  Evolves
<1>1. CASE kids[k].at = "born"
  <2>1. PICK own \in BOOLEAN :
          kids' = [Interrupted(Elders(k)) EXCEPT ![k].stopping = @ \/ own, ![k].sigint = FALSE]
    BY <1>1 DEF Sigint, SigintAsMaster
  <2> DEFINE s == Interrupted(Elders(k))
  <2>2. /\ DOMAIN s = DOMAIN kids /\ s \in Seq(Kid) /\ Len(s) = Len(kids)
        /\ \A l \in DOMAIN kids : /\ s[l].master = kids[l].master
                                  /\ s[l].is_forked = kids[l].is_forked /\ s[l].at = kids[l].at
                                  /\ s[l].i = kids[l].i /\ s[l].reaped = kids[l].reaped
    <3>1. ASSUME NEW l \in DOMAIN kids
          PROVE  s[l] \in Kid /\ s[l].master = kids[l].master
                 /\ s[l].is_forked = kids[l].is_forked /\ s[l].at = kids[l].at
                 /\ s[l].i = kids[l].i /\ s[l].reaped = kids[l].reaped
      <4>1. kids[l] \in Kid
        OBVIOUS
      <4>2. [kids[l] EXCEPT !.sigint = @ \/ kids[l].at \notin {"exited", "returned"}] \in Kid
        BY <4>1 DEF Kid
      <4> QED BY <4>1, <4>2 DEF Interrupted, Kid
    <3>2. DOMAIN s = DOMAIN kids
      BY DEF Interrupted
    <3>3. s \in Seq(Kid) /\ Len(s) = Len(kids)
      BY <3>1, <3>2, IsASeq DEF Interrupted
    <3> QED BY <3>1, <3>2, <3>3
  <2> HIDE DEF s
  <2> DEFINE x == [s[k] EXCEPT !.stopping = @ \/ own, !.sigint = FALSE]
  <2>3. x \in Kid /\ x.master = kids[k].master /\ x.is_forked = kids[k].is_forked
        /\ x.at = kids[k].at /\ x.i = kids[k].i /\ x.reaped = kids[k].reaped
    <3>1. s[k] \in Kid
      BY <2>2
    <3>2. \A b \in BOOLEAN : LET y == [s[k] EXCEPT !.stopping = b, !.sigint = FALSE]
                            IN  y \in Kid /\ y.master = s[k].master
                                /\ y.is_forked = s[k].is_forked /\ y.at = s[k].at
                                /\ y.i = s[k].i /\ y.reaped = s[k].reaped
      BY <3>1 DEF Kid
    <3>3. (s[k].stopping \/ own) \in BOOLEAN
      OBVIOUS
    <3> QED BY <2>2, <3>2, <3>3
  <2>4. kids' = [s EXCEPT ![k] = x]
    BY <2>1 DEF s
  <2> HIDE DEF x
  <2>5. kids' \in Seq(Kid) /\ Len(kids') = Len(kids)
        /\ \A l \in DOMAIN kids : kids'[l] = IF l = k THEN x ELSE s[l]
    BY <2>2, <2>3, <2>4
  <2> QED BY <2>2, <2>3, <2>5 DEF Evolves
<1>2. CASE kids[k].at = "ready"
  <2> DEFINE x == [kids[k] EXCEPT !.at = "exited", !.sigint = FALSE]
  <2>1. x \in Kid /\ x.master = kids[k].master /\ x.is_forked = kids[k].is_forked
        /\ x.i = kids[k].i /\ x.reaped = kids[k].reaped
    <3>1. kids[k] \in Kid
      OBVIOUS
    <3> QED BY <3>1 DEF Kid
  <2>2. kids' = [kids EXCEPT ![k] = x] /\ kids[k].at \notin Ended
    BY <1>2 DEF Sigint, Ended
  <2> HIDE DEF x
  <2> QED BY <2>1, <2>2, OneEvolves
<1>3. CASE kids[k].at \notin {"born", "ready"}
  BY <1>3, ToldEvolves DEF Sigint
<1> QED BY <1>1, <1>2, <1>3
-----------------------------------------------------------------------------
(***************************************************************************)
(* Type correctness of commands and masters.                               *)
(***************************************************************************)
Typed == TypeOK /\ Waits

\* A handler's stack: what lies under the innermost one, and it at its next worker.
LEMMA Stack ==
    ASSUME Typed, NEW m \in Masters, handlers[m] # <<>>
    PROVE  /\ handlers[m] \in Seq(Handler) /\ Len(handlers[m]) \in Nat \ {0}
           /\ Top(m) \in Handler
           /\ Top(m).wait => Top(m).i <= Workers
           /\ Under(m) \in Seq(Handler) /\ Len(Under(m)) = Len(handlers[m]) - 1
           /\ \A n \in DOMAIN Under(m) : Under(m)[n] = handlers[m][n]
<1>1. handlers[m] \in Seq(Handler) /\ Len(handlers[m]) \in Nat \ {0}
  BY DEF Typed, TypeOK
<1>2. Top(m) \in Handler /\ (Top(m).wait => Top(m).i <= Workers)
  BY <1>1 DEF Top, Typed, Waits
<1>3. /\ Under(m) \in Seq(Handler) /\ Len(Under(m)) = Len(handlers[m]) - 1
      /\ \A n \in DOMAIN Under(m) : Under(m)[n] = handlers[m][n]
  BY <1>1 DEF Under
<1> QED BY <1>1, <1>2, <1>3

\* hk_server_stop_workers goes on to the next worker.
LEMMA NextWorkerType ==
    ASSUME NEW hs \in Seq(Handler), hs # <<>>, hs[Len(hs)].i <= Workers,
           \A n \in DOMAIN hs : hs[n].wait => hs[n].i <= Workers
    PROVE  /\ NextWorker(hs) \in Seq(Handler)
           /\ \A n \in DOMAIN NextWorker(hs) : NextWorker(hs)[n].wait => NextWorker(hs)[n].i <= Workers
<1> DEFINE l == Len(hs)  h == hs[l]  x == [h EXCEPT !.i = @ + 1, !.wait = FALSE]
<1>1. l \in DOMAIN hs /\ h \in Handler /\ h.i <= Workers
  OBVIOUS
<1>2. x \in Handler /\ ~x.wait
  <2> HIDE DEF h
  <2>1. h.sig \in {"INT", "USR"} /\ h.i + 1 \in 1 .. Workers + 1
    BY <1>1, WorkersAssumption DEF Handler
  <2> QED BY <1>1, <2>1 DEF Handler
<1>3. NextWorker(hs) = [hs EXCEPT ![l] = x]
  BY <1>1 DEF NextWorker
<1> HIDE DEF x, h
<1>4. [hs EXCEPT ![l] = x] \in Seq(Handler)
      /\ \A n \in DOMAIN hs : [hs EXCEPT ![l] = x][n] = IF n = l THEN x ELSE hs[n]
  BY <1>1, <1>2
<1> QED BY <1>1, <1>2, <1>3, <1>4

\* The handlers of one master changed.
LEMMA HandlersType ==
    ASSUME Typed, NEW m \in Masters, NEW hs \in Seq(Handler),
           \A n \in DOMAIN hs : hs[n].wait => hs[n].i <= Workers,
           handlers' = [handlers EXCEPT ![m] = hs]
    PROVE  handlers' \in [Masters -> Seq(Handler)] /\ Waits'
<1>1. handlers \in [Masters -> Seq(Handler)]
  BY DEF Typed, TypeOK
<1>2. handlers' \in [Masters -> Seq(Handler)]
      /\ \A n \in Masters : handlers'[n] = IF n = m THEN hs ELSE handlers[n]
  BY <1>1
<1> QED BY <1>2 DEF Waits, Typed

\* The steps of the commands.
LEMMA CliType ==
    ASSUME Typed, NEW c \in Commands, Births, Issue(c) \/ CliStep(c)
    PROVE  /\ cli' \in [Commands -> Command]
           /\ pidfile' \in Masters \cup {NoPid} /\ master' \in [Masters -> Master]
           /\ pending' \in [Masters -> SUBSET {"INT", "USR"}]
           /\ UNCHANGED <<handlers, wpid, wstopping>>
<1>1. /\ cli \in [Commands -> Command] /\ pidfile \in Masters \cup {NoPid}
      /\ master \in [Masters -> Master] /\ pending \in [Masters -> SUBSET {"INT", "USR"}]
  BY DEF Typed, TypeOK
<1> DEFINE Places == {"idle", "read", "kill", "poll", "go", "done", "refused"}
<1>2. ASSUME NEW from, NEW to \in Places, Advances(c, from, to)
      PROVE  cli' \in [Commands -> Command]
  <2> DEFINE x == [cli[c] EXCEPT !.at = to]
  <2>1. cli[c] \in Command
    BY <1>1
  <2>2. x \in Command
    BY <2>1 DEF Command
  <2>3. cli' = [cli EXCEPT ![c] = x]
    BY <1>2 DEF Advances
  <2> HIDE DEF x
  <2> QED BY <1>1, <2>2, <2>3
<1>3. ReadPid \in Masters \cup {NoPid} /\ Stopped(c) \in Places
  BY <1>1 DEF ReadPid, Stopped
<1>4. CASE Issue(c)
  BY <1>1, <1>2, <1>4 DEF Issue, masterVars
<1>5. CASE StopRead(c)
  <2> DEFINE at == IF ReadPid = NoPid THEN Stopped(c) ELSE "kill"
             x == [cli[c] EXCEPT !.pid = ReadPid, !.at = at]
  <2>1. cli[c] \in Command /\ at \in Places
    BY <1>1, <1>3
  <2>2. cli' = [cli EXCEPT ![c] = x]
    BY <1>5 DEF StopRead
  <2> HIDE DEF at
  <2>3. x \in Command
    BY <1>3, <2>1 DEF Command
  <2> HIDE DEF x
  <2>4. cli' \in [Commands -> Command]
    BY <1>1, <2>2, <2>3
  <2> QED BY <1>1, <1>5, <2>4 DEF StopRead, masterVars
<1>6. CASE StopKill(c)
  <2>1. cli' \in [Commands -> Command]
    BY <1>2, <1>6 DEF StopKill
  <2>2. \A p : \A sig \in {"INT", "USR"} : Sent(p, sig) \in [Masters -> SUBSET {"INT", "USR"}]
    BY <1>1 DEF Sent
  <2> QED BY <1>1, <1>6, <2>1, <2>2 DEF StopKill
<1>7. CASE StopPoll(c)
  BY <1>1, <1>2, <1>3, <1>7 DEF StopPoll, masterVars
<1>8. CASE StartFork(c)
  <2>1. cli' \in [Commands -> Command] /\ c \in Masters
    BY <1>2, <1>8 DEF StartFork, Births, Advances
  <2>2. PICK debug \in BOOLEAN :
          master' = [master EXCEPT ![c].at = "truncate", ![c].debug = debug]
    BY <1>8 DEF StartFork
  <2> DEFINE x == [master[c] EXCEPT !.at = "truncate", !.debug = debug]
  <2>3. master[c] \in Master
    BY <1>1, <2>1
  <2>4. x \in Master
    BY <2>3 DEF Master, MasterAt
  <2>5. master' = [master EXCEPT ![c] = x]
    BY <2>2
  <2> HIDE DEF x
  <2> QED BY <1>1, <1>8, <2>1, <2>4, <2>5 DEF StartFork
<1> QED BY <1>4, <1>5, <1>6, <1>7, <1>8 DEF CliStep

\* What a step of a master keeps.
MasterTyped ==
    /\ kids' \in Seq(Kid)
    /\ pidfile' \in Masters \cup {NoPid}
    /\ master' \in [Masters -> Master]
    /\ handlers' \in [Masters -> Seq(Handler)]
    /\ pending' \in [Masters -> SUBSET {"INT", "USR"}]
    /\ wpid' \in [Masters -> [1 .. Workers -> Nat \cup {Failed}]]
    /\ wstopping' \in [Masters -> [1 .. Workers -> BOOLEAN]]
    /\ Waits'

\* A step of hk_server_start to another place.
LEMMA GoesType ==
    ASSUME Typed, NEW m \in Masters, NEW from, NEW to \in MasterAt, Goes(m, from, to)
    PROVE  master' \in [Masters -> Master]
<1> DEFINE x == [master[m] EXCEPT !.at = to]
<1>1. master \in [Masters -> Master] /\ master[m] \in Master
  BY DEF Typed, TypeOK
<1>2. x \in Master
  BY <1>1 DEF Master
<1>3. master' = [master EXCEPT ![m] = x]
  BY DEF Goes
<1> HIDE DEF x
<1> QED BY <1>1, <1>2, <1>3

\* The steps of hk_server_start that touch neither handlers nor workers' pids.
LEMMA PidStepType ==
    ASSUME Typed, NEW m \in Masters, PidStep(m)
    PROVE  MasterTyped
<1>1. master' \in [Masters -> Master]
  BY GoesType DEF PidStep, WritePidOpen, WritePidWrite, RunReturns, Pause, ClearPid, MasterExit, MasterAt
<1>2. pidfile' \in Masters \cup {NoPid}
  BY DEF PidStep, WritePidOpen, WritePidWrite, RunReturns, Pause, ClearPid, MasterExit, Typed, TypeOK
<1>3. UNCHANGED <<kids, handlers, pending, wpid, wstopping>>
  BY DEF PidStep
<1> QED BY <1>1, <1>2, <1>3 DEF MasterTyped, Typed, TypeOK, Waits

\* A new worker is one.
LEMMA NewKidType ==
    ASSUME NEW m \in Masters, NEW i \in 1 .. Workers
    PROVE  NewKid(m, i) \in Kid /\ (i = 1 => OwnWorker(m) \in Kid)
<1>1. NewKid(m, i) \in Kid
  BY DEF NewKid, Kid
<1>2. ASSUME i = 1 PROVE OwnWorker(m) \in Kid
  <2> DEFINE x == NewKid(m, 1)
  <2>1. x \in Kid
    BY <1>1, <1>2
  <2> HIDE DEF x
  <2>2. [x EXCEPT !.at = "known", !.is_forked = FALSE] \in Kid
    BY <2>1 DEF Kid
  <2> QED BY <2>2 DEF OwnWorker, x
<1> QED BY <1>1, <1>2

\* The steps of the start loop.
LEMMA LoopType ==
    ASSUME Typed, NEW m \in Masters, UNCHANGED cliVars,
           CreateWorkers(m) \/ Fork(m) \/ AssignPid(m) \/ TestRestart(m)
    PROVE  MasterTyped
<1>1. /\ kids \in Seq(Kid) /\ pidfile \in Masters \cup {NoPid}
      /\ master \in [Masters -> Master] /\ master[m] \in Master
      /\ handlers \in [Masters -> Seq(Handler)] /\ pending \in [Masters -> SUBSET {"INT", "USR"}]
      /\ wpid \in [Masters -> [1 .. Workers -> Nat \cup {Failed}]]
      /\ wstopping \in [Masters -> [1 .. Workers -> BOOLEAN]] /\ Waits /\ pidfile' = pidfile
  BY DEF Typed, TypeOK, cliVars
<1>2. ASSUME NEW x \in Master, master' = [master EXCEPT ![m] = x]
      PROVE  master' \in [Masters -> Master]
  BY <1>1, <1>2
<1>3. master[m].i \in 1 .. Workers /\ master[m].child \in Nat \cup {Failed}
  BY <1>1 DEF Master
<1>4. CASE CreateWorkers(m)
  <2>1. master' \in [Masters -> Master]
    BY <1>4, GoesType DEF CreateWorkers, MasterAt
  <2>2. kids' \in Seq(Kid)
    <3>1. OwnWorker(m) \in Kid
      BY NewKidType, WorkersAssumption
    <3> QED BY <1>1, <1>4, <3>1 DEF CreateWorkers
  <2> QED BY <1>1, <1>4, <2>1, <2>2 DEF CreateWorkers, MasterTyped, Waits
<1>5. CASE Fork(m)
  <2>1. PICK child \in {NoPid, Failed, Len(kids) + 1} :
          /\ kids' = IF child \in {NoPid, Failed} THEN kids ELSE Append(kids, NewKid(m, master[m].i))
          /\ master' = [master EXCEPT ![m].at = "assign", ![m].child = child]
    BY <1>5 DEF Fork
  <2> DEFINE x == [master[m] EXCEPT !.at = "assign", !.child = child]
  <2>2. child \in Nat \cup {Failed}
    BY <1>1 DEF NoPid, Failed
  <2>3. x \in Master
    BY <1>1, <2>2 DEF Master, MasterAt
  <2>4. master' = [master EXCEPT ![m] = x]
    BY <2>1
  <2> HIDE DEF x
  <2>5. master' \in [Masters -> Master]
    BY <1>2, <2>3, <2>4
  <2>6. kids' \in Seq(Kid)
    <3>1. NewKid(m, master[m].i) \in Kid
      BY <1>3, NewKidType
    <3> QED BY <1>1, <2>1, <3>1
  <2> QED BY <1>1, <1>5, <2>5, <2>6 DEF Fork, MasterTyped, Waits
<1>6. CASE AssignPid(m)
  <2> DEFINE i == master[m].i
             x == IF i = Workers THEN [master[m] EXCEPT !.at = "forked"]
                  ELSE [master[m] EXCEPT !.at = "fork", !.i = i + 1]
  <2>1. x \in Master
    <3>1. CASE i = Workers
      BY <1>1, <3>1 DEF Master, MasterAt
    <3>2. CASE i # Workers
      <4>1. i + 1 \in 1 .. Workers
        BY <1>3, <3>2, WorkersAssumption
      <4> HIDE DEF i
      <4> QED BY <1>1, <3>2, <4>1 DEF Master, MasterAt
    <3> QED BY <3>1, <3>2
  <2>2. master' = [master EXCEPT ![m] = x]
    BY <1>6 DEF AssignPid
  <2> HIDE DEF x
  <2>3. master' \in [Masters -> Master]
    BY <1>2, <2>1, <2>2
  <2>4. wpid' \in [Masters -> [1 .. Workers -> Nat \cup {Failed}]]
    <3>1. wpid' = [wpid EXCEPT ![m] = [wpid[m] EXCEPT ![i] = master[m].child]]
      BY <1>6 DEF AssignPid
    <3>2. wpid[m] \in [1 .. Workers -> Nat \cup {Failed}]
      BY <1>1
    <3>3. [wpid[m] EXCEPT ![i] = master[m].child] \in [1 .. Workers -> Nat \cup {Failed}]
      BY <1>3, <3>2
    <3> QED BY <1>1, <3>1, <3>3
  <2> QED BY <1>1, <1>6, <2>3, <2>4 DEF AssignPid, MasterTyped, Waits
<1>7. CASE TestRestart(m)
  <2> DEFINE at == IF master[m].restart THEN "fork" ELSE "clear"
             x == [master[m] EXCEPT !.at = at, !.i = 1]
  <2>1. at \in MasterAt /\ 1 \in 1 .. Workers
    BY WorkersAssumption DEF MasterAt
  <2>2. master' = [master EXCEPT ![m] = x]
    BY <1>7 DEF TestRestart
  <2> HIDE DEF at
  <2>3. x \in Master
    BY <1>1, <2>1 DEF Master
  <2> HIDE DEF x
  <2>4. master' \in [Masters -> Master]
    BY <1>2, <2>2, <2>3
  <2> QED BY <1>1, <1>7, <2>4 DEF TestRestart, MasterTyped, Waits
<1> QED BY <1>4, <1>5, <1>6, <1>7

\* hk_server_sig and hk_server_stop_workers.
LEMMA HandlerType ==
    ASSUME Typed, NEW m \in Masters, UNCHANGED cliVars,
           \/ \E sig \in {"INT", "USR"} : Deliver(m, sig)
           \/ StopWorker(m) \/ WaitWorker(m) \/ HandlerReturn(m)
    PROVE  MasterTyped /\ Evolves
<1>1. /\ kids \in Seq(Kid) /\ pidfile \in Masters \cup {NoPid}
      /\ master \in [Masters -> Master] /\ master[m] \in Master
      /\ handlers \in [Masters -> Seq(Handler)] /\ pending \in [Masters -> SUBSET {"INT", "USR"}]
      /\ wpid \in [Masters -> [1 .. Workers -> Nat \cup {Failed}]]
      /\ wstopping \in [Masters -> [1 .. Workers -> BOOLEAN]] /\ Waits /\ pidfile' = pidfile
      /\ handlers[m] \in Seq(Handler)
      /\ \A n \in DOMAIN handlers[m] : handlers[m][n].wait => handlers[m][n].i <= Workers
  BY DEF Typed, TypeOK, cliVars, Waits
<1>2. Last(m) \in 1 .. Workers
  BY WorkersAssumption DEF Last
<1>3. ASSUME handlers[m] # <<>>, Top(m).i <= Workers,
             handlers' = [handlers EXCEPT ![m] = NextWorker(@)]
      PROVE  handlers' \in [Masters -> Seq(Handler)] /\ Waits'
  BY <1>1, <1>3, NextWorkerType, HandlersType DEF Top
<1>4. ASSUME NEW sig \in {"INT", "USR"}, Deliver(m, sig) PROVE MasterTyped /\ Evolves
  <2> DEFINE i == IF master[m].at \in {"truncate", "write", "create"} THEN Last(m) + 1 ELSE 1
             h == [sig |-> sig, wait |-> FALSE, i |-> i]
             hs == Append(handlers[m], h)
  <2>1. i \in 1 .. Workers + 1
    BY <1>2, WorkersAssumption
  <2>2. handlers' = [handlers EXCEPT ![m] = hs]
    BY <1>4 DEF Deliver
  <2> HIDE DEF i
  <2>3. h \in Handler /\ ~h.wait
    BY <2>1 DEF Handler
  <2> HIDE DEF h
  <2>4. hs \in Seq(Handler) /\ \A n \in DOMAIN hs : hs[n].wait => hs[n].i <= Workers
    BY <1>1, <2>3
  <2> HIDE DEF hs
  <2>5. handlers' \in [Masters -> Seq(Handler)] /\ Waits'
    BY <2>2, <2>4, HandlersType
  <2>6. pending' \in [Masters -> SUBSET {"INT", "USR"}]
    BY <1>1, <1>4 DEF Deliver
  <2> QED BY <1>1, <1>4, <2>5, <2>6, SameEvolves DEF Deliver, MasterTyped
<1>5. CASE StopWorker(m)
  <2> DEFINE i == Top(m).i  pid == wpid[m][i]
  <2>1. handlers[m] # <<>> /\ i <= Last(m) /\ i \in 1 .. Workers
    BY <1>2, <1>5, Stack, WorkersAssumption DEF StopWorker, Handler
  <2>2. UNCHANGED <<master, wpid>>
    BY <1>5 DEF StopWorker
  <2>3. CASE pid = NoPid
    <3>1. MarkWorker(m, i)
      BY <1>5, <2>3 DEF StopWorker
    <3>2. handlers' \in [Masters -> Seq(Handler)] /\ Waits'
      BY <1>3, <2>1, <3>1 DEF MarkWorker
    <3>3. wstopping' \in [Masters -> [1 .. Workers -> BOOLEAN]]
      <4>1. wstopping[m] \in [1 .. Workers -> BOOLEAN]
        BY <1>1
      <4>2. [wstopping[m] EXCEPT ![i] = TRUE] \in [1 .. Workers -> BOOLEAN]
        BY <4>1
      <4> QED BY <1>1, <3>1, <4>2 DEF MarkWorker
    <3>4. Evolves
      <4>1. kids' = kids \/ \E k \in DOMAIN kids : kids' \in Told(k)
        BY <3>1 DEF MarkWorker
      <4> QED BY <1>1, <4>1, SameEvolves, ToldEvolves
    <3> QED BY <1>1, <2>2, <3>1, <3>2, <3>3, <3>4 DEF MarkWorker, MasterTyped, Evolves
  <2>4. CASE pid # NoPid
    <3>1. KillWorker(m, pid)
      BY <1>5, <2>4 DEF StopWorker
    <3> DEFINE l == Len(handlers[m])  x == [handlers[m][l] EXCEPT !.wait = TRUE]
               hs == [handlers[m] EXCEPT ![l] = x]
    <3>2. l \in DOMAIN handlers[m] /\ handlers[m][l] = Top(m) /\ Top(m) \in Handler
      BY <2>1, Stack DEF Top
    <3>3. x \in Handler /\ x.i = i
      BY <3>2 DEF Handler
    <3>4. handlers' = [handlers EXCEPT ![m] = hs]
      BY <3>1, <3>2 DEF KillWorker
    <3> HIDE DEF x
    <3>5. hs \in Seq(Handler) /\ \A n \in DOMAIN hs : hs[n].wait => hs[n].i <= Workers
      BY <1>1, <2>1, <3>2, <3>3
    <3> HIDE DEF hs
    <3>6. handlers' \in [Masters -> Seq(Handler)] /\ Waits'
      BY <3>4, <3>5, HandlersType
    <3>7. pending' \in [Masters -> SUBSET {"INT", "USR"}]
      BY <1>1, <3>1 DEF KillWorker
    <3>8. Evolves
      BY <1>1, <3>1, InterruptedEvolves DEF KillWorker
    <3> QED BY <1>1, <2>2, <3>1, <3>6, <3>7, <3>8 DEF KillWorker, MasterTyped, Evolves
  <2> QED BY <2>3, <2>4
<1>6. CASE WaitWorker(m)
  <2>1. handlers[m] # <<>> /\ Top(m).i <= Workers
    BY <1>6, Stack DEF WaitWorker
  <2>2. handlers' \in [Masters -> Seq(Handler)] /\ Waits'
    BY <1>3, <1>6, <2>1 DEF WaitWorker
  <2>3. Evolves
    <3>1. \/ kids' = kids
          \/ \E k \in DOMAIN kids : kids[k].at = "exited" /\ kids' = [kids EXCEPT ![k].reaped = TRUE]
      BY <1>6 DEF WaitWorker
    <3>2. ASSUME NEW k \in DOMAIN kids, kids[k].at = "exited",
                 kids' = [kids EXCEPT ![k].reaped = TRUE]
          PROVE  Evolves
      <4> DEFINE x == [kids[k] EXCEPT !.reaped = TRUE]
      <4>1. kids[k] \in Kid
        BY <1>1
      <4>2. x \in Kid /\ x.master = kids[k].master /\ x.is_forked = kids[k].is_forked
            /\ x.at = kids[k].at /\ x.i = kids[k].i
        BY <4>1 DEF Kid
      <4>3. kids' = [kids EXCEPT ![k] = x]
        BY <3>2
      <4> HIDE DEF x
      <4> QED BY <1>1, <3>2, <4>2, <4>3, OneEvolves
    <3> QED BY <1>1, <3>1, <3>2, SameEvolves
  <2> QED BY <1>1, <1>6, <2>2, <2>3 DEF WaitWorker, MasterTyped, Evolves
<1>7. CASE HandlerReturn(m)
  <2>1. handlers[m] # <<>> /\ handlers' = [handlers EXCEPT ![m] = Resumed(m)]
    BY <1>7 DEF HandlerReturn
  <2>2. /\ Under(m) \in Seq(Handler)
        /\ \A n \in DOMAIN Under(m) : Under(m)[n].wait => Under(m)[n].i <= Workers
    <3>1. /\ Under(m) \in Seq(Handler) /\ Len(Under(m)) = Len(handlers[m]) - 1
          /\ \A n \in DOMAIN Under(m) : Under(m)[n] = handlers[m][n]
      BY <2>1, Stack
    <3>2. \A n \in DOMAIN Under(m) : n \in DOMAIN handlers[m]
      BY <1>1, <3>1
    <3> QED BY <1>1, <3>1, <3>2
  <2>3. Resumed(m) \in Seq(Handler)
        /\ \A n \in DOMAIN Resumed(m) : Resumed(m)[n].wait => Resumed(m)[n].i <= Workers
    BY <2>2, NextWorkerType DEF Resumed
  <2>4. handlers' \in [Masters -> Seq(Handler)] /\ Waits'
    BY <2>1, <2>3, HandlersType
  <2>5. master' \in [Masters -> Master]
    <3> DEFINE at == IF master[m].at = "pause" /\ Under(m) = <<>> THEN "test" ELSE master[m].at
               x == [master[m] EXCEPT !.restart = RestartAfter(m), !.at = at]
    <3>1. at \in MasterAt /\ RestartAfter(m) \in BOOLEAN
      BY <1>1 DEF Master, MasterAt, RestartAfter
    <3>2. master' = [master EXCEPT ![m] = x]
      BY <1>7 DEF HandlerReturn
    <3> HIDE DEF at
    <3>3. x \in Master
      BY <1>1, <3>1 DEF Master
    <3> HIDE DEF x
    <3> QED BY <1>1, <3>2, <3>3
  <2> QED BY <1>1, <1>7, <2>4, <2>5, SameEvolves DEF HandlerReturn, MasterTyped
<1> QED BY <1>4, <1>5, <1>6, <1>7

\* Every step is one of these, and remembers haste.
LEMMA Steps ==
    ASSUME Next
    PROVE  /\ Remember
           /\ \/ \E c \in Commands : (Issue(c) \/ CliStep(c)) /\ UNCHANGED kids
              \/ \E m \in Masters : MasterStep(m)
              \/ \E k \in DOMAIN kids :
                    /\ KidStep(k) \/ Accept(k) \/ Close(k) \/ Sigint(k)
                    /\ UNCHANGED <<cliVars, masterVars>>
BY DEF Next, Environment, CliNext, MasterNext, KidNext, KidSigint

\* Every step is type correct, given what commands become.
LEMMA TypeStep == Typed /\ Births /\ [Next]_vars => Typed'
<1> SUFFICES ASSUME Typed, Births, [Next]_vars PROVE Typed'
  OBVIOUS
<1>1. CASE UNCHANGED vars
  BY <1>1 DEF Typed, TypeOK, Waits, vars, cliVars, masterVars
<1>2. CASE Next
  <2>1. hasty' \in BOOLEAN
    BY <1>2, Steps DEF Remember
  <2>2. ASSUME NEW c \in Commands, Issue(c) \/ CliStep(c), UNCHANGED kids PROVE Typed'
    BY <2>1, <2>2, CliType DEF Typed, TypeOK, Waits
  <2>3. ASSUME NEW m \in Masters, MasterStep(m) PROVE Typed'
    <3>1. MasterTyped
      <4>1. CASE PidStep(m)
        BY <4>1, PidStepType
      <4>2. CASE UNCHANGED cliVars
        BY <2>3, <4>1, <4>2, LoopType, HandlerType, PidStepType DEF MasterStep
      <4> QED BY <2>3, <4>1, <4>2 DEF MasterStep
    <3>2. cli' = cli
      BY <2>3 DEF MasterStep, PidStep, cliVars
    <3> QED BY <2>1, <3>1, <3>2 DEF Typed, TypeOK, MasterTyped
  <2>4. ASSUME NEW k \in DOMAIN kids, KidStep(k) \/ Accept(k) \/ Close(k) \/ Sigint(k),
               UNCHANGED <<cliVars, masterVars>>
        PROVE  Typed'
    <3>1. kids' \in Seq(Kid)
      BY <2>4, KidStepEvolves, SigintEvolves DEF Typed, TypeOK, Evolves
    <3> QED BY <2>1, <2>4, <3>1 DEF Typed, TypeOK, Waits, cliVars, masterVars
  <2> QED BY <1>2, <2>2, <2>3, <2>4, Steps
<1> QED BY <1>1, <1>2
-----------------------------------------------------------------------------
(***************************************************************************)
(* What commands become, and whose the workers are.                        *)
(***************************************************************************)
Family == Births /\ Parents

\* A master that goes on as before in hk_server_start, and its workers too.
LEMMA SameFamily ==
    ASSUME TypeOK, Family, Evolves, UNCHANGED <<cli, master>>
    PROVE  Family'
<1>1. \A k \in DOMAIN kids : kids[k] \in Kid
  BY DEF TypeOK
<1>2. DOMAIN kids' = DOMAIN kids
  BY DEF Evolves, TypeOK
<1>3. Births'
  BY DEF Family, Births
<1>4. ASSUME NEW k \in DOMAIN kids, ~kids'[k].is_forked /\ kids'[k].at # "returned"
      PROVE  ~kids[k].is_forked /\ kids[k].at # "returned"
  BY <1>4 DEF Evolves, Ended
<1>5. Parents'
  BY <1>2, <1>4 DEF Family, Parents, Evolves
<1> QED BY <1>3, <1>5 DEF Family

\* A master of workers goes on to another place of the start loop.
LEMMA OnwardFamily ==
    ASSUME TypeOK, Family, NEW m \in Masters, UNCHANGED <<cli, kids>>,
           master'[m].debug = master[m].debug,
           \A n \in Masters : n # m => master'[n] = master[n],
           master[m].at # "none",
           master'[m].at \notin {"none", "truncate", "write", "create"}
              \/ \A k \in DOMAIN kids : kids[k].master # m,
           master'[m].at # "none",
           master[m].debug => master'[m].at \notin {"fork", "assign", "forked", "pause", "test"},
           master[m].at = "run" => \/ master'[m].at = "run"
                                   \/ \A k \in DOMAIN kids : kids[k].master = m /\ ~kids[k].is_forked
                                                                => kids[k].at = "returned"
    PROVE  Family'
<1>1. ASSUME NEW k \in DOMAIN kids PROVE kids[k].master \in Masters
  <2>1. kids[k] \in Kid
    BY DEF TypeOK
  <2> QED BY <2>1 DEF Kid
<1>2. \A n \in Masters : master'[n].debug = master[n].debug
  OBVIOUS
<1>3. Births'
  BY <1>2 DEF Family, Births
<1>4. ASSUME NEW k \in DOMAIN kids
      PROVE  /\ master'[kids[k].master].at \notin {"none", "truncate", "write", "create"}
             /\ kids[k].is_forked <=> ~master'[kids[k].master].debug
             /\ ~kids[k].is_forked /\ kids[k].at # "returned" => master'[kids[k].master].at = "run"
  <2>1. /\ master[kids[k].master].at \notin {"none", "truncate", "write", "create"}
        /\ kids[k].is_forked <=> ~master[kids[k].master].debug
        /\ ~kids[k].is_forked /\ kids[k].at # "returned" => master[kids[k].master].at = "run"
    BY DEF Family, Parents
  <2> QED BY <1>1, <1>2, <2>1
<1>5. Parents'
  BY <1>4 DEF Family, Parents
<1> QED BY <1>3, <1>5 DEF Family

\* The commands, up to the fork of a master.
LEMMA CliFamily ==
    ASSUME TypeOK, Family, NEW c \in Commands, Issue(c) \/ CliStep(c), UNCHANGED kids
    PROVE  Family'
<1>1. cli \in [Commands -> Command] /\ master \in [Masters -> Master] /\ Masters \subseteq Commands
  BY MastersAssumption DEF TypeOK, Commands
<1>2. \A d \in Commands : d # c => cli'[d] = cli[d]
  BY <1>1 DEF Issue, CliStep, StopRead, StopKill, StopPoll, StartFork, Advances
<1>3. CASE StartFork(c)
  <2>1. cli[c].at = "go" /\ cli'[c].at = "done" /\ c \in Masters /\ master[c].at = "none"
    BY <1>1, <1>3 DEF StartFork, Advances, Family, Births
  <2>2. \A m \in Masters : m # c => master'[m] = master[m]
    BY <1>1, <1>3 DEF StartFork
  <2>3. master'[c].at = "truncate"
    BY <1>1, <1>3, <2>1 DEF StartFork, Master
  <2>4. Births'
    BY <1>1, <1>2, <2>1, <2>2, <2>3 DEF Family, Births
  <2>5. ASSUME NEW k \in DOMAIN kids PROVE master'[kids[k].master] = master[kids[k].master]
    <3>1. kids[k] \in Kid
      BY DEF TypeOK
    <3>2. kids[k].master \in Masters
      BY <3>1 DEF Kid
    <3>3. kids[k].master # c
      BY <2>1 DEF Family, Parents
    <3> QED BY <2>2, <3>2, <3>3
  <2>6. Parents'
    BY <2>5 DEF Family, Parents
  <2> QED BY <2>4, <2>6 DEF Family
<1>4. CASE Issue(c) \/ StopRead(c) \/ StopKill(c) \/ StopPoll(c)
  <2>1. UNCHANGED master
    BY <1>4 DEF Issue, StopRead, StopKill, StopPoll, masterVars
  <2>2. cli[c].at \in {"idle", "read", "kill", "poll"}
    BY <1>4 DEF Issue, StopRead, StopKill, StopPoll, Advances
  <2>3. cli'[c].at = "go" => c \in Masters
    BY <1>1, <1>4, MastersAssumption
       DEF Issue, StopRead, StopKill, StopPoll, Advances, Stopped, Command
  <2>4. Births'
    BY <1>1, <1>2, <2>1, <2>2, <2>3 DEF Family, Births
  <2>5. Parents'
    BY <2>1 DEF Family, Parents
  <2> QED BY <2>4, <2>5 DEF Family
<1> QED BY <1>3, <1>4 DEF CliStep

\* A worker is forked, or a "debug" server comes to run its own.
LEMMA NewFamily ==
    ASSUME TypeOK, Family, NEW m \in Masters, UNCHANGED cli,
           NEW x \in Kid, kids' = Append(kids, x), x.master = m,
           \A n \in Masters : n # m => master'[n] = master[n],
           master'[m].debug = master[m].debug,
           \/ master[m].at = "fork" /\ master'[m].at = "assign" /\ x.is_forked
           \/ master[m].at = "create" /\ master'[m].at = "run" /\ ~x.is_forked /\ master[m].debug
    PROVE  Family'
<1>1. kids \in Seq(Kid) /\ Len(kids) \in Nat /\ DOMAIN kids' = DOMAIN kids \cup {Len(kids) + 1}
      /\ kids'[Len(kids) + 1] = x /\ \A k \in DOMAIN kids : kids'[k] = kids[k]
  BY DEF TypeOK
<1>2. ASSUME NEW k \in DOMAIN kids PROVE kids[k].master \in Masters
  <2>1. kids[k] \in Kid
    BY DEF TypeOK
  <2> QED BY <2>1 DEF Kid
<1>3. Births'
  BY DEF Family, Births
<1>4. master[m].at = "fork" => ~master[m].debug
  BY DEF Family, Births
<1>5. master[m].at = "create" => \A k \in DOMAIN kids : kids[k].master # m
  BY DEF Family, Parents
<1>6. ASSUME NEW k \in DOMAIN kids'
      PROVE  /\ master'[kids'[k].master].at \notin {"none", "truncate", "write", "create"}
             /\ kids'[k].is_forked <=> ~master'[kids'[k].master].debug
             /\ ~kids'[k].is_forked /\ kids'[k].at # "returned" => master'[kids'[k].master].at = "run"
  <2>1. CASE k = Len(kids) + 1
    BY <1>1, <1>4, <2>1
  <2>2. CASE k \in DOMAIN kids
    <3>1. /\ master[kids[k].master].at \notin {"none", "truncate", "write", "create"}
          /\ kids[k].is_forked <=> ~master[kids[k].master].debug
          /\ ~kids[k].is_forked /\ kids[k].at # "returned" => master[kids[k].master].at = "run"
      BY <2>2 DEF Family, Parents
    <3>2. CASE kids[k].master = m
      BY <1>1, <1>4, <1>5, <2>2, <3>1, <3>2
    <3>3. CASE kids[k].master # m
      BY <1>1, <1>2, <2>2, <3>1, <3>3
    <3> QED BY <3>2, <3>3
  <2> QED BY <1>1, <2>1, <2>2
<1>7. ASSUME NEW k \in DOMAIN kids', NEW l \in DOMAIN kids',
             ~kids'[k].is_forked, kids'[k].master = kids'[l].master
      PROVE  k = l
  <2>1. CASE k \in DOMAIN kids /\ l \in DOMAIN kids
    BY <1>1, <1>7, <2>1 DEF Family, Parents
  <2>2. CASE k = Len(kids) + 1 /\ l \in DOMAIN kids
    BY <1>1, <1>5, <1>7, <2>2
  <2>3. CASE k \in DOMAIN kids /\ l = Len(kids) + 1
    <3>1. ~kids[k].is_forked /\ kids[k].master = m
      BY <1>1, <1>7, <2>3
    <3>2. master[m].debug
      BY <2>3, <3>1 DEF Family, Parents
    <3> QED BY <1>4, <1>5, <2>3, <3>1, <3>2
  <2> QED BY <1>1, <2>1, <2>2, <2>3
<1>8. Parents'
  BY <1>6, <1>7 DEF Parents
<1> QED BY <1>3, <1>8 DEF Family

\* The steps of a master.
LEMMA MasterFamily ==
    ASSUME Typed, Family, NEW m \in Masters, MasterStep(m)
    PROVE  Family'
<1>1. TypeOK /\ master \in [Masters -> Master] /\ master[m] \in Master /\ cli' = cli
  BY DEF Typed, TypeOK, MasterStep, PidStep, cliVars
<1>2. master[m].at \in {"truncate", "write", "create"} => \A k \in DOMAIN kids : kids[k].master # m
  BY DEF Family, Parents
<1>3. ASSUME NEW from \in MasterAt \ {"none", "run"}, NEW to \in MasterAt \ {"none"}, Goes(m, from, to),
             to \in {"truncate", "write", "create"} => from \in {"truncate", "write", "create"},
             to \notin {"fork", "assign", "forked", "pause", "test"}, UNCHANGED kids
      PROVE  Family'
  <2>1. /\ master[m].at = from /\ master'[m].at = to /\ master'[m].debug = master[m].debug
        /\ \A n \in Masters : n # m => master'[n] = master[n]
    BY <1>1, <1>3 DEF Goes, Master
  <2> QED BY <1>1, <1>2, <1>3, <2>1, OnwardFamily
<1>4. CASE WritePidOpen(m) /\ UNCHANGED kids
  BY <1>3, <1>4 DEF WritePidOpen, MasterAt
<1>5. CASE WritePidWrite(m) /\ UNCHANGED kids
  BY <1>3, <1>5 DEF WritePidWrite, MasterAt
<1>6. CASE ClearPid(m) /\ UNCHANGED kids
  BY <1>3, <1>6 DEF ClearPid, MasterAt
<1>7. CASE MasterExit(m) /\ UNCHANGED kids
  BY <1>3, <1>7 DEF MasterExit, MasterAt
<1>8. CASE RunReturns(m) /\ UNCHANGED kids
  <2>1. /\ master[m].at = "run" /\ master'[m].at = "clear" /\ master'[m].debug = master[m].debug
        /\ \A n \in Masters : n # m => master'[n] = master[n]
    BY <1>1, <1>8 DEF RunReturns, Goes, Master
  <2>2. \A k \in DOMAIN kids : kids[k].master = m /\ ~kids[k].is_forked => kids[k].at = "returned"
    BY <1>8 DEF RunReturns, Family, Parents
  <2> QED BY <1>1, <1>8, <2>1, <2>2, OnwardFamily
<1>9. CASE CreateWorkers(m)
  <2>1. /\ master[m].at = "create"
        /\ master'[m].at = IF master[m].debug THEN "run" ELSE "fork"
        /\ master'[m].debug = master[m].debug
        /\ \A n \in Masters : n # m => master'[n] = master[n]
    BY <1>1, <1>9 DEF CreateWorkers, Goes, Master
  <2>2. CASE ~master[m].debug
    BY <1>1, <1>9, <2>1, <2>2, OnwardFamily DEF CreateWorkers
  <2>3. CASE master[m].debug
    <3>1. kids' = Append(kids, OwnWorker(m))
      BY <1>9, <2>3 DEF CreateWorkers
    <3>2. OwnWorker(m) \in Kid
      BY NewKidType, WorkersAssumption
    <3>3. OwnWorker(m).master = m /\ ~OwnWorker(m).is_forked
      BY DEF OwnWorker, NewKid
    <3> QED BY <1>1, <2>1, <2>3, <3>1, <3>2, <3>3, NewFamily
  <2> QED BY <2>2, <2>3
<1>10. CASE Fork(m)
  <2>1. /\ master[m].at = "fork" /\ master'[m].at = "assign"
        /\ master'[m].debug = master[m].debug
        /\ \A n \in Masters : n # m => master'[n] = master[n]
    BY <1>1, <1>10 DEF Fork, Master
  <2>2. kids' = kids \/ kids' = Append(kids, NewKid(m, master[m].i))
    BY <1>10 DEF Fork
  <2>3. ~master[m].debug
    BY <2>1 DEF Family, Births
  <2>4. CASE kids' = kids
    BY <1>1, <2>1, <2>3, <2>4, OnwardFamily
  <2>5. CASE kids' = Append(kids, NewKid(m, master[m].i))
    <3>1. master[m].i \in 1 .. Workers
      BY <1>1 DEF Master
    <3>2. NewKid(m, master[m].i) \in Kid
      BY <3>1, NewKidType
    <3>3. NewKid(m, master[m].i).master = m /\ NewKid(m, master[m].i).is_forked
      BY DEF NewKid
    <3> QED BY <1>1, <2>1, <2>5, <3>2, <3>3, NewFamily
  <2> QED BY <2>2, <2>4, <2>5
<1>11. CASE AssignPid(m) \/ TestRestart(m)
  <2>1. /\ master[m].at \in {"assign", "test"} /\ master'[m].at \in {"fork", "forked", "clear"}
        /\ master'[m].debug = master[m].debug
        /\ \A n \in Masters : n # m => master'[n] = master[n]
    BY <1>1, <1>11 DEF AssignPid, TestRestart, Master
  <2>2. ~master[m].debug
    BY <2>1 DEF Family, Births
  <2>3. kids' = kids
    BY <1>11 DEF AssignPid, TestRestart
  <2> QED BY <1>1, <2>1, <2>2, <2>3, OnwardFamily
<1>12. CASE /\ UNCHANGED cliVars
            /\ (\E sig \in {"INT", "USR"} : Deliver(m, sig)) \/ StopWorker(m) \/ WaitWorker(m)
  <2>1. UNCHANGED master
    BY <1>12 DEF Deliver, StopWorker, WaitWorker
  <2> QED BY <1>1, <1>12, <2>1, HandlerType, SameFamily
<1>13. CASE UNCHANGED cliVars /\ HandlerReturn(m)
  <2>1. /\ master'[m].at = IF master[m].at = "pause" /\ Under(m) = <<>> THEN "test" ELSE master[m].at
        /\ master'[m].debug = master[m].debug
        /\ \A n \in Masters : n # m => master'[n] = master[n]
        /\ kids' = kids
    BY <1>1, <1>13 DEF HandlerReturn, Master
  <2>2. CASE master[m].at = "pause" /\ Under(m) = <<>>
    BY <1>1, <2>1, <2>2, OnwardFamily DEF Family, Births
  <2>3. CASE ~(master[m].at = "pause" /\ Under(m) = <<>>)
    <3>1. master'[m].at = master[m].at
      BY <2>1, <2>3
    <3>2. \A n \in Masters : master'[n].at = master[n].at /\ master'[n].debug = master[n].debug
      BY <2>1, <3>1
    <3>3. ASSUME NEW k \in DOMAIN kids PROVE kids[k].master \in Masters
      <4>1. kids[k] \in Kid
        BY <1>1 DEF TypeOK
      <4> QED BY <4>1 DEF Kid
    <3> QED BY <1>1, <2>1, <3>2, <3>3 DEF Family, Births, Parents
  <2> QED BY <2>2, <2>3
<1>14. CASE Pause(m) /\ UNCHANGED kids
  <2>1. /\ master[m].at = "forked" /\ master'[m].at = "pause"
        /\ master'[m].debug = master[m].debug
        /\ \A n \in Masters : n # m => master'[n] = master[n]
    BY <1>1, <1>14 DEF Pause, Goes, Master
  <2>2. ~master[m].debug
    BY <2>1 DEF Family, Births
  <2> QED BY <1>1, <1>14, <2>1, <2>2, OnwardFamily
<1> QED BY <1>4, <1>5, <1>6, <1>7, <1>8, <1>9, <1>10, <1>11, <1>12, <1>13, <1>14 DEF MasterStep, PidStep

\* Every step.
LEMMA FamilyStep == Typed /\ Family /\ [Next]_vars => Family'
<1> SUFFICES ASSUME Typed, Family, [Next]_vars PROVE Family'
  OBVIOUS
<1>1. TypeOK /\ kids \in Seq(Kid)
  BY DEF Typed, TypeOK
<1>2. CASE UNCHANGED vars
  BY <1>1, <1>2, SameFamily, SameEvolves DEF vars, cliVars, masterVars
<1>3. CASE Next
  <2>1. ASSUME NEW k \in DOMAIN kids, KidStep(k) \/ Accept(k) \/ Close(k) \/ Sigint(k),
               UNCHANGED <<cliVars, masterVars>>
        PROVE  Family'
    BY <1>1, <2>1, KidStepEvolves, SigintEvolves, SameFamily DEF cliVars, masterVars
  <2> QED BY <1>1, <1>3, <2>1, Steps, CliFamily, MasterFamily
<1> QED BY <1>2, <1>3
-----------------------------------------------------------------------------
(***************************************************************************)
(* The pid file.                                                           *)
(***************************************************************************)
\* Unless a step was hasty, no two commands are on their way to the pid file.
LEMMA NotHasty ==
    ASSUME Remember, ~hasty'
    PROVE  ~hasty /\ \A c, d \in Commands : Starting(c)' /\ Starting(d)' => c = d
<1>1. ~hasty /\ ~Hasty'
  BY Zenon DEF Remember
<1>2. ASSUME NEW c \in Commands, NEW d \in Commands, Starting(c)', Starting(d)', c # d
      PROVE  FALSE
  BY <1>1, <1>2, Zenon DEF Hasty
<1> QED BY <1>1, <1>2

\* Workers that have exited stay so, whoever else is forked.
Grows ==
    \A k \in DOMAIN kids :
        /\ k \in DOMAIN kids' /\ kids'[k].master = kids[k].master
        /\ kids'[k].is_forked = kids[k].is_forked
        /\ kids[k].at = "exited" => kids'[k].at = "exited"

LEMMA EvolvesGrows == ASSUME kids \in Seq(Kid), Evolves PROVE Grows
BY DEF Evolves, Grows, Ended

\* A process that exists has existed, unless it has just been made.
LEMMA ExistsKept ==
    ASSUME Grows, NEW m, Exists(m)', master[m].at \notin {"none", "exited"}
    PROVE  Exists(m)
BY DEF Grows, Exists

\* A step of no consequence for the pid file.
LEMMA SamePid ==
    ASSUME PidTold, Remember, Grows, pidfile' = pidfile,
           \A c \in Commands : Starting(c)' => Starting(c),
           \A m \in Masters :
               \/ master'[m].at = master[m].at
               \/ Serving(m) /\ master'[m].at \notin {"none", "truncate", "write"}
               \/ master[m].at = "end" /\ master'[m].at = "exited"
    PROVE  PidTold'
<1> SUFFICES ASSUME ~hasty'
             PROVE  /\ \A c, d \in Commands : Starting(c)' /\ Starting(d)' => c = d
                    /\ \A m \in Masters : Exists(m)' /\ Serving(m)' => pidfile' = m
                    /\ \A c \in Commands : \A m \in Masters : Starting(c)' /\ Active(m)' => m = c
  BY DEF PidTold
<1>1. ~hasty /\ \A c, d \in Commands : Starting(c)' /\ Starting(d)' => c = d
  BY NotHasty
<1>2. ASSUME NEW m \in Masters, Exists(m)' PROVE Exists(m) /\ (Active(m)' => Active(m))
  BY <1>2, ExistsKept DEF Exists, Active, Serving
<1>3. ASSUME NEW m \in Masters, Exists(m)', Serving(m)' PROVE Exists(m) /\ Serving(m)
  BY <1>2, <1>3 DEF Serving, Exists
<1>4. \A m \in Masters : Active(m)' => Active(m)
  BY <1>2 DEF Active
<1> QED BY <1>1, <1>3, <1>4 DEF PidTold

\* A command finds no master in the pid file and goes on to become one.
LEMMA GoPid ==
    ASSUME TypeOK, PidTold, Remember, NEW c \in Commands, ReadPid = NoPid,
           UNCHANGED <<kids, pidfile, master>>, cli'[c].at = "go",
           \A d \in Commands : d # c => cli'[d] = cli[d]
    PROVE  PidTold'
<1> SUFFICES ASSUME ~hasty'
             PROVE  /\ \A d, e \in Commands : Starting(d)' /\ Starting(e)' => d = e
                    /\ \A m \in Masters : Exists(m)' /\ Serving(m)' => pidfile' = m
                    /\ \A d \in Commands : \A m \in Masters : Starting(d)' /\ Active(m)' => m = d
  BY DEF PidTold
<1>1. ~hasty /\ \A d, e \in Commands : Starting(d)' /\ Starting(e)' => d = e
  BY NotHasty
<1>2. ASSUME NEW m \in Masters
      PROVE  (Exists(m)' <=> Exists(m)) /\ (Serving(m)' <=> Serving(m)) /\ (Active(m)' <=> Active(m))
  BY DEF Exists, Serving, Active
<1>3. \A m \in Masters : ~(Exists(m) /\ Serving(m))
  BY <1>1, MastersAssumption DEF PidTold, ReadPid
<1>4. Starting(c)'
  BY DEF Starting
<1>5. ASSUME NEW m \in Masters, Active(m) PROVE Starting(m)' /\ m \in Commands
  <2>1. master[m].at \in {"truncate", "write"}
    BY <1>3, <1>5 DEF Active, Serving, Exists
  <2> QED BY <2>1, MastersAssumption DEF Starting, Commands
<1> QED BY <1>1, <1>2, <1>3, <1>4, <1>5

\* The commands.
LEMMA CliPid ==
    ASSUME TypeOK, Family, PidTold, Remember, NEW c \in Commands, Issue(c) \/ CliStep(c),
           UNCHANGED kids
    PROVE  PidTold'
<1>1. cli \in [Commands -> Command] /\ master \in [Masters -> Master] /\ kids \in Seq(Kid)
  BY DEF TypeOK
<1>2. \A d \in Commands : d # c => cli'[d] = cli[d]
  BY <1>1 DEF Issue, CliStep, StopRead, StopKill, StopPoll, StartFork, Advances
<1>3. CASE StartFork(c)
  <2>1. /\ cli[c].at = "go" /\ cli'[c].at = "done" /\ c \in Masters /\ master[c].at = "none"
        /\ UNCHANGED <<kids, pidfile>>
    BY <1>1, <1>3 DEF StartFork, Advances, Family, Births
  <2>2. \A m \in Masters : m # c => master'[m] = master[m]
    BY <1>1, <1>3 DEF StartFork
  <2>3. master'[c].at = "truncate"
    BY <1>1, <1>3, <2>1 DEF StartFork, Master
  <2> SUFFICES ASSUME ~hasty'
               PROVE  /\ \A d, e \in Commands : Starting(d)' /\ Starting(e)' => d = e
                      /\ \A m \in Masters : Exists(m)' /\ Serving(m)' => pidfile' = m
                      /\ \A d \in Commands : \A m \in Masters : Starting(d)' /\ Active(m)' => m = d
    BY DEF PidTold
  <2>4. ~hasty /\ \A d, e \in Commands : Starting(d)' /\ Starting(e)' => d = e
    BY NotHasty
  <2>5. Starting(c) /\ Starting(c)'
    BY <2>1, <2>3 DEF Starting
  <2>6. ASSUME NEW m \in Masters, m # c
        PROVE  (Exists(m)' <=> Exists(m)) /\ (Serving(m)' <=> Serving(m)) /\ (Active(m)' <=> Active(m))
    BY <2>1, <2>2, <2>6 DEF Exists, Serving, Active
  <2>7. ~Serving(c)'
    BY <2>3 DEF Serving
  <2>8. \A m \in Masters : Active(m)' => m = c
    BY <2>4, <2>5, <2>6 DEF PidTold
  <2> QED BY <2>1, <2>4, <2>5, <2>6, <2>7, <2>8 DEF PidTold
<1>4. CASE Issue(c) \/ StopRead(c) \/ StopKill(c) \/ StopPoll(c)
  <2>1. UNCHANGED <<master, pidfile>>
    BY <1>4 DEF Issue, StopRead, StopKill, StopPoll, masterVars
  <2>2. CASE cli'[c].at # "go"
    <3>1. \A d \in Commands : Starting(d)' => Starting(d)
      BY <1>2, <2>1, <2>2 DEF Starting
    <3>2. Grows
      BY <1>1, SameEvolves, EvolvesGrows
    <3> QED BY <2>1, <3>1, <3>2, SamePid
  <2>3. CASE cli'[c].at = "go"
    <3>1. ReadPid = NoPid
      BY <1>1, <1>4, <2>3
         DEF Issue, StopRead, StopKill, StopPoll, Advances, Stopped, Command
    <3> QED BY <1>2, <2>1, <2>3, <3>1, GoPid
  <2> QED BY <2>2, <2>3
<1> QED BY <1>3, <1>4 DEF CliStep

\* The master writes its pid, or clears it: there is no other to miss it.
LEMMA OwnPid ==
    ASSUME TypeOK, Family, PidTold, Remember, NEW m \in Masters,
           WritePidOpen(m) \/ WritePidWrite(m) \/ ClearPid(m), UNCHANGED <<kids, cli>>
    PROVE  PidTold'
<1>1. /\ master \in [Masters -> Master] /\ kids \in Seq(Kid) /\ Masters \subseteq Commands
      /\ master[m].at \in {"truncate", "write", "clear"}
      /\ master'[m].at = CASE master[m].at = "truncate" -> "write"
                           [] master[m].at = "write"    -> "create"
                           [] master[m].at = "clear"    -> "end"
      /\ pidfile' = IF master[m].at = "write" THEN m ELSE NoPid
      /\ \A n \in Masters : n # m => master'[n] = master[n]
  BY MastersAssumption
     DEF TypeOK, Commands, WritePidOpen, WritePidWrite, ClearPid, Goes, Master
<1> SUFFICES ASSUME ~hasty'
             PROVE  /\ \A d, e \in Commands : Starting(d)' /\ Starting(e)' => d = e
                    /\ \A n \in Masters : Exists(n)' /\ Serving(n)' => pidfile' = n
                    /\ \A d \in Commands : \A n \in Masters : Starting(d)' /\ Active(n)' => n = d
  BY DEF PidTold
<1>2. ~hasty /\ \A d, e \in Commands : Starting(d)' /\ Starting(e)' => d = e
  BY NotHasty
<1>3. Exists(m) /\ Active(m)
  <2>1. ASSUME NEW k \in DOMAIN kids, kids[k].master = m, ~kids[k].is_forked, kids[k].at = "exited"
        PROVE  FALSE
    BY <1>1, <2>1 DEF Family, Parents
  <2> QED BY <1>1, <2>1 DEF Exists, Active
<1>4. ASSUME NEW n \in Masters
      PROVE  /\ Exists(n)' => Exists(n)
             /\ n # m => (Serving(n)' => Serving(n)) /\ (Active(n)' => Active(n))
  BY <1>1 DEF Exists, Serving, Active
<1>5. \A d \in Commands : Starting(d)' => Starting(d)
  BY <1>1 DEF Starting
<1>6. \A n \in Masters : n # m => ~(Exists(n) /\ Serving(n))
  <2>1. CASE master[m].at = "clear"
    BY <1>1, <1>2, <1>3, <2>1 DEF PidTold, Serving
  <2>2. CASE master[m].at \in {"truncate", "write"}
    <3>1. Starting(m) /\ m \in Commands
      BY <1>1, <2>2 DEF Starting
    <3>2. ASSUME NEW n \in Masters, n # m, Exists(n), Serving(n) PROVE FALSE
      BY <1>2, <3>1, <3>2 DEF PidTold, Serving, Active
    <3> QED BY <3>2
  <2> QED BY <1>1, <2>1, <2>2
<1>7. \A n \in Masters : Exists(n)' /\ Serving(n)' => pidfile' = n
  BY <1>1, <1>4, <1>6 DEF Serving
<1>8. \A d \in Commands : \A n \in Masters : Starting(d)' /\ Active(n)' => n = d
  <2>1. ASSUME NEW d \in Commands, NEW n \in Masters, Starting(d)', Active(n)' PROVE n = d
    <3>1. d = m
      BY <1>2, <1>3, <1>5, <2>1 DEF PidTold
    <3>2. Active(n)
      BY <1>3, <1>4, <2>1
    <3> QED BY <1>2, <1>5, <2>1, <3>1, <3>2 DEF PidTold
  <2> QED BY <2>1
<1> QED BY <1>2, <1>7, <1>8

\* The steps of a master.
LEMMA MasterPid ==
    ASSUME Typed, Family, PidTold, Remember, NEW m \in Masters, MasterStep(m)
    PROVE  PidTold'
<1>1. TypeOK /\ master \in [Masters -> Master] /\ kids \in Seq(Kid) /\ cli' = cli
  BY DEF Typed, TypeOK, MasterStep, PidStep, cliVars
<1>2. CASE (WritePidOpen(m) \/ WritePidWrite(m) \/ ClearPid(m)) /\ UNCHANGED kids
  BY <1>1, <1>2, OwnPid
<1>3. ASSUME Grows, pidfile' = pidfile, \A n \in Masters : n # m => master'[n].at = master[n].at,
             \/ master'[m].at = master[m].at
             \/ Serving(m) /\ master'[m].at \notin {"none", "truncate", "write"}
             \/ master[m].at = "end" /\ master'[m].at = "exited"
      PROVE  PidTold'
  <2>1. \A c \in Commands : Starting(c)' => Starting(c)
    BY <1>1, <1>3 DEF Starting
  <2> QED BY <1>3, <2>1, SamePid
<1>4. CASE (RunReturns(m) \/ Pause(m) \/ MasterExit(m)) /\ UNCHANGED kids
  <2>1. /\ pidfile' = pidfile /\ \A n \in Masters : n # m => master'[n] = master[n]
        /\ \/ master[m].at = "run" /\ master'[m].at = "clear"
           \/ master[m].at = "forked" /\ master'[m].at = "pause"
           \/ master[m].at = "end" /\ master'[m].at = "exited"
    BY <1>1, <1>4 DEF RunReturns, Pause, MasterExit, Goes, Master
  <2>2. Grows
    BY <1>1, <1>4, SameEvolves, EvolvesGrows
  <2> QED BY <1>3, <2>1, <2>2 DEF Serving
<1>5. CASE (CreateWorkers(m) \/ Fork(m) \/ AssignPid(m) \/ TestRestart(m)) /\ UNCHANGED cliVars
  <2>1. /\ pidfile' = pidfile /\ \A n \in Masters : n # m => master'[n] = master[n]
        /\ master[m].at \in {"create", "fork", "assign", "test"}
        /\ master'[m].at \in {"run", "fork", "assign", "forked", "pause", "clear"}
    BY <1>1, <1>5 DEF CreateWorkers, Fork, AssignPid, TestRestart, Goes, Master, cliVars
  <2>2. Grows
    <3>1. kids' = kids \/ \E x : kids' = Append(kids, x)
      BY <1>5 DEF CreateWorkers, Fork, AssignPid, TestRestart
    <3>2. ASSUME NEW x, kids' = Append(kids, x) PROVE Grows
      BY <1>1, <3>2 DEF Grows
    <3> QED BY <1>1, <3>1, <3>2, SameEvolves, EvolvesGrows
  <2> QED BY <1>3, <2>1, <2>2 DEF Serving
<1>6. CASE /\ UNCHANGED cliVars
           /\ \/ \E sig \in {"INT", "USR"} : Deliver(m, sig)
              \/ StopWorker(m) \/ WaitWorker(m) \/ HandlerReturn(m)
  <2>1. Grows
    BY <1>1, <1>6, HandlerType, EvolvesGrows
  <2>2. /\ pidfile' = pidfile /\ \A n \in Masters : n # m => master'[n] = master[n]
        /\ \/ master'[m].at = master[m].at
           \/ master[m].at = "pause" /\ master'[m].at = "test"
    BY <1>1, <1>6 DEF Deliver, StopWorker, WaitWorker, HandlerReturn, Master, cliVars
  <2> QED BY <1>3, <2>1, <2>2 DEF Serving
<1> QED BY <1>2, <1>4, <1>5, <1>6 DEF MasterStep, PidStep

\* Every step.
LEMMA PidToldStep == Typed /\ Family /\ PidTold /\ [Next]_vars => PidTold'
<1> SUFFICES ASSUME Typed, Family, PidTold, [Next]_vars PROVE PidTold'
  OBVIOUS
<1>1. TypeOK /\ kids \in Seq(Kid)
  BY DEF Typed, TypeOK
<1>2. CASE UNCHANGED vars
  BY <1>2 DEF PidTold, Starting, Exists, Serving, Active, vars, cliVars, masterVars
<1>3. CASE Next
  <2>1. ASSUME NEW k \in DOMAIN kids, KidStep(k) \/ Accept(k) \/ Close(k) \/ Sigint(k), Remember,
               UNCHANGED <<cliVars, masterVars>>
        PROVE  PidTold'
    <3>1. Grows
      BY <1>1, <2>1, KidStepEvolves, SigintEvolves, EvolvesGrows
    <3>2. \A c \in Commands : Starting(c)' => Starting(c)
      BY <2>1 DEF Starting, cliVars, masterVars
    <3> QED BY <2>1, <3>1, <3>2, SamePid DEF cliVars, masterVars
  <2> QED BY <1>1, <1>3, <2>1, Steps, CliPid, MasterPid
<1> QED BY <1>2, <1>3
-----------------------------------------------------------------------------
(***************************************************************************)
(* Workers and the pids their master holds.                                *)
(***************************************************************************)
\* The workers change, or one is added that has not been waited for.
LEMMA KidsStep ==
    ASSUME Typed, Next
    PROVE  \/ Evolves
           \/ \E m \in Masters, x \in Kid : kids' = Append(kids, x) /\ ~x.reaped
<1>1. kids \in Seq(Kid) /\ master \in [Masters -> Master]
  BY DEF Typed, TypeOK
<1>2. CASE UNCHANGED kids
  BY <1>1, <1>2, SameEvolves
<1>3. ASSUME NEW k \in DOMAIN kids, KidStep(k) \/ Accept(k) \/ Close(k) \/ Sigint(k) PROVE Evolves
  BY <1>1, <1>3, KidStepEvolves, SigintEvolves
<1>4. ASSUME NEW m \in Masters, CreateWorkers(m) \/ Fork(m)
      PROVE  UNCHANGED kids \/ \E x \in Kid : kids' = Append(kids, x) /\ ~x.reaped
  <2>1. master[m].i \in 1 .. Workers /\ 1 \in 1 .. Workers
    <3>1. master[m] \in Master
      BY <1>1
    <3> QED BY <3>1, WorkersAssumption DEF Master
  <2>2. OwnWorker(m) \in Kid /\ NewKid(m, master[m].i) \in Kid
    BY <2>1, NewKidType
  <2>3. ~OwnWorker(m).reaped /\ ~NewKid(m, master[m].i).reaped
    BY DEF OwnWorker, NewKid
  <2> QED BY <1>4, <2>2, <2>3 DEF CreateWorkers, Fork
<1>5. ASSUME NEW m \in Masters, MasterStep(m)
      PROVE  Evolves \/ \E x \in Kid : kids' = Append(kids, x) /\ ~x.reaped
  <2>1. CASE PidStep(m) \/ AssignPid(m) \/ TestRestart(m)
    BY <1>1, <2>1, SameEvolves DEF PidStep, AssignPid, TestRestart
  <2>2. CASE CreateWorkers(m) \/ Fork(m)
    BY <1>1, <1>4, <2>2, SameEvolves
  <2>3. CASE /\ UNCHANGED cliVars
             /\ \/ \E sig \in {"INT", "USR"} : Deliver(m, sig)
                \/ StopWorker(m) \/ WaitWorker(m) \/ HandlerReturn(m)
    BY <2>3, HandlerType
  <2> QED BY <1>5, <2>1, <2>2, <2>3 DEF MasterStep
<1> QED BY <1>2, <1>3, <1>5, Steps

\* A worker is waited for when it has exited.
LEMMA ReapedStep == Typed /\ Reaped /\ [Next]_vars => Reaped'
<1> SUFFICES ASSUME Typed, Reaped, [Next]_vars PROVE Reaped'
  OBVIOUS
<1>1. kids \in Seq(Kid)
  BY DEF Typed, TypeOK
<1>2. CASE Evolves
  BY <1>1, <1>2 DEF Reaped, Evolves, Ended
<1>3. ASSUME NEW x, kids' = Append(kids, x), ~x.reaped PROVE Reaped'
  BY <1>1, <1>3 DEF Reaped
<1>4. CASE UNCHANGED vars
  BY <1>4 DEF Reaped, vars
<1> QED BY <1>2, <1>3, <1>4, KidsStep

\* Where no handler may be that is not provided for.
LEMMA EaseStep ==
    ASSUME Typed', Remember, ~hasty'
    PROVE  \A m \in Masters : AtEase(m)'
<1>1. ~Hasty'
  BY Zenon DEF Remember
<1>2. ASSUME NEW m \in Masters, (handlers[m] # <<>>)' PROVE Len(handlers'[m]) = 1
  <2>1. ~(Len(handlers'[m]) > 1)
    BY <1>1, Zenon DEF Hasty
  <2>2. handlers'[m] \in Seq(Handler)
    BY DEF Typed, TypeOK
  <2>3. Len(handlers'[m]) \in Nat /\ Len(handlers'[m]) # 0
    BY <1>2, <2>2
  <2>4. \A n \in Nat : n # 0 /\ ~(n > 1) => n = 1
    OBVIOUS
  <2> QED BY <2>1, <2>3, <2>4, Zenon
<1>3. ASSUME NEW m \in Masters, (handlers[m] # <<>>)'
      PROVE  (master[m].at \in {"pause", "run", "test", "clear", "end"})'
  <2>1. (master[m].at \in Ready(handlers[m][1].sig))'
    BY <1>1, <1>3, Zenon DEF Hasty
  <2> QED BY <2>1 DEF Ready
<1> QED BY <1>2, <1>3 DEF AtEase

\* What a master does leaves the others' workers as they are held.
LEMMA OthersHold ==
    ASSUME kids \in Seq(Kid), NEW m, HoldsAll(m),
           UNCHANGED <<master[m], handlers[m], wpid[m]>>,
           Evolves \/ \E x : kids' = Append(kids, x) /\ x.master # m
    PROVE  HoldsAll(m)'
<1>1. CASE Evolves
  BY <1>1 DEF Evolves, Ended, HoldsAll, HeldBy, Live, Top
<1>2. ASSUME NEW x, kids' = Append(kids, x), x.master # m PROVE HoldsAll(m)'
  <2>1. ASSUME NEW k \in DOMAIN kids', kids'[k].master = m
        PROVE  k \in DOMAIN kids /\ kids'[k] = kids[k]
    BY <1>2, <2>1
  <2> QED BY <2>1 DEF HoldsAll, HeldBy, Live, Top
<1> QED BY <1>1, <1>2

\* A master elsewhere than in the start loop has no worker alive.
LEMMA NoneHeld ==
    ASSUME kids \in Seq(Kid), NEW m, HoldsAll(m), master[m].at \notin {"fork", "assign", "forked", "pause"},
           Evolves \/ \E x : kids' = Append(kids, x) /\ ~x.is_forked
    PROVE  HoldsAll(m)'
<1>1. ASSUME NEW k \in DOMAIN kids, kids[k].master = m PROVE ~Live(k)
  BY <1>1 DEF HoldsAll, HeldBy
<1>2. CASE Evolves
  BY <1>1, <1>2 DEF Evolves, Ended, HoldsAll, Live
<1>3. ASSUME NEW x, kids' = Append(kids, x), ~x.is_forked PROVE HoldsAll(m)'
  <2>1. ASSUME NEW k \in DOMAIN kids', Live(k)' PROVE k \in DOMAIN kids /\ kids'[k] = kids[k]
    BY <1>3, <2>1 DEF Live
  <2> QED BY <1>1, <2>1 DEF HoldsAll, Live
<1> QED BY <1>2, <1>3

\* hk_worker_fork_and_run, and the assignment of what it returns.
LEMMA ForkHolds ==
    ASSUME Typed, NEW m \in Masters, HoldsAll(m), Fork(m) \/ AssignPid(m)
    PROVE  HoldsAll(m)'
<1>1. /\ kids \in Seq(Kid) /\ Len(kids) \in Nat
      /\ master \in [Masters -> Master] /\ master[m] \in Master
      /\ wpid \in [Masters -> [1 .. Workers -> Nat \cup {Failed}]]
      /\ wpid[m] \in [1 .. Workers -> Nat \cup {Failed}]
  BY DEF Typed, TypeOK
<1>2. master[m].i \in 1 .. Workers /\ \A k \in DOMAIN kids : kids[k].i \in 1 .. Workers
  <2>1. ASSUME NEW k \in DOMAIN kids PROVE kids[k].i \in 1 .. Workers
    <3>1. kids[k] \in Kid
      BY <1>1
    <3> QED BY <3>1 DEF Kid
  <2> QED BY <1>1, <2>1 DEF Master
<1>3. CASE Fork(m)
  <2>1. PICK child \in {NoPid, Failed, Len(kids) + 1} :
          /\ kids' = IF child \in {NoPid, Failed} THEN kids ELSE Append(kids, NewKid(m, master[m].i))
          /\ master' = [master EXCEPT ![m].at = "assign", ![m].child = child]
    BY <1>3 DEF Fork
  <2>2. /\ master[m].at = "fork" /\ handlers[m] = <<>> /\ UNCHANGED <<handlers, wpid>>
        /\ master'[m].at = "assign" /\ master'[m].child = child /\ master'[m].i = master[m].i
    BY <1>1, <1>3, <2>1 DEF Fork, Master
  <2>3. ASSUME NEW k \in DOMAIN kids, kids'[k] = kids[k], Live(k)', kids[k].master = m
        PROVE  HeldBy(m, k)'
    <3>1. HeldBy(m, k)
      BY <2>3 DEF HoldsAll, Live
    <3> QED BY <1>2, <2>2, <2>3, <3>1 DEF HeldBy, Top
  <2>4. CASE kids' = kids
    BY <2>3, <2>4 DEF HoldsAll
  <2>5. CASE kids' = Append(kids, NewKid(m, master[m].i)) /\ child = Len(kids) + 1
    <3>1. /\ \A k \in DOMAIN kids : kids'[k] = kids[k]
          /\ \A k \in DOMAIN kids' : k \in DOMAIN kids \/ k = Len(kids) + 1
          /\ kids'[Len(kids) + 1] = NewKid(m, master[m].i)
      BY <1>1, <2>5
    <3>2. kids'[Len(kids) + 1].i = master[m].i
      BY <3>1 DEF NewKid
    <3>3. ASSUME NEW k, k = Len(kids) + 1 PROVE HeldBy(m, k)'
      BY <1>2, <2>2, <2>5, <3>2, <3>3 DEF HeldBy
    <3>4. ASSUME NEW k \in DOMAIN kids', Live(k)', kids'[k].master = m PROVE HeldBy(m, k)'
      BY <2>3, <3>1, <3>3, <3>4
    <3> QED BY <3>4 DEF HoldsAll
  <2> QED BY <2>1, <2>4, <2>5
<1>4. CASE AssignPid(m)
  <2> DEFINE i == master[m].i
  <2>1. /\ master[m].at = "assign" /\ handlers[m] = <<>> /\ UNCHANGED <<kids, handlers>>
        /\ IF i = Workers THEN master'[m].at = "forked"
                          ELSE master'[m].at = "fork" /\ master'[m].i = i + 1
        /\ wpid'[m][i] = master[m].child
        /\ \A j \in 1 .. Workers : j # i => wpid'[m][j] = wpid[m][j]
    BY <1>1, <1>2, <1>4 DEF AssignPid, Master
  <2>2. ASSUME NEW k \in DOMAIN kids, Live(k), kids[k].master = m PROVE HeldBy(m, k)'
    <3>1. HeldBy(m, k)
      BY <2>2 DEF HoldsAll
    <3>2. kids[k].i <= i /\ wpid'[m][kids[k].i] = k
      BY <1>2, <2>1, <3>1 DEF HeldBy
    <3> QED BY <1>2, <2>1, <3>2 DEF HeldBy, Top
  <2> QED BY <2>1, <2>2 DEF HoldsAll, Live
<1> QED BY <1>3, <1>4

\* hk_server_stop_workers: the handler passes a worker when that has exited.
LEMMA HandlerHolds ==
    ASSUME Typed, Typed', Reaped, NEW m \in Masters, AtEase(m), AtEase(m)', HoldsAll(m),
           master[m].at = "pause", ~master[m].debug, UNCHANGED cliVars,
           \/ \E sig \in {"INT", "USR"} : Deliver(m, sig)
           \/ StopWorker(m) \/ WaitWorker(m) \/ HandlerReturn(m)
    PROVE  HoldsAll(m)'
<1>1. /\ kids \in Seq(Kid) /\ kids' \in Seq(Kid)
      /\ handlers \in [Masters -> Seq(Handler)] /\ handlers[m] \in Seq(Handler)
      /\ wpid \in [Masters -> [1 .. Workers -> Nat \cup {Failed}]]
      /\ wpid[m] \in [1 .. Workers -> Nat \cup {Failed}]
      /\ master \in [Masters -> Master]
  BY DEF Typed, TypeOK
<1>2. Evolves
  BY HandlerType
<1>3. ASSUME NEW k \in DOMAIN kids PROVE kids[k].i \in 1 .. Workers
  <2>1. kids[k] \in Kid
    BY <1>1
  <2> QED BY <2>1 DEF Kid
<1>4. ASSUME NEW k \in DOMAIN kids', Live(k)', kids'[k].master = m
      PROVE  /\ k \in DOMAIN kids /\ Live(k) /\ kids[k].master = m /\ kids'[k].i = kids[k].i
             /\ wpid[m][kids[k].i] = k /\ k \in Nat \ {0}
             /\ handlers[m] # <<>> => Top(m).i <= kids[k].i
  <2>1. k \in DOMAIN kids /\ Live(k) /\ kids[k].master = m /\ kids'[k].i = kids[k].i
        /\ k \in Nat \ {0}
    BY <1>1, <1>2, <1>4 DEF Evolves, Ended, Live
  <2>2. HeldBy(m, k)
    BY <2>1 DEF HoldsAll
  <2> QED BY <2>1, <2>2 DEF HeldBy
<1>5. ASSUME master'[m] = master[m], wpid' = wpid,
             handlers'[m] # <<>> => \A k \in DOMAIN kids' :
                 Live(k)' /\ kids'[k].master = m => Top(m)'.i <= kids[k].i
      PROVE  HoldsAll(m)'
  BY <1>4, <1>5 DEF HoldsAll, HeldBy
<1>6. ASSUME NEW sig \in {"INT", "USR"}, Deliver(m, sig) PROVE HoldsAll(m)'
  <2>1. handlers'[m] = Append(handlers[m], [sig |-> sig, wait |-> FALSE, i |-> 1])
        /\ master' = master /\ wpid' = wpid
    BY <1>1, <1>6 DEF Deliver
  <2>2. Top(m)'.i = 1
    BY <1>1, <2>1 DEF Top
  <2>3. \A k \in DOMAIN kids' : Live(k)' /\ kids'[k].master = m => Top(m)'.i <= kids[k].i
    BY <1>3, <1>4, <2>2
  <2> QED BY <1>5, <2>1, <2>3
<1>7. ASSUME handlers[m] # <<>>, handlers' = [handlers EXCEPT ![m] = NextWorker(@)],
             Top(m).i <= Workers, \A k \in DOMAIN kids' : Live(k)' /\ kids'[k].master = m
                                                             => kids[k].i # Top(m).i
      PROVE  \A k \in DOMAIN kids' : Live(k)' /\ kids'[k].master = m => Top(m)'.i <= kids[k].i
  <2> DEFINE l == Len(handlers[m])
  <2>1. l \in DOMAIN handlers[m] /\ Top(m) \in Handler /\ Top(m) = handlers[m][l]
    BY <1>1, <1>7, Stack DEF Top
  <2>2. /\ handlers'[m] = [handlers[m] EXCEPT ![l] = [handlers[m][l] EXCEPT !.i = @ + 1, !.wait = FALSE]]
    BY <1>1, <1>7, <2>1 DEF NextWorker
  <2>3. Len(handlers'[m]) = l /\ handlers'[m][l] = [handlers[m][l] EXCEPT !.i = @ + 1, !.wait = FALSE]
    BY <1>1, <2>1, <2>2
  <2>4. Top(m)'.i = Top(m).i + 1 /\ Top(m).i \in Int
    BY <2>1, <2>3 DEF Top, Handler
  <2> QED BY <1>3, <1>4, <1>7, <2>4
<1>8. CASE StopWorker(m)
  <2> DEFINE i == Top(m).i  pid == wpid[m][i]
  <2>1. handlers[m] # <<>> /\ i <= Last(m) /\ master' = master /\ wpid' = wpid /\ Last(m) <= Workers
    BY <1>8, WorkersAssumption DEF StopWorker, Last
  <2>2. i \in 1 .. Workers
    BY <2>1, Stack, WorkersAssumption DEF Handler, Last
  <2>3. CASE pid = NoPid
    <3>1. handlers' = [handlers EXCEPT ![m] = NextWorker(@)]
      BY <1>8, <2>3 DEF StopWorker, MarkWorker
    <3>2. \A k \in DOMAIN kids' : Live(k)' /\ kids'[k].master = m => kids[k].i # Top(m).i
      BY <1>4, <2>3 DEF NoPid
    <3> QED BY <1>5, <1>7, <2>1, <2>2, <3>1, <3>2
  <2>4. CASE pid # NoPid
    <3> DEFINE l == Len(handlers[m])
    <3>1. handlers' = [handlers EXCEPT ![m] = [@ EXCEPT ![Len(@)].wait = TRUE]]
      BY <1>8, <2>4 DEF StopWorker, KillWorker
    <3>2. l \in DOMAIN handlers[m] /\ Top(m) \in Handler /\ Top(m) = handlers[m][l]
      BY <1>1, <2>1, Stack DEF Top
    <3>3. handlers'[m] = [handlers[m] EXCEPT ![l] = [handlers[m][l] EXCEPT !.wait = TRUE]]
      BY <1>1, <3>1, <3>2
    <3>4. Len(handlers'[m]) = l /\ handlers'[m][l] = [handlers[m][l] EXCEPT !.wait = TRUE]
      BY <1>1, <3>2, <3>3
    <3>5. Top(m)'.i = Top(m).i
      BY <3>2, <3>4 DEF Top, Handler
    <3> QED BY <1>4, <1>5, <2>1, <3>5
  <2> QED BY <2>3, <2>4
<1>9. CASE WaitWorker(m)
  <2> DEFINE pid      == wpid[m][Top(m).i]
             children == {k \in DOMAIN kids : kids[k].master = m /\ kids[k].is_forked /\ ~kids[k].reaped}
             awaited  == IF pid = Failed THEN children ELSE children \cap {pid}
  <2>1. /\ handlers[m] # <<>> /\ Top(m).wait /\ master' = master /\ wpid' = wpid
        /\ handlers' = [handlers EXCEPT ![m] = NextWorker(@)]
        /\ awaited = {} \/ \E k \in awaited : kids[k].at = "exited"
    BY <1>9 DEF WaitWorker
  <2>2. Top(m).i <= Workers
    BY <2>1, Stack
  <2>3. ASSUME NEW k \in DOMAIN kids', Live(k)', kids'[k].master = m, kids[k].i = Top(m).i
        PROVE  FALSE
    <3>1. /\ k \in DOMAIN kids /\ Live(k) /\ kids[k].master = m /\ pid = k /\ k \in Nat \ {0}
      BY <1>4, <2>3
    <3>2. k \in children
      BY <3>1 DEF Live, Reaped
    <3>3. awaited = {k}
      BY <3>1, <3>2 DEF Failed
    <3> QED BY <2>1, <3>1, <3>3 DEF Live
  <2> QED BY <1>5, <1>7, <2>1, <2>2, <2>3
<1>10. CASE HandlerReturn(m)
  <2>1. /\ handlers[m] # <<>> /\ Top(m).i = Last(m) + 1
    BY <1>10 DEF HandlerReturn
  <2>2. ASSUME NEW k \in DOMAIN kids', Live(k)', kids'[k].master = m PROVE FALSE
    <3>1. k \in DOMAIN kids /\ Live(k) /\ kids[k].master = m /\ Last(m) + 1 <= kids[k].i
      BY <1>4, <2>1, <2>2
    <3>2. HeldBy(m, k)
      BY <3>1 DEF HoldsAll
    <3> QED BY <1>3, <2>2, <3>1, WorkersAssumption DEF Last
  <2> QED BY <2>2 DEF HoldsAll
<1> QED BY <1>6, <1>8, <1>9, <1>10

\* Every step.
LEMMA HeldStep ==
    ASSUME Typed, Typed', Family, Reaped, Held, [Next]_vars
    PROVE  Held'
<1>1. kids \in Seq(Kid) /\ master \in [Masters -> Master] /\ handlers \in [Masters -> Seq(Handler)]
      /\ wpid \in [Masters -> [1 .. Workers -> Nat \cup {Failed}]]
  BY DEF Typed, TypeOK
<1>2. CASE UNCHANGED vars
  BY <1>2 DEF Held, AtEase, HoldsAll, HeldBy, Live, Top, vars, masterVars
<1>3. CASE Next
  <2> SUFFICES ASSUME ~hasty' PROVE \A m \in Masters : AtEase(m)' /\ HoldsAll(m)'
    BY DEF Held
  <2>1. Remember /\ ~hasty /\ \A m \in Masters : AtEase(m)'
    BY <1>3, Steps, NotHasty, EaseStep
  <2>2. \A m \in Masters : AtEase(m) /\ HoldsAll(m)
    BY <2>1 DEF Held
  <2>3. ASSUME NEW c \in Commands, Issue(c) \/ CliStep(c), UNCHANGED kids
        PROVE  \A m \in Masters : HoldsAll(m)'
    <3>1. UNCHANGED <<handlers, wpid>>
      BY <2>3 DEF Issue, CliStep, StopRead, StopKill, StopPoll, StartFork, masterVars
    <3>2. Evolves
      BY <1>1, <2>3, SameEvolves
    <3>3. ASSUME NEW m \in Masters, m # c \/ ~StartFork(c) PROVE HoldsAll(m)'
      <4>1. master'[m] = master[m]
        BY <1>1, <2>3, <3>3 DEF Issue, CliStep, StopRead, StopKill, StopPoll, StartFork, masterVars
      <4> QED BY <1>1, <2>2, <3>1, <3>2, <4>1, OthersHold
    <3>4. ASSUME StartFork(c), c \in Masters PROVE HoldsAll(c)'
      <4>1. cli[c].at = "go"
        BY <3>4 DEF StartFork, Advances
      <4>2. master[c].at = "none"
        BY <3>4, <4>1 DEF Family, Births
      <4> QED BY <1>1, <2>2, <3>2, <3>4, <4>2, NoneHeld
    <3> QED BY <3>3, <3>4
  <2>4. ASSUME NEW k \in DOMAIN kids, KidStep(k) \/ Accept(k) \/ Close(k) \/ Sigint(k),
               UNCHANGED <<cliVars, masterVars>>
        PROVE  \A m \in Masters : HoldsAll(m)'
    <3>1. Evolves
      BY <1>1, <2>4, KidStepEvolves, SigintEvolves
    <3> QED BY <1>1, <2>2, <2>4, <3>1, OthersHold DEF masterVars
  <2>5. ASSUME NEW m \in Masters, MasterStep(m) PROVE \A n \in Masters : HoldsAll(n)'
    <3>1. CASE CreateWorkers(m) /\ UNCHANGED cliVars
      <4>1. Evolves \/ \E x : kids' = Append(kids, x) /\ ~x.is_forked /\ x.master = m
        <5>1. ~OwnWorker(m).is_forked /\ OwnWorker(m).master = m
          BY DEF OwnWorker, NewKid
        <5>2. kids' = kids \/ kids' = Append(kids, OwnWorker(m))
          BY <3>1 DEF CreateWorkers
        <5> QED BY <1>1, <5>1, <5>2, SameEvolves
      <4>2. HoldsAll(m)'
        BY <1>1, <2>2, <3>1, <4>1, NoneHeld DEF CreateWorkers, Goes
      <4>3. ASSUME NEW n \in Masters, n # m PROVE HoldsAll(n)'
        <5>1. UNCHANGED <<master[n], handlers[n], wpid[n]>>
          BY <1>1, <3>1, <4>3 DEF CreateWorkers, Goes
        <5>2. Evolves \/ \E x : kids' = Append(kids, x) /\ x.master # n
          BY <4>1, <4>3
        <5> QED BY <1>1, <2>2, <5>1, <5>2, OthersHold
      <4> QED BY <4>2, <4>3
    <3>2. CASE (Fork(m) \/ AssignPid(m)) /\ UNCHANGED cliVars
      <4>1. HoldsAll(m)'
        BY <2>2, <3>2, ForkHolds
      <4>2. Evolves \/ \E x : kids' = Append(kids, x) /\ x.master = m
        <5>1. NewKid(m, master[m].i).master = m
          BY DEF NewKid
        <5>2. kids' = kids \/ kids' = Append(kids, NewKid(m, master[m].i))
          BY <3>2 DEF Fork, AssignPid
        <5> QED BY <1>1, <5>1, <5>2, SameEvolves
      <4>3. ASSUME NEW n \in Masters, n # m PROVE HoldsAll(n)'
        <5>1. UNCHANGED <<master[n], handlers[n], wpid[n]>>
          BY <1>1, <3>2, <4>3 DEF Fork, AssignPid
        <5>2. Evolves \/ \E x : kids' = Append(kids, x) /\ x.master # n
          BY <4>2, <4>3
        <5> QED BY <1>1, <2>2, <5>1, <5>2, OthersHold
      <4> QED BY <4>1, <4>3
    <3>3. CASE (PidStep(m) /\ ~Pause(m)) \/ (TestRestart(m) /\ UNCHANGED cliVars)
      <4>1. kids' = kids /\ UNCHANGED <<handlers, wpid>>
            /\ master[m].at \notin {"fork", "assign", "forked", "pause"}
            /\ \A n \in Masters : n # m => master'[n] = master[n]
        BY <1>1, <3>3 DEF PidStep, TestRestart, WritePidOpen, WritePidWrite, RunReturns, ClearPid,
                          MasterExit, Goes
      <4>2. Evolves
        BY <1>1, <4>1, SameEvolves
      <4> QED BY <1>1, <2>2, <4>1, <4>2, NoneHeld, OthersHold
    <3>4. CASE /\ UNCHANGED cliVars
               /\ \/ \E sig \in {"INT", "USR"} : Deliver(m, sig)
                  \/ StopWorker(m) \/ WaitWorker(m) \/ HandlerReturn(m)
      <4>1. Evolves
        BY <3>4, HandlerType
      <4>2. \A n \in Masters : n # m => UNCHANGED <<master[n], handlers[n], wpid[n]>>
        <5>1. wpid' = wpid /\ \A n \in Masters : n # m => master'[n] = master[n]
          BY <1>1, <3>4 DEF Deliver, StopWorker, WaitWorker, HandlerReturn
        <5>2. \A n \in Masters : n # m => handlers'[n] = handlers[n]
          BY <1>1, <3>4 DEF Deliver, StopWorker, MarkWorker, KillWorker, WaitWorker, HandlerReturn
        <5> QED BY <5>1, <5>2
      <4>3. HoldsAll(m)'
        <5>1. CASE master[m].at \notin {"fork", "assign", "forked", "pause"}
          BY <1>1, <2>2, <4>1, <5>1, NoneHeld
        <5>2. CASE master[m].at = "pause"
          <6>1. ~master[m].debug
            BY <5>2 DEF Family, Births
          <6> QED BY <2>1, <2>2, <3>4, <5>2, <6>1, HandlerHolds
        <5>3. CASE master[m].at \in {"fork", "assign", "forked"}
          <6>1. CASE handlers[m] # <<>>
            BY <2>2, <5>3, <6>1 DEF AtEase
          <6>2. CASE handlers[m] = <<>>
            <7>1. PICK sig \in {"INT", "USR"} : Deliver(m, sig)
              BY <3>4, <6>2 DEF StopWorker, WaitWorker, HandlerReturn
            <7>2. handlers'[m] # <<>> /\ master'[m].at = master[m].at
              BY <1>1, <7>1 DEF Deliver
            <7> QED BY <2>1, <5>3, <7>2 DEF AtEase
          <6> QED BY <6>1, <6>2
        <5> QED BY <5>1, <5>2, <5>3
      <4> QED BY <1>1, <2>2, <4>1, <4>2, <4>3, OthersHold
    <3>5. CASE PidStep(m) /\ Pause(m)
      <4>1. /\ kids' = kids /\ UNCHANGED <<handlers, wpid>>
            /\ master[m].at = "forked" /\ master'[m].at = "pause"
            /\ \A n \in Masters : n # m => master'[n] = master[n]
        BY <1>1, <3>5 DEF PidStep, Pause, Goes, Master
      <4>2. HoldsAll(m)'
        BY <2>2, <4>1 DEF HoldsAll, HeldBy, Live, Top
      <4>3. Evolves
        BY <1>1, <4>1, SameEvolves
      <4> QED BY <1>1, <2>2, <4>1, <4>2, <4>3, OthersHold
    <3> QED BY <2>5, <3>1, <3>2, <3>3, <3>4, <3>5 DEF MasterStep
  <2> QED BY <1>3, <2>1, <2>3, <2>4, <2>5, Steps
<1> QED BY <1>2, <1>3
-----------------------------------------------------------------------------
(***************************************************************************)
(* What a stop has waited for.                                             *)
(***************************************************************************)
\* A master goes through hk_server_start in one direction.
LEMMA Onward ==
    ASSUME Typed, Family, Next
    PROVE  /\ Grows
           /\ \A m \in Masters :
                 /\ master[m].at \notin {"none", "truncate", "write"}
                        => master'[m].at \notin {"none", "truncate", "write"}
                 /\ master[m].at \in {"end", "exited"} => master'[m].at \in {"end", "exited"}
                 /\ master[m].at = "exited" => master'[m].at = "exited"
<1>1. kids \in Seq(Kid) /\ master \in [Masters -> Master] /\ cli \in [Commands -> Command]
  BY DEF Typed, TypeOK
<1>2. Grows
  <2>1. ASSUME NEW x, kids' = Append(kids, x) PROVE Grows
    BY <1>1, <2>1 DEF Grows
  <2> QED BY <1>1, <2>1, KidsStep, EvolvesGrows
<1>3. ASSUME NEW c \in Commands, Issue(c) \/ CliStep(c)
      PROVE  \A m \in Masters : master'[m] = master[m] \/ master[m].at = "none"
  <2>1. CASE StartFork(c)
    <3>1. c \in Masters => master[c].at = "none"
      BY <1>1, <2>1 DEF StartFork, Advances, Family, Births
    <3> QED BY <1>1, <2>1, <3>1 DEF StartFork
  <2>2. CASE ~StartFork(c)
    BY <1>3, <2>2 DEF Issue, CliStep, StopRead, StopKill, StopPoll, masterVars
  <2> QED BY <2>1, <2>2
<1>4. ASSUME NEW m \in Masters, MasterStep(m)
      PROVE  /\ \A n \in Masters : n # m => master'[n] = master[n]
             /\ \/ master'[m].at = master[m].at
                \/ master[m].at = "truncate" /\ master'[m].at = "write"
                \/ master[m].at \notin {"none", "truncate", "end", "exited"}
                   /\ master'[m].at \notin {"none", "truncate", "write"}
                \/ master[m].at = "end" /\ master'[m].at = "exited"
  <2>1. CASE PidStep(m)
    BY <1>1, <2>1 DEF PidStep, WritePidOpen, WritePidWrite, RunReturns, Pause, ClearPid, MasterExit, Goes, Master
  <2>2. CASE CreateWorkers(m) \/ Fork(m) \/ AssignPid(m) \/ TestRestart(m)
    BY <1>1, <2>2 DEF CreateWorkers, Fork, AssignPid, TestRestart, Goes, Master
  <2>3. CASE (\E sig \in {"INT", "USR"} : Deliver(m, sig)) \/ StopWorker(m) \/ WaitWorker(m)
    BY <1>1, <2>3 DEF Deliver, StopWorker, WaitWorker
  <2>4. CASE HandlerReturn(m)
    BY <1>1, <2>4 DEF HandlerReturn, Master
  <2> QED BY <1>4, <2>1, <2>2, <2>3, <2>4 DEF MasterStep
<1>5. ASSUME NEW k \in DOMAIN kids, UNCHANGED <<cliVars, masterVars>>
      PROVE  master' = master
  BY <1>5 DEF masterVars
<1>6. ASSUME NEW m \in Masters
      PROVE  /\ master[m].at \notin {"none", "truncate", "write"}
                    => master'[m].at \notin {"none", "truncate", "write"}
             /\ master[m].at \in {"end", "exited"} => master'[m].at \in {"end", "exited"}
             /\ master[m].at = "exited" => master'[m].at = "exited"
  <2>1. \/ master'[m].at = master[m].at
        \/ master[m].at = "none"
        \/ master[m].at = "truncate" /\ master'[m].at = "write"
        \/ master[m].at \notin {"none", "truncate", "end", "exited"}
           /\ master'[m].at \notin {"none", "truncate", "write"}
        \/ master[m].at = "end" /\ master'[m].at = "exited"
    BY <1>3, <1>4, <1>5, Steps
  <2> QED BY <2>1
<1> QED BY <1>2, <1>6

\* Every step.
LEMMA WaitedStep ==
    ASSUME Typed, Typed', Family, PidTold, StopsWaited, [Next]_vars
    PROVE  StopsWaited'
<1>1. kids \in Seq(Kid) /\ master \in [Masters -> Master] /\ cli \in [Commands -> Command]
      /\ pidfile \in Masters \cup {NoPid} /\ NoPid \notin Masters
      /\ \A c \in Commands : cli[c].pid \in Masters \cup {NoPid}
  BY MastersAssumption DEF Typed, TypeOK, Command
<1>2. CASE UNCHANGED vars
  BY <1>2 DEF StopsWaited, Written, Active, Exists, vars, cliVars, masterVars
<1>3. CASE Next
  <2> DEFINE Past(p) == p # NoPid => master'[p].at \notin {"none", "truncate", "write"}
  <2>1. ASSUME NEW p \in Masters \cup {NoPid}, Written(p) PROVE Past(p)
    BY <1>3, <2>1, Onward DEF Written
  <2>2. ASSUME NEW p \in Masters, Written(p), ~Active(p) PROVE ~Active(p)'
    <3>1. master[p].at \notin {"none", "truncate", "write"}
      BY <1>1, <2>2 DEF Written
    <3>2. CASE master[p].at \in {"end", "exited"}
      BY <1>3, <3>2, Onward DEF Active, Exists
    <3>3. CASE master[p].at \notin {"end", "exited"}
      <4>1. ~Exists(p)
        BY <2>2, <3>3 DEF Active
      <4>2. Grows
        BY <1>3, Onward
      <4> QED BY <3>1, <3>3, <4>1, <4>2, ExistsKept DEF Active
    <3> QED BY <3>2, <3>3
  <2>3. ASSUME NEW c \in Commands
        PROVE  \/ cli'[c] = cli[c]
               \/ (Issue(c) \/ CliStep(c)) /\ UNCHANGED kids
    <3>1. ASSUME NEW d \in Commands, d # c, Issue(d) \/ CliStep(d) PROVE cli'[c] = cli[c]
      BY <1>1, <3>1 DEF Issue, CliStep, StopRead, StopKill, StopPoll, StartFork, Advances
    <3>2. ASSUME NEW m \in Masters, MasterStep(m) PROVE cli' = cli
      BY <3>2 DEF MasterStep, PidStep, cliVars
    <3> QED BY <1>3, <3>1, <3>2, Steps DEF cliVars
  <2>4. Past(pidfile')
    <3>1. pidfile' \in {pidfile, NoPid}
            \/ \E m \in Masters : pidfile' = m /\ master'[m].at = "create"
      <4>1. ASSUME NEW c \in Commands, Issue(c) \/ CliStep(c) PROVE pidfile' = pidfile
        BY <4>1 DEF Issue, CliStep, StopRead, StopKill, StopPoll, StartFork
      <4>2. ASSUME NEW m \in Masters, MasterStep(m)
            PROVE  pidfile' \in {pidfile, NoPid} \/ (pidfile' = m /\ master'[m].at = "create")
        <5>1. CASE PidStep(m)
          BY <1>1, <5>1 DEF PidStep, WritePidOpen, WritePidWrite, RunReturns, Pause, ClearPid, MasterExit,
                            Goes, Master
        <5> QED BY <4>2, <5>1 DEF MasterStep, cliVars
      <4> QED BY <1>3, <4>1, <4>2, Steps DEF cliVars
    <3>2. Past(pidfile) /\ Past(NoPid)
      BY <1>1, <2>1 DEF StopsWaited
    <3>3. ASSUME NEW m \in Masters, pidfile' = m, master'[m].at = "create" PROVE Past(pidfile')
      BY <3>3
    <3> HIDE DEF Past
    <3> QED BY <3>1, <3>2, <3>3
  <2>5. ASSUME NEW c \in Commands
        PROVE  cli'[c].pid \in {cli[c].pid, pidfile, NoPid}
    <3>1. CASE (Issue(c) \/ CliStep(c)) /\ UNCHANGED kids
      <4>1. cli[c] \in Command /\ ReadPid \in {pidfile, NoPid}
        BY <1>1 DEF ReadPid
      <4>2. CASE Issue(c) \/ StopKill(c) \/ StopPoll(c) \/ StartFork(c)
        <5>1. \E at : cli' = [cli EXCEPT ![c].at = at]
          BY <4>2 DEF Issue, StopKill, StopPoll, StartFork, Advances
        <5> QED BY <1>1, <4>1, <5>1 DEF Command
      <4>3. CASE StopRead(c)
        <5>1. \E at : cli' = [cli EXCEPT ![c].pid = ReadPid, ![c].at = at]
          BY <4>3 DEF StopRead
        <5>2. cli'[c].pid = ReadPid
          BY <1>1, <4>1, <5>1 DEF Command
        <5> QED BY <4>1, <5>2
      <4> QED BY <3>1, <4>2, <4>3 DEF CliStep
    <3> QED BY <2>3, <3>1
  <2>6. \A c \in Commands : Past(cli'[c].pid)
    <3>1. \A c \in Commands : Past(cli[c].pid)
      BY <1>1, <2>1 DEF StopsWaited
    <3>2. Past(pidfile) /\ Past(NoPid)
      BY <1>1, <2>1 DEF StopsWaited
    <3> HIDE DEF Past
    <3> QED BY <2>5, <3>1, <3>2
  <2>7. ASSUME ~hasty', NEW c \in Stops, cli'[c].at = "done", NEW q \in Masters, q = cli'[c].pid
        PROVE  ~Active(q)'
    <3>1. c \in Commands /\ c \notin Starts /\ c \notin Restarts /\ c \notin Reloads
      BY StopsAssumption DEF Commands
    <3>2. ~hasty /\ q # NoPid
      BY <1>1, <1>3, <2>7, Steps, NotHasty
    <3>3. cli[c] \in Command
      BY <1>1, <3>1
    <3>4. CASE cli'[c] = cli[c]
      BY <2>2, <2>7, <3>1, <3>2, <3>4 DEF StopsWaited
    <3>5. CASE StopPoll(c)
      <4>1. cli'[c].pid = cli[c].pid /\ ReadPid = NoPid
        BY <1>1, <3>1, <3>3, <3>5 DEF StopPoll, Advances, Command
      <4>2. Written(q)
        BY <2>7, <3>1, <4>1 DEF StopsWaited
      <4>3. ASSUME Active(q) PROVE FALSE
        <5>1. Exists(q) /\ Serving(q)
          BY <2>7, <3>2, <4>2, <4>3 DEF Active, Exists, Serving, Written
        <5>2. pidfile = q
          BY <3>2, <5>1 DEF PidTold
        <5> QED BY <3>2, <4>1, <5>1, <5>2 DEF ReadPid
      <4> QED BY <2>2, <4>2, <4>3
    <3>6. CASE Issue(c)
      <4>1. cli'[c].at # "done"
        BY <1>1, <3>1, <3>3, <3>6 DEF Issue, Advances, Command
      <4> QED BY <2>7, <4>1
    <3>7. CASE StopRead(c)
      <4>1. ReadPid = NoPid => cli'[c].pid = NoPid
        BY <1>1, <3>1, <3>3, <3>7 DEF StopRead, Command
      <4>2. ReadPid # NoPid => cli'[c].at = "kill"
        BY <1>1, <3>1, <3>3, <3>7 DEF StopRead, Command
      <4> QED BY <2>7, <3>2, <4>1, <4>2
    <3>8. CASE StopKill(c)
      <4>1. cli'[c].at = "poll"
        BY <1>1, <3>1, <3>3, <3>8 DEF StopKill, Advances, Command
      <4> QED BY <2>7, <4>1
    <3>9. CASE StartFork(c)
      <4>1. cli[c].at = "go"
        BY <3>9 DEF StartFork, Advances
      <4> QED BY <3>1, <4>1, MastersAssumption DEF Family, Births
    <3> QED BY <2>3, <3>1, <3>4, <3>5, <3>6, <3>7, <3>8, <3>9 DEF CliStep
  <2>8. \A c \in Commands : Written(cli[c].pid)'
    BY <2>6 DEF Written
  <2>9. Written(pidfile)'
    BY <2>4 DEF Written
  <2>10. ASSUME ~hasty', NEW c \in Stops, cli'[c].at = "done", cli'[c].pid # NoPid
         PROVE  ~Active(cli[c].pid)'
    <3>1. cli'[c].pid \in Masters
      BY <2>10, StopsAssumption DEF Typed, TypeOK, Command, Commands
    <3>2. PICK q \in Masters : q = cli'[c].pid
      BY <3>1
    <3>3. ~Active(q)'
      BY <2>7, <2>10, <3>2
    <3> QED BY <3>2, <3>3 DEF Active, Exists
  <2> QED BY <2>8, <2>9, <2>10 DEF StopsWaited
<1> QED BY <1>2, <1>3
-----------------------------------------------------------------------------
\* Nothing has been issued.
LEMMA InitInv == Init => IInv
<1> SUFFICES ASSUME Init PROVE IInv
  OBVIOUS
<1>1. TypeOK
  <2>1. [at |-> "idle", pid |-> NoPid] \in Command
    BY DEF Command
  <2>2. [at |-> "none", i |-> 1, child |-> NoPid, restart |-> FALSE, debug |-> FALSE] \in Master
    BY WorkersAssumption DEF Master, MasterAt, NoPid
  <2>3. <<>> \in Seq(Handler) /\ <<>> \in Seq(Kid) /\ NoPid \in Nat
    BY DEF NoPid
  <2> QED BY <2>1, <2>2, <2>3 DEF Init, TypeOK
<1>2. Waits /\ Births /\ Parents
  BY DEF Init, Waits, Births, Parents
<1>3. PidTold
  BY MastersAssumption DEF Init, PidTold, Starting, Serving, Active, Exists, Commands
<1>4. Reaped /\ Held
  BY DEF Init, Reaped, Held, AtEase, HoldsAll
<1>5. StopsWaited
  BY DEF Init, StopsWaited, Written, Commands
<1> QED BY <1>1, <1>2, <1>3, <1>4, <1>5 DEF IInv

\* IInv is inductive and holds of every reachable state.
LEMMA Invariant == Spec => []IInv
<1>1. ASSUME IInv, [Next]_vars PROVE IInv'
  <2>1. Typed /\ Family /\ PidTold /\ Reaped /\ Held /\ StopsWaited
    BY <1>1 DEF IInv, Typed, Family
  <2>2. Typed'
    BY <1>1, <2>1, TypeStep DEF Family
  <2>3. Family' /\ PidTold' /\ Reaped'
    BY <1>1, <2>1, FamilyStep, PidToldStep, ReapedStep
  <2>4. Held' /\ StopsWaited'
    BY <1>1, <2>1, <2>2, HeldStep, WaitedStep
  <2> QED BY <2>2, <2>3, <2>4 DEF IInv, Typed, Family
<1> QED BY InitInv, <1>1, PTL DEF Spec
-----------------------------------------------------------------------------
(***************************************************************************)
(* The state of commands, masters and workers is type correct: a master in *)
(* hk_server_stop_workers goes through the workers it has and no further.  *)
(***************************************************************************)
THEOREM ServerTypeOK == Spec => []TypeOK
BY Invariant, PTL DEF IInv

\* One master, of each reachable state.
LEMMA Alone == IInv => OneMaster
<1> SUFFICES ASSUME IInv, ~hasty, NEW m \in Masters, NEW n \in Masters, Active(m), Active(n)
             PROVE  m = n
  BY DEF OneMaster
<1>1. CASE Starting(m) \/ Starting(n)
  BY <1>1, MastersAssumption DEF IInv, PidTold, Commands
<1>2. CASE ~Starting(m) /\ ~Starting(n)
  <2>1. Serving(m) /\ Serving(n) /\ Exists(m) /\ Exists(n)
    BY <1>2 DEF Starting, Serving, Active, Exists
  <2> QED BY <2>1 DEF IInv, PidTold
<1> QED BY <1>1, <1>2

(***************************************************************************)
(* The pid file keeps a second master from starting, for any commands,     *)
(* issued at any time, as long as nothing the code does not provide for    *)
(* has happened (Hasty).                                                   *)
(***************************************************************************)
THEOREM ServerOneMaster == Spec => []OneMaster
BY Invariant, Alone, PTL

\* The master of a worker that is not over is there.
LEMMA MasterThere ==
    ASSUME IInv, ~hasty, NEW k \in DOMAIN kids, ~Over(k)
    PROVE  /\ kids[k].master \in Masters /\ Active(kids[k].master)
           /\ kids[k].is_forked => Live(k) /\ HeldBy(kids[k].master, k)
<1> DEFINE m == kids[k].master
<1>1. m \in Masters
  <2>1. kids[k] \in Kid
    BY DEF IInv, TypeOK
  <2> QED BY <2>1 DEF Kid
<1>2. CASE kids[k].is_forked
  <2>1. Live(k)
    BY <1>2 DEF Over, Live
  <2>2. HeldBy(m, k)
    BY <1>1, <2>1 DEF IInv, Held, HoldsAll
  <2>3. ~master[m].debug
    BY <1>2 DEF IInv, Parents
  <2>4. \A l \in DOMAIN kids : kids[l].master = m => kids[l].is_forked
    BY <2>3 DEF IInv, Parents
  <2>5. Active(m)
    BY <2>2, <2>4 DEF Active, Exists, HeldBy
  <2> QED BY <1>1, <2>1, <2>2, <2>5
<1>3. CASE ~kids[k].is_forked
  <2>1. kids[k].at \notin {"exited", "returned"}
    BY <1>3 DEF Over
  <2>2. master[m].at = "run"
    BY <1>3, <2>1 DEF IInv, Parents
  <2>3. \A l \in DOMAIN kids : kids[l].master = m => l = k
    BY <1>3 DEF IInv, Parents
  <2>4. Active(m)
    BY <2>1, <2>2, <2>3 DEF Active, Exists
  <2> QED BY <1>1, <1>3, <2>4
<1> QED BY <1>2, <1>3

(***************************************************************************)
(* hk_server_stop and hk_server_stop_workers: when a stop that has         *)
(* signalled a master returns, that master and every worker of it are      *)
(* gone, whichever of its forks have failed.                               *)
(***************************************************************************)
THEOREM ServerStopMeansStopped == Spec => []StopMeansStopped
<1>1. ASSUME IInv PROVE StopMeansStopped
  <2> SUFFICES ASSUME ~hasty, NEW c \in Stops, cli[c].at = "done", cli[c].pid # NoPid
               PROVE  /\ ~Active(cli[c].pid)
                      /\ \A k \in DOMAIN kids : kids[k].master = cli[c].pid => Over(k)
    BY DEF StopMeansStopped
  <2>1. ~Active(cli[c].pid)
    BY <1>1 DEF IInv, StopsWaited
  <2> QED BY <1>1, <2>1, MasterThere
<1> QED BY Invariant, <1>1, PTL

\* Whoever has the address of a worker would be a worker of the same master.
LEMMA Unbound == IInv => AddressFree
<1> SUFFICES ASSUME IInv, ~hasty, NEW k \in DOMAIN kids, NEW l \in DOMAIN kids,
                    kids[k].at = "init", Listening(l), kids[k].i = kids[l].i
             PROVE  FALSE
  BY DEF AddressFree
<1>1. ~Over(k) /\ ~Over(l) /\ k # l
  BY DEF Over, Listening
<1>2. kids[k].master = kids[l].master
  BY <1>1, MasterThere, Alone DEF OneMaster
<1>3. kids[k].is_forked /\ kids[l].is_forked
  BY <1>1, <1>2 DEF IInv, Parents
<1>4. HeldBy(kids[k].master, k) /\ HeldBy(kids[k].master, l)
  BY <1>1, <1>2, <1>3, MasterThere
<1> QED BY <1>1, <1>4 DEF HeldBy

(***************************************************************************)
(* A worker that comes to bind its address in hk_worker_run finds it free, *)
(* across restarts and from one server to the next.                        *)
(***************************************************************************)
THEOREM ServerAddressFree == Spec => []AddressFree
BY Invariant, Unbound, PTL

-----------------------------------------------------------------------------
(***************************************************************************)
(* A master in pause has its workers, for any commands and any number of   *)
(* workers; on top of the invariant above.                                 *)
(***************************************************************************)
\* Haste does not go unremembered.
Unhurried == ~hasty => ~Hasty

\* The pids a master holds are those of its own workers.
Owned(ks, m, pid) == pid \notin {NoPid, Failed} => pid \in DOMAIN ks /\ ks[pid].master = m
Owns ==
    \A m \in Masters : /\ Owned(kids, m, master[m].child)
                       /\ \A i \in 1 .. Workers : Owned(kids, m, wpid[m][i])

\* Whether master m has come past worker i since it began its loop over them.
Passed(m, i) ==
    \/ master[m].at \in {"fork", "assign"} /\ i < master[m].i
    \/ master[m].at \in {"forked", "pause", "test", "clear", "end", "exited"}

\* Nobody marks a worker of a server that forks them: hk_worker_stop finds their pids.
UnmarkedAt(m) ==
    ~master[m].debug =>
        /\ master[m].at # "run"
        /\ master[m].at \in {"none", "truncate", "write", "create"} => master[m].i = 1
        /\ master[m].at = "assign" => master[m].child # NoPid
        /\ \A i \in 1 .. Workers : ~wstopping[m][i] /\ (Passed(m, i) => wpid[m][i] # NoPid)

Unmarked == ~hasty => \A m \in Masters : UnmarkedAt(m)

(***************************************************************************)
(* While its master is in no handler, a worker has not been told to stop,  *)
(* and so it is there, for each address that could be forked for.          *)
(***************************************************************************)
Fresh(k) == /\ ~kids[k].sigint /\ ~kids[k].stopping /\ ~kids[k].down
            /\ kids[k].at \in {"born", "ready", "known", "init", "loop", "poll"}

Works(m, i, k) == k \in DOMAIN kids /\ kids[k].master = m /\ kids[k].i = i /\ Live(k)

Crewed(m) ==
    /\ \A k \in DOMAIN kids : kids[k].master = m /\ Live(k) => Fresh(k)
    /\ \A i \in 1 .. Workers :
          Passed(m, i) /\ master[m].at \in {"fork", "assign", "forked", "pause"}
              => wpid[m][i] = Failed \/ Works(m, i, wpid[m][i])
    /\ master[m].at = "assign"
          => master[m].child = Failed \/ Works(m, master[m].i, master[m].child)

Manned == ~hasty => \A m \in Masters : handlers[m] = <<>> => Crewed(m)

Crew == Unhurried /\ Owns /\ Unmarked /\ Manned
-----------------------------------------------------------------------------
(***************************************************************************)
(* Haste, and whose pids are held.                                         *)
(***************************************************************************)
\* Every step remembers it.
LEMMA UnhurriedStep == Unhurried /\ [Next]_vars => Unhurried'
<1> SUFFICES ASSUME Unhurried, [Next]_vars, ~hasty' PROVE ~Hasty'
  BY Zenon DEF Unhurried
<1>1. CASE Next
  <2>1. Remember
    BY <1>1, Steps
  <2> QED BY <2>1, Zenon DEF Remember
<1>2. CASE UNCHANGED vars
  <2>1. ~Hasty /\ kids' = kids /\ cli' = cli /\ master' = master /\ handlers' = handlers /\ wpid' = wpid
    BY <1>2 DEF Unhurried, vars, cliVars, masterVars
  <2>2. /\ \A c : Starting(c)' <=> Starting(c)
        /\ \A m : (KillsAll(m)' <=> KillsAll(m)) /\ (Exists(m)' <=> Exists(m))
        /\ \A k : Settled(k)' <=> Settled(k)
    BY <2>1 DEF Starting, KillsAll, Last, Top, Exists, Settled, Over
  <2> QED BY <2>1, <2>2, Zenon DEF Hasty
<1> QED BY <1>1, <1>2

\* What is stored is what a fork has returned.
LEMMA OwnsStep ==
    ASSUME Typed, Family, Owns, [Next]_vars
    PROVE  Owns'
<1>1. /\ kids \in Seq(Kid) /\ master \in [Masters -> Master]
      /\ wpid \in [Masters -> [1 .. Workers -> Nat \cup {Failed}]]
  BY DEF Typed, TypeOK
<1>2. CASE UNCHANGED vars
  BY <1>2 DEF Owns, Owned, vars, masterVars
<1>3. CASE Next
  <2>1. \A n \in Masters : \A pid : Owned(kids, n, pid) => Owned(kids', n, pid)
    BY <1>3, Onward DEF Grows, Owned
  <2>2. ASSUME NEW n \in Masters,
               \/ UNCHANGED <<kids, wpid>> /\ master'[n].child = master[n].child
               \/ wpid'[n] = wpid[n] /\ Owned(kids', n, master'[n].child)
               \/ wpid'[n] = wpid[n] /\ master'[n].child = master[n].child
               \/ /\ master'[n].child = master[n].child
                  /\ \A i \in 1 .. Workers : wpid'[n][i] \in {wpid[n][i], master[n].child}
        PROVE  Owned(kids', n, master'[n].child) /\ \A i \in 1 .. Workers : Owned(kids', n, wpid'[n][i])
    <3>1. Owned(kids, n, master[n].child) /\ \A i \in 1 .. Workers : Owned(kids, n, wpid[n][i])
      BY DEF Owns
    <3> QED BY <2>1, <2>2, <3>1
  <2>3. ASSUME NEW c \in Commands, Issue(c) \/ CliStep(c), UNCHANGED kids PROVE Owns'
    <3>1. wpid' = wpid
      BY <2>3 DEF Issue, CliStep, StopRead, StopKill, StopPoll, StartFork, masterVars
    <3>2. ASSUME NEW n \in Masters PROVE master'[n].child = master[n].child
      <4>1. master[n] \in Master
        BY <1>1
      <4>2. \/ master' = master
            \/ \E debug : master' = [master EXCEPT ![c].at = "truncate", ![c].debug = debug]
        BY <2>3 DEF Issue, CliStep, StopRead, StopKill, StopPoll, StartFork, masterVars
      <4> QED BY <1>1, <4>1, <4>2 DEF Master
    <3> QED BY <2>2, <2>3, <3>1, <3>2 DEF Owns
  <2>4. ASSUME NEW m \in Masters, MasterStep(m) PROVE Owns'
    <3>1. master[m] \in Master /\ master[m].i \in 1 .. Workers
      BY <1>1 DEF Master
    <3>2. CASE Fork(m)
      <4>1. PICK child \in {NoPid, Failed, Len(kids) + 1} :
              /\ child \notin {NoPid, Failed} => kids' = Append(kids, NewKid(m, master[m].i))
              /\ master' = [master EXCEPT ![m].at = "assign", ![m].child = child]
        BY <3>2 DEF Fork
      <4>2. wpid' = wpid /\ master'[m].child = child
            /\ \A n \in Masters : n # m => master'[n] = master[n]
        BY <1>1, <3>1, <3>2, <4>1 DEF Fork, Master
      <4>3. Owned(kids', m, child)
        <5>1. NewKid(m, master[m].i).master = m
          BY DEF NewKid
        <5>2. ASSUME child \notin {NoPid, Failed} PROVE child \in DOMAIN kids' /\ kids'[child].master = m
          BY <1>1, <4>1, <5>1, <5>2
        <5> QED BY <5>2 DEF Owned
      <4> QED BY <2>2, <4>2, <4>3 DEF Owns
    <3>3. CASE AssignPid(m)
      <4>1. \A n \in Masters : /\ master'[n].child = master[n].child
                               /\ \A i \in 1 .. Workers : wpid'[n][i] \in {wpid[n][i], master[n].child}
        BY <1>1, <3>1, <3>3 DEF AssignPid, Master
      <4> QED BY <2>2, <4>1 DEF Owns
    <3>4. CASE ~Fork(m) /\ ~AssignPid(m)
      <4>1. wpid' = wpid
        BY <2>4, <3>4 DEF MasterStep, PidStep, CreateWorkers, TestRestart, Deliver, StopWorker,
                          WaitWorker, HandlerReturn
      <4>2. \A n \in Masters : master'[n].child = master[n].child
        <5>1. CASE PidStep(m) \/ CreateWorkers(m)
          <6>1. \E at : master' = [master EXCEPT ![m].at = at]
            BY <5>1 DEF PidStep, WritePidOpen, WritePidWrite, RunReturns, Pause, ClearPid,
                        MasterExit, CreateWorkers, Goes
          <6> QED BY <1>1, <3>1, <6>1 DEF Master
        <5>2. CASE TestRestart(m) \/ HandlerReturn(m)
          <6>1. master'[m].child = master[m].child
            BY <1>1, <3>1, <5>2 DEF TestRestart, HandlerReturn, Master
          <6>2. \A n \in Masters : n # m => master'[n] = master[n]
            BY <1>1, <5>2 DEF TestRestart, HandlerReturn
          <6> QED BY <6>1, <6>2
        <5>3. CASE (\E sig \in {"INT", "USR"} : Deliver(m, sig)) \/ StopWorker(m) \/ WaitWorker(m)
          BY <5>3 DEF Deliver, StopWorker, WaitWorker
        <5> QED BY <2>4, <3>4, <5>1, <5>2, <5>3 DEF MasterStep
      <4> QED BY <2>2, <4>1, <4>2 DEF Owns
    <3> QED BY <3>2, <3>3, <3>4
  <2>5. ASSUME UNCHANGED masterVars PROVE Owns'
    BY <2>2, <2>5 DEF Owns, masterVars
  <2> QED BY <1>3, <2>3, <2>4, <2>5, Steps
<1> QED BY <1>2, <1>3
-----------------------------------------------------------------------------
(***************************************************************************)
(* No worker of a server that forks them is marked as stopping.            *)
(***************************************************************************)
\* hk_server_start.
LEMMA LoopUnmarked ==
    ASSUME Typed, NEW m \in Masters, UnmarkedAt(m),
           PidStep(m) \/ CreateWorkers(m) \/ Fork(m) \/ AssignPid(m) \/ TestRestart(m)
    PROVE  UnmarkedAt(m)'
<1>1. /\ kids \in Seq(Kid) /\ Len(kids) \in Nat
      /\ master \in [Masters -> Master] /\ master[m] \in Master
      /\ wpid \in [Masters -> [1 .. Workers -> Nat \cup {Failed}]]
      /\ wpid[m] \in [1 .. Workers -> Nat \cup {Failed}]
  BY DEF Typed, TypeOK
<1>2. master[m].i \in 1 .. Workers
  BY <1>1 DEF Master
<1>3. CASE PidStep(m)
  <2>1. /\ UNCHANGED <<wpid, wstopping>> /\ master'[m].debug = master[m].debug
        /\ master'[m].i = master[m].i
        /\ \/ master[m].at = "truncate" /\ master'[m].at = "write"
           \/ master[m].at = "write" /\ master'[m].at = "create"
           \/ master[m].at = "run" /\ master'[m].at = "clear"
           \/ master[m].at = "forked" /\ master'[m].at = "pause"
           \/ master[m].at = "clear" /\ master'[m].at = "end"
           \/ master[m].at = "end" /\ master'[m].at = "exited"
    BY <1>1, <1>3 DEF PidStep, WritePidOpen, WritePidWrite, RunReturns, Pause, ClearPid, MasterExit, Goes, Master
  <2> QED BY <2>1 DEF UnmarkedAt, Passed
<1>4. CASE CreateWorkers(m)
  <2>1. /\ UNCHANGED <<wpid, wstopping>> /\ master'[m].debug = master[m].debug
        /\ master'[m].i = master[m].i /\ master[m].at = "create"
        /\ ~master[m].debug => master'[m].at = "fork"
    BY <1>1, <1>4 DEF CreateWorkers, Goes, Master
  <2> QED BY <2>1 DEF UnmarkedAt, Passed
<1>5. CASE Fork(m)
  <2>1. PICK child \in IF wstopping[m][master[m].i] THEN {NoPid} ELSE {Failed, Len(kids) + 1} :
           master' = [master EXCEPT ![m].at = "assign", ![m].child = child]
    BY <1>5 DEF Fork
  <2>2. /\ UNCHANGED <<wpid, wstopping>> /\ master'[m].debug = master[m].debug
        /\ master'[m].i = master[m].i /\ master[m].at = "fork" /\ master'[m].at = "assign"
        /\ master'[m].child = child
    BY <1>1, <1>5, <2>1 DEF Fork, Master
  <2>3. ~wstopping[m][master[m].i] => child # NoPid
    BY <1>1, <2>1 DEF NoPid, Failed
  <2> QED BY <1>2, <2>2, <2>3 DEF UnmarkedAt, Passed
<1>6. CASE AssignPid(m)
  <2> DEFINE i == master[m].i
  <2>1. /\ master[m].at = "assign" /\ UNCHANGED wstopping
        /\ master'[m].debug = master[m].debug
        /\ IF i = Workers THEN master'[m].at = "forked"
                          ELSE master'[m].at = "fork" /\ master'[m].i = i + 1
        /\ wpid'[m][i] = master[m].child
        /\ \A j \in 1 .. Workers : j # i => wpid'[m][j] = wpid[m][j]
    BY <1>1, <1>2, <1>6 DEF AssignPid, Master
  <2>2. \A j \in 1 .. Workers : Passed(m, j)' => j = i \/ Passed(m, j)
    BY <1>2, <2>1, WorkersAssumption DEF Passed
  <2> QED BY <1>2, <2>1, <2>2 DEF UnmarkedAt
<1>7. CASE TestRestart(m)
  <2>1. /\ UNCHANGED <<wpid, wstopping>> /\ master'[m].debug = master[m].debug
        /\ master'[m].i = 1 /\ master[m].at = "test" /\ master'[m].at \in {"fork", "clear"}
    BY <1>1, <1>7 DEF TestRestart, Master
  <2> QED BY <2>1 DEF UnmarkedAt, Passed
<1> QED BY <1>3, <1>4, <1>5, <1>6, <1>7

\* hk_server_sig: every worker has a pid when a handler comes to it.
LEMMA HandlerUnmarked ==
    ASSUME Typed, NEW m \in Masters, UnmarkedAt(m), AtEase(m),
           \/ \E sig \in {"INT", "USR"} : Deliver(m, sig)
           \/ StopWorker(m) \/ WaitWorker(m) \/ HandlerReturn(m)
    PROVE  UnmarkedAt(m)'
<1>1. master \in [Masters -> Master] /\ master[m] \in Master
  BY DEF Typed, TypeOK
<1>2. wpid' = wpid /\ master'[m].debug = master[m].debug /\ master'[m].child = master[m].child
      /\ master'[m].i = master[m].i
      /\ (master'[m].at = master[m].at \/ (master[m].at = "pause" /\ master'[m].at = "test"))
  BY <1>1 DEF Deliver, StopWorker, WaitWorker, HandlerReturn, Master
<1>3. \A i \in 1 .. Workers : Passed(m, i)' => Passed(m, i)
  BY <1>2 DEF Passed
<1>4. ~master[m].debug => wstopping' = wstopping
  <2>1. CASE StopWorker(m) /\ ~master[m].debug
    <3>1. handlers[m] # <<>> /\ Top(m).i \in 1 .. Workers
      BY <2>1, Stack, WorkersAssumption DEF StopWorker, Handler, Last
    <3>2. Passed(m, Top(m).i)
      BY <2>1, <3>1 DEF AtEase, UnmarkedAt, Passed
    <3>3. wpid[m][Top(m).i] # NoPid
      BY <2>1, <3>1, <3>2 DEF UnmarkedAt
    <3> QED BY <2>1, <3>3 DEF StopWorker, KillWorker
  <2> QED BY <2>1 DEF Deliver, WaitWorker, HandlerReturn
<1> QED BY <1>2, <1>3, <1>4 DEF UnmarkedAt

\* Every step.
LEMMA UnmarkedStep ==
    ASSUME Typed, Family, Held, Unmarked, [Next]_vars
    PROVE  Unmarked'
<1>1. master \in [Masters -> Master] /\ wpid \in [Masters -> [1 .. Workers -> Nat \cup {Failed}]]
      /\ wstopping \in [Masters -> [1 .. Workers -> BOOLEAN]]
  BY DEF Typed, TypeOK
<1> SUFFICES ASSUME ~hasty', NEW m \in Masters PROVE UnmarkedAt(m)'
  BY DEF Unmarked
<1>2. ASSUME master'[m] = master[m], wpid'[m] = wpid[m], wstopping'[m] = wstopping[m], ~hasty
      PROVE  UnmarkedAt(m)'
  BY <1>2 DEF Unmarked, UnmarkedAt, Passed
<1>3. CASE UNCHANGED vars
  BY <1>2, <1>3 DEF vars, masterVars
<1>4. CASE Next
  <2>1. ~hasty /\ UnmarkedAt(m) /\ AtEase(m)
    BY <1>4, Steps, NotHasty DEF Unmarked, Held
  <2>2. ASSUME NEW c \in Commands, Issue(c) \/ CliStep(c) PROVE UnmarkedAt(m)'
    <3>1. UNCHANGED <<wpid, wstopping>>
      BY <2>2 DEF Issue, CliStep, StopRead, StopKill, StopPoll, StartFork, masterVars
    <3>2. CASE StartFork(c) /\ c = m
      <4>1. cli[c].at = "go"
        BY <3>2 DEF StartFork, Advances
      <4>2. master[m].at = "none" /\ ~master[m].debug
        BY <3>2, <4>1 DEF Family, Births
      <4>3. master'[m].at = "truncate" /\ master'[m].i = master[m].i
        <5>1. master[m] \in Master
          BY <1>1
        <5> QED BY <1>1, <3>2, <5>1 DEF StartFork, Master
      <4> QED BY <2>1, <3>1, <4>2, <4>3 DEF UnmarkedAt, Passed
    <3>3. CASE ~(StartFork(c) /\ c = m)
      <4>1. master'[m] = master[m]
        BY <1>1, <2>2, <3>3 DEF Issue, CliStep, StopRead, StopKill, StopPoll, StartFork, masterVars
      <4> QED BY <1>2, <2>1, <3>1, <4>1
    <3> QED BY <3>2, <3>3
  <2>3. ASSUME NEW n \in Masters, MasterStep(n) PROVE UnmarkedAt(m)'
    <3>1. CASE n = m
      BY <2>1, <2>3, <3>1, LoopUnmarked, HandlerUnmarked DEF MasterStep
    <3>2. CASE n # m
      <4>1. master'[m] = master[m] /\ wpid'[m] = wpid[m]
        BY <1>1, <2>3, <3>2 DEF MasterStep, PidStep, WritePidOpen, WritePidWrite, RunReturns,
              Pause, ClearPid, MasterExit, Goes, CreateWorkers, Fork, AssignPid, TestRestart, Deliver,
              StopWorker, WaitWorker, HandlerReturn
      <4>2. wstopping'[m] = wstopping[m]
        BY <1>1, <2>3, <3>2 DEF MasterStep, PidStep, CreateWorkers, Fork, AssignPid, TestRestart,
              Deliver, StopWorker, MarkWorker, KillWorker, WaitWorker, HandlerReturn
      <4> QED BY <1>2, <2>1, <4>1, <4>2
    <3> QED BY <3>1, <3>2
  <2> QED BY <1>2, <1>4, <2>1, <2>2, <2>3, Steps DEF masterVars
<1> QED BY <1>3, <1>4
-----------------------------------------------------------------------------
(***************************************************************************)
(* Workers that have not been told to stop.                                *)
(***************************************************************************)
\* A worker alive and not told to stop stays so.
Stays(k) ==
    /\ k \in DOMAIN kids' /\ kids'[k].master = kids[k].master /\ kids'[k].i = kids[k].i
    /\ Live(k)' /\ Fresh(k)'

\* A master and its workers as they were.
LEMMA SameCrew ==
    ASSUME kids \in Seq(Kid), NEW m, Crewed(m), UNCHANGED <<master[m], wpid[m]>>,
           \A k \in DOMAIN kids : kids[k].master = m /\ Live(k) => Stays(k),
           Evolves \/ \E x : kids' = Append(kids, x) /\ x.master # m
    PROVE  Crewed(m)'
<1>1. ASSUME NEW k \in DOMAIN kids', kids'[k].master = m, Live(k)'
      PROVE  k \in DOMAIN kids /\ kids[k].master = m /\ Live(k)
  <2>1. CASE Evolves
    BY <1>1, <2>1 DEF Evolves, Live, Ended
  <2>2. ASSUME NEW x, kids' = Append(kids, x), x.master # m
        PROVE  k \in DOMAIN kids /\ kids[k].master = m /\ Live(k)
    <3>1. k \in DOMAIN kids /\ kids'[k] = kids[k]
      BY <1>1, <2>2
    <3> QED BY <1>1, <3>1 DEF Live
  <2> QED BY <2>1, <2>2
<1>2. \A k \in DOMAIN kids' : kids'[k].master = m /\ Live(k)' => Fresh(k)'
  BY <1>1 DEF Stays
<1>3. \A i, k : Works(m, i, k) => Works(m, i, k)'
  BY DEF Works, Stays
<1> QED BY <1>2, <1>3 DEF Crewed, Passed

\* The fork of a worker, and the assignment of its pid.
LEMMA ForkCrew ==
    ASSUME Typed, NEW m \in Masters, UnmarkedAt(m), ~master[m].debug, Crewed(m), Fork(m) \/ AssignPid(m)
    PROVE  Crewed(m)'
<1>1. /\ kids \in Seq(Kid) /\ Len(kids) \in Nat
      /\ master \in [Masters -> Master] /\ master[m] \in Master
      /\ wpid \in [Masters -> [1 .. Workers -> Nat \cup {Failed}]]
      /\ wpid[m] \in [1 .. Workers -> Nat \cup {Failed}]
  BY DEF Typed, TypeOK
<1>2. master[m].i \in 1 .. Workers
  BY <1>1 DEF Master
<1>3. CASE Fork(m)
  <2>1. ~wstopping[m][master[m].i]
    BY <1>2 DEF UnmarkedAt
  <2>2. PICK child \in {Failed, Len(kids) + 1} :
          /\ kids' = IF child \in {NoPid, Failed} THEN kids ELSE Append(kids, NewKid(m, master[m].i))
          /\ master' = [master EXCEPT ![m].at = "assign", ![m].child = child]
    BY <1>3, <2>1 DEF Fork
  <2>3. /\ master[m].at = "fork" /\ wpid' = wpid
        /\ master'[m].at = "assign" /\ master'[m].child = child /\ master'[m].i = master[m].i
    BY <1>1, <1>3, <2>2 DEF Fork, Master
  <2>4. \A i \in 1 .. Workers : Passed(m, i)' => Passed(m, i)
    BY <2>3 DEF Passed
  <2>5. CASE child = Failed
    <3>1. kids' = kids
      BY <2>2, <2>5
    <3> QED BY <2>3, <2>4, <2>5, <3>1 DEF Crewed, Works, Live, Fresh
  <2>6. CASE child = Len(kids) + 1
    <3>1. kids' = Append(kids, NewKid(m, master[m].i))
      BY <1>1, <2>2, <2>6 DEF NoPid, Failed
    <3>2. /\ \A k \in DOMAIN kids : k \in DOMAIN kids' /\ kids'[k] = kids[k]
          /\ \A k \in DOMAIN kids' : k \in DOMAIN kids \/ k = child
          /\ child \in DOMAIN kids' /\ kids'[child] = NewKid(m, master[m].i)
      BY <1>1, <2>6, <3>1
    <3>3. /\ kids'[child].master = m /\ kids'[child].i = master[m].i
          /\ kids'[child].at = "born" /\ kids'[child].is_forked /\ ~kids'[child].sigint
          /\ ~kids'[child].stopping /\ ~kids'[child].down
      BY <3>2 DEF NewKid
    <3>4. ASSUME NEW k \in DOMAIN kids', kids'[k].master = m, Live(k)' PROVE Fresh(k)'
      <4>1. CASE k \in DOMAIN kids
        BY <3>2, <3>4, <4>1 DEF Crewed, Live, Fresh
      <4>2. CASE k = child
        BY <3>3, <4>2 DEF Fresh
      <4> QED BY <3>2, <4>1, <4>2
    <3>5. \A i, k : Works(m, i, k) => Works(m, i, k)'
      BY <3>2 DEF Works, Live
    <3>6. Works(m, master[m].i, child)'
      BY <2>3, <3>2, <3>3 DEF Works, Live
    <3>7. \A i \in 1 .. Workers : Passed(m, i) => wpid[m][i] = Failed \/ Works(m, i, wpid[m][i])
      BY <2>3 DEF Crewed
    <3>8. \A i \in 1 .. Workers : Passed(m, i)' => wpid'[m][i] = Failed \/ Works(m, i, wpid[m][i])'
      BY <2>3, <2>4, <3>2, <3>7 DEF Works, Live
    <3>9. Works(m, master[m].i, master[m].child)'
      BY <2>3, <3>6 DEF Works, Live
    <3> QED BY <3>4, <3>8, <3>9 DEF Crewed
  <2> QED BY <2>5, <2>6
<1>4. CASE AssignPid(m)
  <2> DEFINE i == master[m].i
  <2>1. /\ master[m].at = "assign" /\ UNCHANGED kids
        /\ IF i = Workers THEN master'[m].at = "forked"
                          ELSE master'[m].at = "fork" /\ master'[m].i = i + 1
        /\ wpid'[m][i] = master[m].child
        /\ \A j \in 1 .. Workers : j # i => wpid'[m][j] = wpid[m][j]
    BY <1>1, <1>2, <1>4 DEF AssignPid, Master
  <2>2. \A j \in 1 .. Workers : Passed(m, j)' => j = i \/ Passed(m, j)
    BY <1>2, <2>1, WorkersAssumption DEF Passed
  <2>3. \A j, k : Works(m, j, k)' <=> Works(m, j, k)
    BY <2>1 DEF Works, Live
  <2>4. ASSUME NEW j \in 1 .. Workers, Passed(m, j)'
        PROVE  wpid'[m][j] = Failed \/ Works(m, j, wpid'[m][j])
    BY <1>2, <2>1, <2>2, <2>4 DEF Crewed
  <2>5. \A k \in DOMAIN kids' : kids'[k].master = m /\ Live(k)' => Fresh(k)'
    BY <2>1 DEF Crewed, Live, Fresh
  <2>6. master'[m].at # "assign"
    BY <2>1
  <2>7. \A j \in 1 .. Workers : Passed(m, j)' => wpid'[m][j] = Failed \/ Works(m, j, wpid[m][j])'
    BY <2>1, <2>4 DEF Works, Live
  <2> QED BY <2>5, <2>6, <2>7 DEF Crewed
<1> QED BY <1>3, <1>4

\* A worker that has not been told to stop goes on by itself, for its address is free.
LEMMA GoesOn ==
    ASSUME kids \in Seq(Kid), AddressFree, ~hasty, ~Hasty,
           NEW l \in DOMAIN kids, KidStep(l) \/ Accept(l) \/ Close(l) \/ Sigint(l),
           NEW k \in DOMAIN kids, Live(k), Fresh(k)
    PROVE  Stays(k)
<1>1. Evolves
  BY KidStepEvolves, SigintEvolves
<1>2. k \in DOMAIN kids' /\ kids'[k].master = kids[k].master /\ kids'[k].i = kids[k].i
      /\ kids'[k].is_forked
  BY <1>1 DEF Evolves, Live
<1>3. kids[l] \in Kid /\ kids[k] \in Kid
  OBVIOUS
<1>4. ASSUME kids[l].sigint PROVE kids[l].at # "born"
  <2>1. Settled(l)
    BY <1>4 DEF Hasty
  <2> QED BY <2>1 DEF Settled, Over
<1>5. CASE k # l
  <2>1. kids'[k] = kids[k]
    BY <1>4, <1>5 DEF KidStep, Accept, Sigint, SignalsInit, InstanceSet, StateCheck, Listen, LoopTest,
                      PollReturns, Close, Moves, Told
  <2> QED BY <1>2, <2>1 DEF Stays, Live, Fresh
<1>6. CASE k = l
  <2>1. ~Sigint(l)
    BY <1>6 DEF Sigint, Fresh
  <2>2. ASSUME NEW to \in {"born", "ready", "known", "init", "loop", "poll"},
               kids' = [kids EXCEPT ![k].at = to]
        PROVE  Stays(k)
    <3>1. kids'[k].at = to /\ ~kids'[k].sigint /\ ~kids'[k].stopping /\ ~kids'[k].down
      BY <1>3, <2>2 DEF Kid, Fresh
    <3> QED BY <1>2, <3>1 DEF Stays, Live, Fresh
  <2>3. CASE SignalsInit(k) \/ InstanceSet(k) \/ StateCheck(k) \/ LoopTest(k) \/ Accept(k)
    BY <2>2, <2>3 DEF SignalsInit, InstanceSet, StateCheck, LoopTest, Accept, Moves, Fresh
  <2>4. CASE Listen(k)
    <3>1. ~\E j \in DOMAIN kids : Listening(j) /\ kids[j].i = kids[k].i
      BY <2>4 DEF AddressFree, Listen
    <3>2. kids' = [kids EXCEPT ![k].at = "loop", ![k].stopping = FALSE]
      BY <2>4, <3>1 DEF Listen
    <3>3. kids'[k].at = "loop" /\ ~kids'[k].sigint /\ ~kids'[k].stopping /\ ~kids'[k].down
      BY <1>3, <3>2 DEF Kid, Fresh
    <3> QED BY <1>2, <3>3 DEF Stays, Live, Fresh
  <2>5. ~PollReturns(k) /\ ~Close(k)
    BY DEF PollReturns, Close, Moves, Fresh
  <2> QED BY <1>6, <2>1, <2>3, <2>4, <2>5 DEF KidStep
<1> QED BY <1>5, <1>6

\* What a handler of one master does leaves the workers of another alone.
LEMMA OthersStay ==
    ASSUME Typed, Family, Owns, ~hasty, ~Hasty,
           NEW m \in Masters, NEW n \in Masters, n # m, HoldsAll(m), MasterStep(n),
           NEW k \in DOMAIN kids, kids[k].master = m, Live(k), Fresh(k)
    PROVE  Stays(k)
<1>1. kids \in Seq(Kid) /\ kids[k] \in Kid
  BY DEF Typed, TypeOK
<1>2. ASSUME k \in DOMAIN kids', kids'[k] = kids[k] PROVE Stays(k)
  BY <1>2 DEF Stays, Live, Fresh
<1>3. CASE PidStep(n) \/ CreateWorkers(n) \/ Fork(n) \/ AssignPid(n) \/ TestRestart(n)
  <2>1. kids' = kids \/ \E x : kids' = Append(kids, x)
    BY <1>3 DEF PidStep, CreateWorkers, Fork, AssignPid, TestRestart
  <2> QED BY <1>1, <1>2, <2>1
<1>4. CASE (\E sig \in {"INT", "USR"} : Deliver(n, sig)) \/ HandlerReturn(n)
  BY <1>1, <1>2, <1>4 DEF Deliver, HandlerReturn
<1>5. CASE WaitWorker(n)
  <2>1. kids' = kids \/ \E j \in DOMAIN kids : kids[j].master = n /\ kids' = [kids EXCEPT ![j].reaped = TRUE]
    BY <1>5 DEF WaitWorker
  <2> QED BY <1>1, <1>2, <2>1
<1>6. CASE StopWorker(n)
  <2> DEFINE i == Top(n).i  pid == wpid[n][i]
  <2>1. handlers[n] # <<>> /\ i \in 1 .. Workers /\ i <= Last(n)
    BY <1>6, Stack, WorkersAssumption DEF StopWorker, Handler, Last
  <2>2. CASE pid = NoPid
    <3>1. kids' = kids \/ \E j \in DOMAIN kids : ~kids[j].is_forked /\ kids' \in Told(j)
      BY <1>6, <2>2 DEF StopWorker, MarkWorker
    <3>2. ASSUME NEW j \in DOMAIN kids, ~kids[j].is_forked, kids' \in Told(j)
          PROVE  k \in DOMAIN kids' /\ kids'[k] = kids[k]
      <4>1. j # k
        BY <3>2 DEF Live
      <4> QED BY <1>1, <3>2, <4>1 DEF Told
    <3> QED BY <1>1, <1>2, <3>1, <3>2
  <2>3. CASE pid \notin {NoPid, Failed}
    <3>1. kids' = Interrupted({pid})
      BY <1>6, <2>3 DEF StopWorker, KillWorker
    <3>2. pid # k
      BY <2>1, <2>3 DEF Owns, Owned
    <3>3. k \in DOMAIN kids' /\ kids'[k] = kids[k]
      BY <1>1, <3>1, <3>2 DEF Interrupted
    <3> QED BY <1>2, <3>3
  <2>4. CASE pid = Failed
    <3>1. KillsAll(n)
      BY <2>1, <2>4 DEF KillsAll
    <3>2. ~Exists(m)
      BY <3>1 DEF Hasty
    <3>3. HeldBy(m, k) /\ ~master[m].debug
      BY DEF HoldsAll, Live, Family, Parents
    <3>4. \A l \in DOMAIN kids : kids[l].master = m => kids[l].is_forked
      BY <3>3 DEF Family, Parents
    <3> QED BY <3>2, <3>3, <3>4 DEF Exists, HeldBy
  <2> QED BY <2>2, <2>3, <2>4
<1> QED BY <1>3, <1>4, <1>5, <1>6 DEF MasterStep

\* What a master does when it is in no handler after it.
LEMMA OwnCrew ==
    ASSUME Typed, Family, NEW m \in Masters, HoldsAll(m), HoldsAll(m)', AtEase(m), UnmarkedAt(m),
           handlers[m] = <<>> => Crewed(m), MasterStep(m), handlers'[m] = <<>>
    PROVE  Crewed(m)'
<1>1. /\ kids \in Seq(Kid) /\ master \in [Masters -> Master] /\ master[m] \in Master
      /\ handlers \in [Masters -> Seq(Handler)] /\ handlers[m] \in Seq(Handler)
  BY DEF Typed, TypeOK
<1>2. ASSUME master'[m].at \notin {"fork", "assign", "forked", "pause"} PROVE Crewed(m)'
  BY <1>2 DEF Crewed, HoldsAll, HeldBy
<1>3. CASE Fork(m) \/ AssignPid(m)
  <2>1. handlers[m] = <<>> /\ ~master[m].debug
    BY <1>3 DEF Fork, AssignPid, Family, Births
  <2> QED BY <1>3, <2>1, ForkCrew
<1>4. CASE CreateWorkers(m)
  <2>1. /\ master[m].at = "create" /\ UNCHANGED wpid
        /\ master'[m].i = master[m].i
        /\ master[m].debug => master'[m].at = "run"
        /\ ~master[m].debug => master'[m].at = "fork" /\ kids' = kids
    BY <1>1, <1>4 DEF CreateWorkers, Goes, Master
  <2>2. CASE master[m].debug
    <3>1. master'[m].at = "run"
      BY <2>1, <2>2, Zenon
    <3> QED BY <1>2, <3>1
  <2>3. CASE ~master[m].debug
    <3>1. /\ master'[m].at = "fork" /\ kids' = kids
          /\ master[m].at \in {"none", "truncate", "write", "create"} => master[m].i = 1
      BY <2>1, <2>3, Zenon DEF UnmarkedAt
    <3>2. \A k \in DOMAIN kids' : kids'[k].master # m
      BY <2>1, <3>1 DEF Family, Parents
    <3>3. \A i \in 1 .. Workers : ~Passed(m, i)'
      BY <2>1, <3>1 DEF Passed
    <3> QED BY <3>1, <3>2, <3>3 DEF Crewed
  <2> QED BY <2>2, <2>3
<1>5. CASE TestRestart(m)
  <2>1. /\ master[m].at = "test" /\ UNCHANGED <<kids, wpid>>
        /\ master'[m].at \in {"fork", "clear"} /\ master'[m].i = 1
    BY <1>1, <1>5 DEF TestRestart, Master
  <2>2. \A k \in DOMAIN kids' : kids'[k].master = m => ~Live(k)'
    BY <2>1 DEF HoldsAll, HeldBy, Live
  <2>3. CASE master'[m].at = "fork"
    <3>1. \A i \in 1 .. Workers : ~Passed(m, i)'
      BY <2>1, <2>3 DEF Passed
    <3> QED BY <2>2, <2>3, <3>1 DEF Crewed
  <2> QED BY <1>2, <2>1, <2>3
<1>6. CASE PidStep(m)
  <2>1. CASE Pause(m)
    <3>1. /\ master[m].at = "forked" /\ master'[m].at = "pause" /\ UNCHANGED <<kids, wpid>>
      BY <1>1, <1>6, <2>1 DEF PidStep, Pause, Goes, Master
    <3>2. \A i \in 1 .. Workers : Passed(m, i)
      BY <3>1 DEF Passed
    <3>3. handlers[m] = <<>>
      BY <2>1 DEF Pause, Goes
    <3> QED BY <1>2, <3>1, <3>2, <3>3 DEF Crewed, Fresh, Works, Live
  <2> QED BY <1>1, <1>2, <1>6, <2>1 DEF PidStep, WritePidOpen, WritePidWrite, RunReturns, ClearPid,
                                        MasterExit, Goes, Master
<1>7. CASE HandlerReturn(m)
  <2>1. handlers[m] # <<>> /\ handlers'[m] = Resumed(m)
    BY <1>1, <1>7 DEF HandlerReturn
  <2>2. Under(m) = <<>>
    <3>1. Under(m) \in Seq(Handler)
      BY <2>1, Stack
    <3>2. ASSUME Under(m) # <<>> PROVE NextWorker(Under(m)) # <<>>
      <4>1. DOMAIN NextWorker(Under(m)) = DOMAIN Under(m)
        BY DEF NextWorker
      <4>2. DOMAIN Under(m) # {}
        <5>1. Len(Under(m)) \in Nat \ {0} /\ DOMAIN Under(m) = 1 .. Len(Under(m))
          BY <3>1, <3>2
        <5> QED BY <5>1
      <4>3. DOMAIN <<>> = {}
        OBVIOUS
      <4> QED BY <4>1, <4>2, <4>3
    <3> QED BY <2>1, <3>2 DEF Resumed
  <2>3. master'[m].at = IF master[m].at = "pause" THEN "test" ELSE master[m].at
    BY <1>1, <1>7, <2>2 DEF HandlerReturn, Master
  <2> QED BY <1>2, <2>1, <2>3 DEF AtEase
<1>8. CASE \E sig \in {"INT", "USR"} : Deliver(m, sig)
  <2>1. \E h : handlers'[m] = Append(handlers[m], h)
    BY <1>1, <1>8 DEF Deliver
  <2> QED BY <1>1, <2>1
<1>9. CASE StopWorker(m) \/ WaitWorker(m)
  <2>1. DOMAIN handlers[m] # {}
    <3>1. handlers[m] # <<>>
      BY <1>9 DEF StopWorker, WaitWorker
    <3>2. Len(handlers[m]) \in Nat \ {0}
      BY <3>1, Stack
    <3>3. DOMAIN handlers[m] = 1 .. Len(handlers[m])
      BY <1>1
    <3>4. 1 \in 1 .. Len(handlers[m])
      BY <3>2
    <3> QED BY <3>3, <3>4, Zenon
  <2>2. \/ handlers'[m] = NextWorker(handlers[m])
        \/ handlers'[m] = [handlers[m] EXCEPT ![Len(handlers[m])].wait = TRUE]
    BY <1>1, <1>9 DEF StopWorker, MarkWorker, KillWorker, WaitWorker
  <2>3. DOMAIN handlers'[m] = DOMAIN handlers[m]
    BY <2>2 DEF NextWorker
  <2>4. DOMAIN <<>> = {}
    OBVIOUS
  <2> QED BY <2>1, <2>3, <2>4
<1> QED BY <1>3, <1>4, <1>5, <1>6, <1>7, <1>8, <1>9 DEF MasterStep

\* Every step.
LEMMA MannedStep ==
    ASSUME IInv, IInv', Crew, [Next]_vars
    PROVE  Manned'
<1>1. /\ Typed /\ Family /\ AddressFree
      /\ kids \in Seq(Kid) /\ master \in [Masters -> Master] /\ handlers \in [Masters -> Seq(Handler)]
      /\ wpid \in [Masters -> [1 .. Workers -> Nat \cup {Failed}]]
  BY Unbound DEF IInv, Typed, TypeOK, Family
<1> SUFFICES ASSUME ~hasty', NEW m \in Masters, handlers'[m] = <<>> PROVE Crewed(m)'
  BY DEF Manned
<1>2. CASE UNCHANGED vars
  BY <1>2 DEF Crew, Manned, Crewed, Passed, Works, Live, Fresh, vars, masterVars
<1>3. CASE Next
  <2>1. /\ ~hasty /\ ~Hasty /\ Owns /\ UnmarkedAt(m) /\ (handlers[m] = <<>> => Crewed(m))
        /\ AtEase(m) /\ HoldsAll(m) /\ HoldsAll(m)'
    BY <1>3, Steps, NotHasty DEF Crew, Unhurried, Unmarked, Manned, IInv, Held
  <2>2. ASSUME handlers'[m] = handlers[m], master'[m] = master[m], wpid'[m] = wpid[m],
               Evolves \/ \E x : kids' = Append(kids, x) /\ x.master # m,
               \A k \in DOMAIN kids : kids[k].master = m /\ Live(k) /\ Fresh(k) => Stays(k)
        PROVE  Crewed(m)'
    <3>1. Crewed(m)
      BY <2>1, <2>2
    <3> QED BY <1>1, <2>2, <3>1, SameCrew DEF Crewed
  <2>3. ASSUME NEW c \in Commands, Issue(c) \/ CliStep(c), UNCHANGED kids PROVE Crewed(m)'
    <3>1. CASE StartFork(c) /\ c = m
      <4>1. cli[c].at = "go"
        BY <3>1 DEF StartFork, Advances
      <4>2. master[m].at = "none" /\ master[m] \in Master
        BY <1>1, <3>1, <4>1 DEF Family, Births
      <4>3. master'[m].at = "truncate"
        BY <1>1, <3>1, <4>2 DEF StartFork, Master
      <4>4. \A k \in DOMAIN kids' : kids'[k].master # m
        BY <1>1, <2>3, <4>2 DEF Family, Parents
      <4> QED BY <4>3, <4>4 DEF Crewed
    <3>2. CASE ~(StartFork(c) /\ c = m)
      <4>1. master'[m] = master[m] /\ wpid' = wpid /\ handlers' = handlers
        BY <1>1, <2>3, <3>2 DEF Issue, CliStep, StopRead, StopKill, StopPoll, StartFork, masterVars
      <4>2. \A k \in DOMAIN kids : kids[k].master = m /\ Live(k) /\ Fresh(k) => Stays(k)
        BY <2>3 DEF Stays, Live, Fresh
      <4>3. Evolves
        BY <1>1, <2>3, SameEvolves
      <4> QED BY <2>2, <4>1, <4>2, <4>3
    <3> QED BY <3>1, <3>2
  <2>4. ASSUME NEW n \in Masters, MasterStep(n) PROVE Crewed(m)'
    <3>1. CASE n = m
      BY <1>1, <2>1, <2>4, <3>1, OwnCrew
    <3>2. CASE n # m
      <4>1. master'[m] = master[m] /\ wpid'[m] = wpid[m]
        BY <1>1, <2>4, <3>2 DEF MasterStep, PidStep, WritePidOpen, WritePidWrite, RunReturns,
              Pause, ClearPid, MasterExit, Goes, CreateWorkers, Fork, AssignPid, TestRestart, Deliver,
              StopWorker, WaitWorker, HandlerReturn
      <4>2. handlers'[m] = handlers[m]
        BY <1>1, <2>4, <3>2 DEF MasterStep, PidStep, CreateWorkers, Fork, AssignPid, TestRestart,
              Deliver, StopWorker, MarkWorker, KillWorker, WaitWorker, HandlerReturn
      <4>3. \A k \in DOMAIN kids : kids[k].master = m /\ Live(k) /\ Fresh(k) => Stays(k)
        BY <1>1, <2>1, <2>4, <3>2, OthersStay
      <4>4. Evolves \/ \E x : kids' = Append(kids, x) /\ x.master # m
        <5>1. CASE CreateWorkers(n) \/ Fork(n)
          <6>1. NewKid(n, master[n].i).master = n /\ OwnWorker(n).master = n
            BY DEF NewKid, OwnWorker
          <6>2. kids' \in {kids, Append(kids, NewKid(n, master[n].i)), Append(kids, OwnWorker(n))}
            BY <5>1 DEF CreateWorkers, Fork
          <6> QED BY <1>1, <3>2, <6>1, <6>2, SameEvolves
        <5>2. CASE PidStep(n) \/ AssignPid(n) \/ TestRestart(n)
          BY <1>1, <5>2, SameEvolves DEF PidStep, AssignPid, TestRestart
        <5> QED BY <1>1, <2>4, <5>1, <5>2, HandlerType DEF MasterStep
      <4> QED BY <2>2, <4>1, <4>2, <4>3, <4>4
    <3> QED BY <3>1, <3>2
  <2>5. ASSUME NEW l \in DOMAIN kids, KidStep(l) \/ Accept(l) \/ Close(l) \/ Sigint(l),
               UNCHANGED <<cliVars, masterVars>>
        PROVE  Crewed(m)'
    <3>1. Evolves
      BY <1>1, <2>5, KidStepEvolves, SigintEvolves
    <3>2. \A k \in DOMAIN kids : kids[k].master = m /\ Live(k) /\ Fresh(k) => Stays(k)
      BY <1>1, <2>1, <2>5, GoesOn
    <3> QED BY <2>2, <2>5, <3>1, <3>2 DEF masterVars
  <2> QED BY <1>3, <2>3, <2>4, <2>5, Steps
<1> QED BY <1>2, <1>3
-----------------------------------------------------------------------------
\* Nothing has been issued.
LEMMA InitCrew == Init => Crew
<1> SUFFICES ASSUME Init PROVE Crew
  OBVIOUS
<1>1. Unhurried
  BY MastersAssumption DEF Init, Unhurried, Hasty, Starting, KillsAll, Commands
<1>2. Owns
  BY DEF Init, Owns, Owned
<1>3. Unmarked
  BY DEF Init, Unmarked, UnmarkedAt, Passed
<1>4. Manned
  BY DEF Init, Manned, Crewed, Passed
<1> QED BY <1>1, <1>2, <1>3, <1>4 DEF Crew

\* Crew holds of every reachable state.
LEMMA CrewInvariant == Spec => [](IInv /\ Crew)
<1>1. ASSUME IInv, IInv', Crew, [Next]_vars PROVE Crew'
  <2>1. Typed /\ Family /\ Held
    BY <1>1 DEF IInv, Typed, Family
  <2> QED BY <1>1, <2>1, UnhurriedStep, OwnsStep, UnmarkedStep, MannedStep DEF Crew
<1> QED BY InitCrew, Invariant, <1>1, PTL DEF Spec

(***************************************************************************)
(* A master in pause has one worker alive for each address, the one whose  *)
(* pid hk_worker_fork_and_run has returned, where it could fork one.       *)
(***************************************************************************)
THEOREM ServerPausedHasWorkers == Spec => []PausedHasWorkers
<1>1. ASSUME IInv, Crew PROVE PausedHasWorkers
  <2> SUFFICES ASSUME ~hasty, NEW m \in Masters, master[m].at = "pause", handlers[m] = <<>>,
                      NEW i \in 1 .. Workers
               PROVE  {k \in DOMAIN kids : kids[k].master = m /\ kids[k].i = i
                                           /\ kids[k].at # "exited"} = {wpid[m][i]} \ {Failed}
    BY DEF PausedHasWorkers
  <2>1. Crewed(m) /\ HoldsAll(m) /\ ~master[m].debug
    BY <1>1 DEF Crew, Manned, IInv, Held, Births
  <2>2. wpid[m][i] = Failed \/ Works(m, i, wpid[m][i])
    BY <2>1 DEF Crewed, Passed
  <2>3. ASSUME NEW k \in DOMAIN kids, kids[k].master = m, kids[k].i = i, kids[k].at # "exited"
        PROVE  k = wpid[m][i] /\ k # Failed
    <3>1. Live(k)
      BY <1>1, <2>1, <2>3 DEF IInv, Parents, Live
    <3>2. HeldBy(m, k)
      BY <2>1, <2>3, <3>1 DEF HoldsAll
    <3>3. k \in Nat
      BY <1>1 DEF IInv, TypeOK
    <3> QED BY <2>3, <3>2, <3>3 DEF HeldBy, Failed
  <2> QED BY <2>2, <2>3 DEF Works, Live
<1> QED BY CrewInvariant, <1>1, PTL
=============================================================================
