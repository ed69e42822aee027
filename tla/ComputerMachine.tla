--------------------------- MODULE ComputerMachine ---------------------------
(***************************************************************************)
(* One bot's computer as the supervisor drives it: the lifecycle's own     *)
(* memory (idle clock, busy mark), the provider's composed operations and  *)
(* the Docker runtime's calls, every one of which the daemon may interleave *)
(* with the calls of another request.  A request is the sequence of daemon *)
(* calls it still has to make; the calls that read the daemon decide what  *)
(* comes next.  The machine has a credential-proxy sidecar, as a deployment *)
(* with the proxy configured has.                                          *)
(***************************************************************************)
EXTENDS Integers, Sequences, FiniteSets

CONSTANTS
  Clients,        \* requests that reach the HTTP surface, each made once
  Kinds,          \* what a request may ask for
  IdleTimeout,    \* ticks without activity after which the sweep parks; 0: no sweep
  MaxRestarts,    \* how often the supervisor process dies
  MaxRefusals,    \* how often the daemon refuses a call
  MaxBoxDeaths,   \* how often the machine's main process exits
  MaxProxyDeaths  \* how often the sidecar's process exits

ASSUME MachineAssumption ==
  /\ Kinds \subseteq {"boot", "stop", "reset", "destroy", "exec", "grant", "revoke"}
  /\ IdleTimeout \in Nat
  /\ {MaxRestarts, MaxRefusals, MaxBoxDeaths, MaxProxyDeaths} \subseteq Nat
  /\ IsFiniteSet(Clients) /\ Clients \cap {"sweeper", "reconciler"} = {}

VARIABLES
  box,          \* the machine's container: its id (0: none), whether it runs
  proxy,        \* the sidecar: id, whether it runs, what its grant layer holds
  network,      \* the per-computer network exists
  idle,         \* ticks since lastActivity, saturated; Unseen: no entry
  busy,         \* the computer is in the busy set
  req,          \* per request: kind, the calls left, the ids it holds
  mishaps,      \* restarts, refusals and deaths still to come
  overtaken,    \* history: the requests in flight when a grant was last parked
  late          \* history: the machine was last started by one of those

machineVars == <<box, proxy, network, idle, busy, req, mishaps, overtaken, late>>
history == <<overtaken, late>>
daemon == <<box, proxy, network>>

Requests == Clients \cup {"sweeper", "reconciler"}
Unseen == -1
NoBox == [id |-> 0, up |-> FALSE]
NoProxy == [id |-> 0, up |-> FALSE, grant |-> "none"]

(* What a request does between its arrival and its answer; `alone` records *)
(* that nothing else touched the machine meanwhile.                        *)
Request(kind, todo, alone) ==
  [kind |-> kind, todo |-> todo, box |-> 0, proxy |-> 0, result |-> "none", alone |-> alone]
NoRequest == Request("none", <<>>, FALSE)
Answered == Request("answered", <<>>, FALSE)

(* The daemon names containers uniquely: an id nothing refers to any more   *)
(* stands for a new one.                                                   *)
Ids == 1..(3 + 2 * Cardinality(Requests))
InUse == {box.id, proxy.id} \cup {req[r].box : r \in Requests} \cup {req[r].proxy : r \in Requests}
FreshId == CHOOSE n \in Ids \ InUse : \A m \in Ids \ InUse : n <= m

Working(r) == req[r].todo # <<>>
Quiet == \A r \in Requests : ~Working(r)
Calling(r, call) == Working(r) /\ Head(req[r].todo) = call

-----------------------------------------------------------------------------
(* The runtime's operations as the daemon calls they make.                 *)
PrepareCreate == <<"prepare", "makeBox", "makeNewProxy", "joinNewProxy">>
Start == <<"seeProxy", "dropProxy", "makeProxy", "joinProxy", "startProxy", "startBox">>
Ready == <<"boxReady", "proxyReady">>
Stop == <<"stopBox", "seeProxy", "dropProxy", "seeStopped">>
Remove == <<"seeProxy", "dropProxy", "dropBox", "dropNetwork">>

(* The first calls of the lifecycle's verbs: recover is boot by another    *)
(* name, and reset is destroy followed by ensure.                          *)
FirstCalls(kind) ==
  CASE kind = "boot" -> <<"findEnsure", "touch">>
    [] kind = "stop" -> <<"findStop">>
    [] kind = "reset" -> <<"findRemove", "findEnsure", "touch">>
    [] kind = "destroy" -> <<"findRemove">>
    [] kind = "exec" -> <<"findExec", "begin", "running">>
    [] kind = "grant" -> <<"seeLive", "putGrant">>
    [] kind = "revoke" -> <<"seeRevoke", "putTombstone">>

-----------------------------------------------------------------------------
(* The computer was never booted, or was booted and is up.                 *)
MachineInit ==
  /\ \/ box = NoBox /\ proxy = NoProxy /\ network = FALSE
     \/ /\ box = [id |-> 1, up |-> TRUE]
        /\ proxy = [id |-> 2, up |-> TRUE, grant |-> "none"]
        /\ network = TRUE
  /\ idle = Unseen
  /\ busy = FALSE
  /\ req = [r \in Requests |-> NoRequest]
  /\ mishaps \in [restarts : 0 .. MaxRestarts, refusals : 0 .. MaxRefusals,
                  boxDeaths : 0 .. MaxBoxDeaths, proxyDeaths : 0 .. MaxProxyDeaths]
  /\ overtaken = {} /\ late = FALSE

(* A step of one request disturbs the others; what an answered request was *)
(* is then of no more interest.                                            *)
Disturbed(q) ==
  IF Working(q) \/ req[q] = NoRequest THEN [req[q] EXCEPT !.alone = FALSE] ELSE Answered

(* Request r goes on as `new`.                                             *)
Go(r, new) == req' = [q \in Requests |-> IF q = r THEN new ELSE Disturbed(q)]
Next1(r) == [req[r] EXCEPT !.todo = Tail(@)]
Done(r, result) == [req[r] EXCEPT !.todo = <<>>, !.box = 0, !.proxy = 0, !.result = result]
Answer(r) == IF Len(req[r].todo) = 1 THEN Done(r, "ok") ELSE Next1(r)
(* A thrown call ends the request; exec's `finally` clears the busy mark.  *)
Throw(r) == /\ Go(r, Done(r, "failed"))
            /\ busy' = IF req[r].kind = "exec" THEN FALSE ELSE busy

(* A request arrives.  exec touches the clock and marks the computer busy  *)
(* before its first call; destroy forgets the clock first.                 *)
Submit(r, kind) ==
  /\ r \in Clients /\ req[r] = NoRequest
  /\ Go(r, Request(kind, FirstCalls(kind), Quiet))
  /\ idle' = CASE kind = "exec" -> 0 [] kind = "destroy" -> Unseen [] OTHER -> idle
  /\ busy' = (busy \/ kind = "exec")
  /\ UNCHANGED <<daemon, mishaps, history>>

-----------------------------------------------------------------------------
(* The calls that read the machine and choose the rest of the operation.   *)
EnsureCalls == IF box.up THEN Ready
               ELSE IF box.id # 0 THEN Start \o Ready
               ELSE PrepareCreate \o Start \o Ready

FindEnsure(r) ==
  /\ Calling(r, "findEnsure")
  /\ Go(r, [req[r] EXCEPT !.todo = EnsureCalls \o Tail(@), !.box = box.id])
  /\ UNCHANGED <<daemon, idle, busy, mishaps, history>>

FindStop(r) ==
  /\ Calling(r, "findStop")
  /\ Go(r, IF box.up THEN [req[r] EXCEPT !.todo = Stop \o Tail(@), !.box = box.id]
           ELSE Answer(r))
  /\ UNCHANGED <<daemon, idle, busy, mishaps, history>>

FindRemove(r) ==
  /\ Calling(r, "findRemove")
  /\ Go(r, IF box.id # 0
           THEN [req[r] EXCEPT !.todo = Remove \o Tail(@), !.box = box.id]
           ELSE Answer(r))
  /\ UNCHANGED <<daemon, idle, busy, mishaps, history>>

FindExec(r) ==
  /\ Calling(r, "findExec")
  /\ IF box.up THEN /\ Go(r, [req[r] EXCEPT !.todo = Tail(@), !.box = box.id])
                    /\ UNCHANGED busy
     ELSE Throw(r)
  /\ UNCHANGED <<daemon, idle, mishaps, history>>

-----------------------------------------------------------------------------
(* create: the network is ensured, the container created or, when another  *)
(* ensure won the race, adopted by name.                                   *)
PrepareNetwork(r) ==
  /\ Calling(r, "prepare")
  /\ network' = TRUE
  /\ Go(r, Next1(r))
  /\ UNCHANGED <<box, proxy, idle, busy, mishaps, history>>

MakeBox(r) ==
  /\ Calling(r, "makeBox")
  /\ box' = IF box.id = 0 THEN [id |-> FreshId, up |-> FALSE] ELSE box
  /\ Go(r, [Next1(r) EXCEPT !.box = box'.id])
  /\ UNCHANGED <<proxy, network, idle, busy, mishaps, history>>

(* createProxyFor, its create and its connection to the egress network.    *)
MakeProxy(r) ==
  /\ Calling(r, "makeProxy") \/ Calling(r, "makeNewProxy")
  /\ proxy' = IF proxy.id = 0 THEN [NoProxy EXCEPT !.id = FreshId] ELSE proxy
  /\ Go(r, [Next1(r) EXCEPT !.proxy = proxy'.id])
  /\ UNCHANGED <<box, network, idle, busy, mishaps, history>>

(* A sidecar that cannot be joined fails the operation; inside create the  *)
(* container goes back to gone first.                                      *)
UndoBox(r) == box' = IF box.id = req[r].box THEN NoBox ELSE box

JoinProxy(r) ==
  /\ Calling(r, "joinProxy") \/ Calling(r, "joinNewProxy")
  /\ IF proxy.id = req[r].proxy THEN Go(r, Next1(r)) /\ UNCHANGED <<box, busy>>
     ELSE Throw(r) /\ IF Calling(r, "joinNewProxy") THEN UndoBox(r) ELSE UNCHANGED box
  /\ UNCHANGED <<proxy, network, idle, mishaps, history>>

-----------------------------------------------------------------------------
(* start and the other operations that replace or remove the sidecar: it   *)
(* is inspected, then, if there is one, removed by the id that was seen; 404  *)
(* is an answer.                                                           *)
SeeProxy(r) ==
  /\ Calling(r, "seeProxy")
  /\ Go(r, IF proxy.id # 0 THEN [Next1(r) EXCEPT !.proxy = proxy.id]
           ELSE [req[r] EXCEPT !.todo = Tail(Tail(@)), !.proxy = 0])
  /\ UNCHANGED <<daemon, idle, busy, mishaps, history>>

(* Mutant: a sidecar left over from a crash is adopted, not replaced. *)
DropProxyAdopted(r) ==
  /\ Calling(r, "dropProxy")
  /\ proxy' = IF proxy.id = req[r].proxy /\ req[r].kind # "boot" THEN NoProxy ELSE proxy
  /\ Go(r, [Next1(r) EXCEPT !.proxy = 0])
  /\ UNCHANGED <<box, network, idle, busy, mishaps, history>>

DropProxy(r) ==
  /\ Calling(r, "dropProxy")
  /\ proxy' = IF proxy.id = req[r].proxy THEN NoProxy ELSE proxy
  /\ Go(r, [Next1(r) EXCEPT !.proxy = 0])
  /\ UNCHANGED <<box, network, idle, busy, mishaps, history>>

StartProxy(r) ==
  /\ Calling(r, "startProxy")
  /\ IF proxy.id = req[r].proxy
     THEN /\ proxy' = [proxy EXCEPT !.up = TRUE]
          /\ Go(r, [Next1(r) EXCEPT !.proxy = 0]) /\ UNCHANGED busy
     ELSE Throw(r) /\ UNCHANGED proxy
  /\ UNCHANGED <<box, network, idle, mishaps, history>>

StartBox(r) ==
  /\ Calling(r, "startBox")
  /\ IF box.id = req[r].box
     THEN /\ box' = [box EXCEPT !.up = TRUE] /\ Go(r, Next1(r)) /\ UNCHANGED busy
          /\ late' = IF box.up THEN late ELSE r \in overtaken
     ELSE Throw(r) /\ UNCHANGED <<box, late>>
  /\ UNCHANGED <<proxy, network, idle, mishaps, overtaken>>

(* ready: a machine that is down runs out the boot budget, one that is      *)
(* gone or whose sidecar does not run is refused.                          *)
BoxReady(r) ==
  /\ Calling(r, "boxReady")
  /\ IF box.id = req[r].box /\ box.up THEN Go(r, Next1(r)) /\ UNCHANGED busy ELSE Throw(r)
  /\ UNCHANGED <<daemon, idle, mishaps, history>>

ProxyReady(r) ==
  /\ Calling(r, "proxyReady")
  /\ IF proxy.up THEN Go(r, Next1(r)) /\ UNCHANGED busy ELSE Throw(r)
  /\ UNCHANGED <<daemon, idle, mishaps, history>>

(* The lifecycle's continuation after ensure.                              *)
Touch(r) ==
  /\ Calling(r, "touch")
  /\ idle' = 0
  /\ Go(r, Answer(r))
  /\ UNCHANGED <<daemon, busy, mishaps, history>>

-----------------------------------------------------------------------------
(* stop parks the container; what its sidecar was granted is parked too.   *)
StopBox(r) ==
  /\ Calling(r, "stopBox")
  /\ IF box.id = req[r].box /\ box.up
     THEN /\ box' = [box EXCEPT !.up = FALSE]
          /\ proxy' = [proxy EXCEPT !.grant = IF @ = "live" THEN "parked" ELSE @]
          /\ overtaken' = IF proxy.grant = "none" THEN overtaken ELSE {q \in Requests : Working(q)}
     ELSE UNCHANGED <<box, proxy, overtaken>>
  /\ Go(r, Next1(r))
  /\ UNCHANGED <<network, idle, busy, mishaps, late>>

(* The last read of stop; the sweep then forgets the machine's clock.      *)
SeeStopped(r) ==
  /\ Calling(r, "seeStopped")
  /\ Go(r, Answer(r))
  /\ UNCHANGED <<daemon, idle, busy, mishaps, history>>

DropBox(r) ==
  /\ Calling(r, "dropBox")
  /\ UndoBox(r)
  /\ Go(r, Next1(r))
  /\ UNCHANGED <<proxy, network, idle, busy, mishaps, history>>

(* The daemon refuses to remove a network with a container attached.       *)
DropNetwork(r) ==
  /\ Calling(r, "dropNetwork")
  /\ IF box.id = 0 /\ proxy.id = 0
     THEN network' = FALSE /\ Go(r, Answer(r)) /\ UNCHANGED busy
     ELSE Throw(r) /\ UNCHANGED network
  /\ UNCHANGED <<box, proxy, idle, mishaps, history>>

-----------------------------------------------------------------------------
(* exec: the command begins only in a running container and ends by itself, *)
(* by its timeout or with the container.                                   *)
BeginCommand(r) ==
  /\ Calling(r, "begin")
  /\ IF box.id = req[r].box /\ box.up THEN Go(r, Next1(r)) /\ UNCHANGED busy ELSE Throw(r)
  /\ UNCHANGED <<daemon, idle, mishaps, history>>

EndCommand(r) ==
  /\ Calling(r, "running")
  /\ Go(r, Done(r, "ok"))
  /\ busy' = FALSE
  /\ UNCHANGED <<daemon, idle, mishaps, history>>

(* grant and revoke write through the daemon onto the sidecar they saw; a  *)
(* revoke that sees no running sidecar has nothing to do.                  *)
SeeLiveProxy(r) ==
  /\ Calling(r, "seeLive") \/ Calling(r, "seeRevoke")
  /\ IF proxy.up THEN Go(r, [Next1(r) EXCEPT !.proxy = proxy.id]) /\ UNCHANGED busy
     ELSE IF Calling(r, "seeRevoke") THEN Go(r, Done(r, "ok")) /\ UNCHANGED busy
     ELSE Throw(r)
  /\ UNCHANGED <<daemon, idle, mishaps, history>>

PutGrant(r) ==
  /\ Calling(r, "putGrant") \/ Calling(r, "putTombstone")
  /\ IF proxy.id = req[r].proxy
     THEN /\ proxy' = [proxy EXCEPT !.grant = IF Calling(r, "putGrant") THEN "live" ELSE "none"]
          /\ Go(r, Answer(r)) /\ UNCHANGED busy
     ELSE Throw(r) /\ UNCHANGED proxy
  /\ UNCHANGED <<box, network, idle, mishaps, history>>

-----------------------------------------------------------------------------
(* stopIdle, on the supervisor's interval: the machine is listed; if it was *)
(* running and is not busy when the list arrives, and has been idle long   *)
(* enough, it is stopped.  A machine never seen is adopted into the clock. *)
SweepList ==
  /\ IdleTimeout > 0
  /\ ~Working("sweeper") /\ box.up
  /\ Go("sweeper", Request("sweep", <<"check">>, FALSE))
  /\ UNCHANGED <<daemon, idle, busy, mishaps, history>>

(* Mutant: a machine this process never saw work is not taken into the clock. *)
SweepCheckSeenOnly ==
  /\ Calling("sweeper", "check")
  /\ UNCHANGED idle
  /\ Go("sweeper", IF ~busy /\ idle >= IdleTimeout
                   THEN [req["sweeper"] EXCEPT !.todo = <<"findStop", "forget">>]
                   ELSE Done("sweeper", "ok"))
  /\ UNCHANGED <<daemon, busy, mishaps, history>>

SweepCheck ==
  /\ Calling("sweeper", "check")
  /\ idle' = IF ~busy /\ idle = Unseen THEN 0 ELSE idle
  /\ Go("sweeper", IF ~busy /\ idle >= IdleTimeout
                   THEN [req["sweeper"] EXCEPT !.todo = <<"findStop", "forget">>]
                   ELSE Done("sweeper", "ok"))
  /\ UNCHANGED <<daemon, busy, mishaps, history>>

SweepForget ==
  /\ Calling("sweeper", "forget")
  /\ idle' = Unseen
  /\ Go("sweeper", Done("sweeper", "ok"))
  /\ UNCHANGED <<daemon, busy, mishaps, history>>

(* The supervisor dies: its memory and every request go; it comes back and *)
(* reconciles, next to the requests it already accepts.                    *)
SupervisorDies ==
  /\ mishaps.restarts > 0
  /\ mishaps' = [mishaps EXCEPT !.restarts = @ - 1]
  /\ idle' = Unseen /\ busy' = FALSE
  /\ req' = [r \in Requests |->
               IF r = "reconciler"
               THEN Request("reconcile", <<"adopt", "touch">>, FALSE)
               ELSE IF req[r] = NoRequest THEN NoRequest ELSE Answered]
  /\ overtaken' = {}
  /\ UNCHANGED <<daemon, late>>

(* reconcile's list: a machine that is up is ensured, a parked one is only *)
(* taken into the clock, none is none.                                     *)
ReconcileList ==
  /\ Calling("reconciler", "adopt")
  /\ Go("reconciler",
        [req["reconciler"] EXCEPT !.todo = IF box.up THEN <<"findEnsure", "touch">>
                                           ELSE IF box.id # 0 THEN <<"touch">> ELSE <<>>])
  /\ UNCHANGED <<daemon, idle, busy, mishaps, history>>

-----------------------------------------------------------------------------
(* The environment: the daemon refuses a call, a container's process exits, *)
(* time passes.  An exit is no call: nothing is in flight for it.          *)
DaemonRefuses(r) ==
  /\ Working(r) /\ mishaps.refusals > 0
  /\ Head(req[r].todo) \notin {"touch", "check", "forget", "running"}
  /\ mishaps' = [mishaps EXCEPT !.refusals = @ - 1]
  /\ req' = [q \in Requests |-> IF q = r THEN Answered ELSE req[q]]
  /\ busy' = IF req[r].kind = "exec" THEN FALSE ELSE busy
  /\ box' = IF Calling(r, "makeNewProxy") \/ Calling(r, "joinNewProxy")
            THEN IF box.id = req[r].box THEN NoBox ELSE box
            ELSE box
  /\ UNCHANGED <<proxy, network, idle, history>>

Disturb == req' = [q \in Requests |-> Disturbed(q)]

BoxDies ==
  /\ box.up /\ mishaps.boxDeaths > 0
  /\ box' = [box EXCEPT !.up = FALSE]
  /\ mishaps' = [mishaps EXCEPT !.boxDeaths = @ - 1]
  /\ Disturb
  /\ UNCHANGED <<proxy, network, idle, busy, history>>

ProxyDies ==
  /\ proxy.up /\ mishaps.proxyDeaths > 0
  /\ proxy' = [proxy EXCEPT !.up = FALSE]
  /\ mishaps' = [mishaps EXCEPT !.proxyDeaths = @ - 1]
  /\ Disturb
  /\ UNCHANGED <<box, network, idle, busy, history>>

Tick ==
  /\ idle # Unseen /\ idle < IdleTimeout
  /\ idle' = idle + 1
  /\ UNCHANGED <<daemon, busy, req, mishaps, history>>

-----------------------------------------------------------------------------
Step(r) ==
  \/ FindEnsure(r) \/ FindStop(r) \/ FindRemove(r) \/ FindExec(r)
  \/ PrepareNetwork(r) \/ MakeBox(r) \/ MakeProxy(r) \/ JoinProxy(r)
  \/ SeeProxy(r) \/ DropProxy(r) \/ StartProxy(r) \/ StartBox(r)
  \/ BoxReady(r) \/ ProxyReady(r) \/ Touch(r)
  \/ StopBox(r) \/ SeeStopped(r) \/ DropBox(r) \/ DropNetwork(r)
  \/ BeginCommand(r) \/ EndCommand(r) \/ SeeLiveProxy(r) \/ PutGrant(r)

Sweep == SweepList \/ SweepCheck \/ SweepForget

MachineNext ==
  \/ \E r \in Clients, kind \in Kinds : Submit(r, kind)
  \/ \E r \in Requests : Step(r) \/ DaemonRefuses(r)
  \/ Sweep \/ ReconcileList \/ SupervisorDies \/ BoxDies \/ ProxyDies \/ Tick

MachineSpec == MachineInit /\ [][MachineNext]_machineVars

-----------------------------------------------------------------------------
(* Every variable stays in its range. *)
MachineTypeOK ==
  /\ box.id \in {0} \cup Ids /\ proxy.id \in {0} \cup Ids
  /\ box.up => box.id # 0
  /\ proxy.up => proxy.id # 0
  /\ proxy.grant \in {"none", "live", "parked"}
  /\ idle \in Unseen..IdleTimeout
  /\ \A r \in Requests : /\ req[r].result \in {"none", "ok", "failed"}
                         /\ req[r].box \in {0} \cup Ids /\ req[r].proxy \in {0} \cup Ids

(* A grant that was on the sidecar when its machine was parked is not      *)
(* served by the machine that comes back: start and stop replace the       *)
(* sidecar, and a supervisor that died between parking the container and   *)
(* removing the sidecar leaves that to the next start.  The start must     *)
(* have begun after the machine was parked: one that had replaced the      *)
(* sidecar before and waited raises the machine next to what is left.      *)
NoParkedGrant == box.up /\ proxy.grant = "parked" => late

(* What the runtime says of a park, of a machine nothing is being done to: *)
(* a grant that was parked with it is not reachable when it comes back.    *)
(* The start the exception above is about breaks it for good when the      *)
(* supervisor dies, or the daemon refuses, before the sidecar is removed.  *)
ParkedMeansGone == Quiet /\ box.up => proxy.grant # "parked"

(* An operation nothing else interfered with brings the machine up with    *)
(* its sidecar, whatever races, crashes and half-finished operations it    *)
(* finds: reset always, and boot unless the machine runs without a sidecar. *)
AloneRevives ==
  \A r \in Clients :
    /\ req[r].alone /\ req[r].kind \in {"boot", "reset"} /\ ~Working(r)
    => \/ req[r].result = "ok" /\ box.up /\ proxy.up
       \/ req[r].kind = "boot" /\ box.up /\ ~proxy.up

(* What the supervisor makes of a machine, whoever else drives it.         *)
MachineIsSound == MachineTypeOK /\ NoParkedGrant /\ AloneRevives

(* A machine nobody uses any more is parked in the end: the sweep keeps    *)
(* looking, a machine it never saw enters the clock, a refused stop is     *)
(* tried again and no status of the supervisor keeps it from its turn.     *)
IdleIsParked == box.up ~> ~box.up

-----------------------------------------------------------------------------
(* The inductive strengthening PlatformProofs uses.                        *)

(* The calls that may come after a call in what a request has left to do.  *)
After(call) ==
  CASE call \in {"findEnsure", "adopt", "proxyReady"} -> {"touch"}
    [] call \in {"findStop", "seeStopped"} -> {"forget"}
    [] call \in {"findRemove", "dropNetwork"} -> {"findEnsure"}
    [] call = "findExec" -> {"begin"}
    [] call = "begin" -> {"running"}
    [] call = "seeLive" -> {"putGrant"}
    [] call = "seeRevoke" -> {"putTombstone"}
    [] call = "prepare" -> {"makeBox"}
    [] call = "makeBox" -> {"makeNewProxy"}
    [] call = "makeNewProxy" -> {"joinNewProxy"}
    [] call \in {"joinNewProxy", "stopBox"} -> {"seeProxy"}
    [] call = "seeProxy" -> {"dropProxy"}
    [] call = "dropProxy" -> {"makeProxy", "seeStopped", "dropBox"}
    [] call = "makeProxy" -> {"joinProxy"}
    [] call = "joinProxy" -> {"startProxy"}
    [] call = "startProxy" -> {"startBox"}
    [] call = "startBox" -> {"boxReady"}
    [] call = "boxReady" -> {"proxyReady"}
    [] call = "dropBox" -> {"dropNetwork"}
    [] OTHER -> {}
Ordered(todo) == \A n \in 1 .. Len(todo) - 1 : todo[n + 1] \in After(todo[n])

(* What boot and reset do, and that they end with the idle clock.          *)
RevivalCalls ==
  {"findRemove", "findEnsure", "prepare", "makeBox", "makeNewProxy", "joinNewProxy", "seeProxy",
   "dropProxy", "makeProxy", "joinProxy", "startProxy", "startBox", "boxReady", "proxyReady",
   "dropBox", "dropNetwork", "touch"}
CallNames ==
  RevivalCalls \cup
  {"findStop", "stopBox", "seeStopped", "forget", "findExec", "begin", "running", "seeLive",
   "putGrant", "seeRevoke", "putTombstone", "check", "adopt"}
Reviving(r) == req[r].kind \in {"boot", "reset"}
Revival(todo) ==
  todo # <<>> => /\ \A n \in 1 .. Len(todo) : todo[n] \in RevivalCalls
                 /\ todo[Len(todo)] = "touch"
Planned(r) == Ordered(req[r].todo) /\ (Reviving(r) => Revival(req[r].todo))

Boxes == [id : {0} \cup Ids, up : BOOLEAN]
Proxies == [id : {0} \cup Ids, up : BOOLEAN, grant : {"none", "live", "parked"}]
RequestStates ==
  [kind : Kinds \cup {"none", "answered", "sweep", "reconcile"}, todo : Seq(CallNames),
   box : {0} \cup Ids, proxy : {0} \cup Ids, result : {"none", "ok", "failed"}, alone : BOOLEAN]
MachineIsTyped ==
  /\ box \in Boxes /\ proxy \in Proxies /\ (box.up => box.id # 0)
  /\ (proxy.up => proxy.id # 0) /\ (proxy.grant # "none" => proxy.id # 0)
  /\ idle \in Unseen .. IdleTimeout /\ busy \in BOOLEAN
  /\ req \in [Requests -> RequestStates]

(* A call that goes by a container's id has one to go by.                  *)
HoldsIds(r) ==
  /\ Working(r) /\ Head(req[r].todo) \in
       {"makeNewProxy", "joinNewProxy", "seeProxy", "dropProxy", "makeProxy", "joinProxy",
        "startProxy", "startBox", "stopBox"} => req[r].box # 0
  /\ Working(r) /\ Head(req[r].todo) \in
       {"joinNewProxy", "joinProxy", "startProxy", "putGrant", "putTombstone"} => req[r].proxy # 0

(* Beside a parked grant, a start that was not overtaken has not passed    *)
(* the sidecar: it has not looked, or it has seen just this one.           *)
StillReplaces(r) ==
  proxy.grant = "parked" /\ r \notin overtaken /\ Working(r) =>
    /\ Head(req[r].todo) \notin {"makeProxy", "joinProxy", "startProxy", "startBox"}
    /\ Head(req[r].todo) = "dropProxy" => req[r].proxy = proxy.id

(* A boot or reset that is alone finds at each call what it left there.    *)
OnCourse(r) ==
  LET call == Head(req[r].todo) IN
  /\ call \in {"makeNewProxy", "joinNewProxy", "seeProxy", "dropProxy", "makeProxy", "joinProxy",
               "startProxy", "startBox", "boxReady", "dropBox"} => box.id = req[r].box /\ box.id # 0
  /\ call \in {"joinNewProxy", "dropProxy", "joinProxy", "startProxy"} =>
       proxy.id = req[r].proxy /\ proxy.id # 0
  /\ call = "startBox" => proxy.up
  /\ call \in {"boxReady", "proxyReady"} => box.up /\ (proxy.up \/ req[r].kind = "boot")
  /\ call = "touch" => box.up /\ proxy.up
  /\ call \in {"dropBox", "dropNetwork"} => proxy.id = 0
  /\ call = "dropNetwork" \/ (call = "findEnsure" /\ req[r].kind = "reset") => box.id = 0
Revived(r) ==
  \/ req[r].result = "ok" /\ box.up /\ proxy.up
  \/ req[r].kind = "boot" /\ box.up /\ ~proxy.up
Undisturbed(r) ==
  req[r].alone =>
    /\ \A q \in Requests : q # r => ~Working(q)
    /\ Reviving(r) => IF Working(r) THEN OnCourse(r) ELSE Revived(r)

MachineInv ==
  /\ MachineIsTyped /\ NoParkedGrant
  /\ \A r \in Requests : Planned(r) /\ HoldsIds(r) /\ StillReplaces(r) /\ Undisturbed(r)
=============================================================================
