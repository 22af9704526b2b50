---------------------------- MODULE PortRegistry ----------------------------
(***************************************************************************)
(* The leases on loopback ports and the services that listen on them       *)
(* (resources/ports.rs, services.rs, cleanup.rs).  Runtimes are processes  *)
(* of the server and of the command line that share ports-v1.json under    *)
(* the lock file ports-v1.lock.  A start reserves a port, holds its socket *)
(* until the service is spawned, records the service's process and waits   *)
(* until it answers; a stop kills and releases; a cleanup removes leases   *)
(* nobody stands behind.  Any process may die at any step and the others   *)
(* go on.                                                                  *)
(*                                                                         *)
(* A request is a mission, run and service: its request id is their        *)
(* digest, so RequestConflict does not occur.  Process ids are not reused. *)
(* A lease's id is the number of the start that made it: its digest covers *)
(* the request and the clock.                                              *)
(***************************************************************************)
EXTENDS Naturals, Sequences, FiniteSets, FiniteSetsExt, Option

CONSTANTS
  Runtime,     \* processes; one that died does not come back
  Request,     \* services of missions' runs
  MaxPort,     \* the range of ports is 1..MaxPort
  MaxStarts,   \* bound on the starts
  Ops          \* operations of the instance: "start", "stop", "cleanup"

ASSUME RegistryAssumption ==
  /\ MaxPort \in Nat \ {0} /\ MaxStarts \in Nat
  /\ Ops \subseteq {"start", "stop", "cleanup"}
  /\ None \notin Runtime \cup Request \cup Nat

ASSUME NoLockAssumption ==    \* None is not a lock file, and not a section of an operation
  None \notin [by: Runtime, written: BOOLEAN]
              \cup {"reserve", "bind", "list", "preview", "clean", "release"}

VARIABLES
  lockFile,    \* None, or who made the file and whether its pid is in it
  registry,    \* the leases of ports-v1.json
  socket,      \* port -> the process that is bound to it, or None
  service,     \* the service processes, in the order they were spawned
  up,          \* runtimes that are alive
  starts,      \* starts so far
  task,        \* what each runtime is doing
  recorded     \* history: services bind_service_process recorded

portVars == <<lockFile, registry, socket, service, up, starts, task, recorded>>

Port == 1..MaxPort
Idle == [do |-> None, request |-> None, at |-> 0, stage |-> "idle", section |-> None, ok |-> TRUE,
         loaded |-> {}, lease |-> None, target |-> None, inspected |-> {}]

PortsInit ==
  /\ lockFile = None /\ registry = {} /\ socket = [p \in Port |-> None]
  /\ service = <<>> /\ up = Runtime /\ starts = 0 /\ recorded = {}
  /\ task = [t \in Runtime |-> Idle]

(***************************************************************************)
(* Processes.  A process that ended stays visible to kill(pid, 0) until    *)
(* its parent waits for it; a detached child is never waited for, so it    *)
(* stays as long as the parent.                                            *)
(***************************************************************************)
Living(k) == service[k].state \in {"starting", "listening"}
process_alive(k) == service[k].state # "gone"
Ended(k) == IF service[k].parent \in up THEN "zombie" ELSE "gone"

\* What killing service k, or its own end, does; waited says that its parent
\* waits for it.
EndProcess(k, waited) ==
  /\ service' = [service EXCEPT ![k].state = IF waited THEN "gone" ELSE Ended(k)]
  /\ socket' = [p \in Port |-> IF socket[p] = k THEN None ELSE socket[p]]

\* Mutant of Orphan: only the runtime counts.
OrphanByOwner(l) == l.owner \notin up

Orphan(l) == l.owner \notin up /\ (l.service # None => ~process_alive(l.service))

(***************************************************************************)
(* One operation at a time per runtime.  Leases are read and written in    *)
(* sections under the lock; Then says where the operation goes on after    *)
(* one of them.                                                            *)
(***************************************************************************)
Enter(t, section) == [t EXCEPT !.stage = "try", !.section = section]
Stage(t, stage) == [t EXCEPT !.stage = stage]

Then(t) ==
  CASE t.section = "reserve" ->
         IF ~t.ok THEN Idle
         ELSE IF t.target # None THEN Stage(t, "health") ELSE Stage(t, "prepared")
    [] t.section = "bind" -> Stage(t, IF t.ok THEN "health" ELSE "terminate")
    [] t.section = "list" ->
         IF t.ok /\ t.lease # None THEN Stage(t, "terminate") ELSE Idle
    [] t.section = "preview" -> IF t.ok THEN Stage(t, "inspected") ELSE Idle
    [] OTHER -> Idle

StartService(t, r) ==
  /\ "start" \in Ops
  /\ t \in up /\ task[t] = Idle
  /\ starts < MaxStarts
  /\ starts' = starts + 1
  /\ task' = [task EXCEPT ![t] = Enter([Idle EXCEPT !.do = "start", !.request = r,
                                                  !.at = starts + 1], "reserve")]
  /\ UNCHANGED <<lockFile, registry, socket, service, up, recorded>>

StopOwner(t, r) ==
  /\ "stop" \in Ops
  /\ t \in up /\ task[t] = Idle
  /\ task' = [task EXCEPT ![t] = Enter([Idle EXCEPT !.do = "stop", !.request = r], "list")]
  /\ UNCHANGED <<lockFile, registry, socket, service, up, starts, recorded>>

Preview(t) ==
  /\ "cleanup" \in Ops
  /\ t \in up /\ task[t] = Idle
  /\ task' = [task EXCEPT ![t] = Enter([Idle EXCEPT !.do = "cleanup"], "preview")]
  /\ UNCHANGED <<lockFile, registry, socket, service, up, starts, recorded>>

(***************************************************************************)
(* RegistryLock.  The file is made, then the pid is written into it.  A    *)
(* file whose pid is dead is removed by name: in the meantime it may have  *)
(* become another one.  So does Drop.                                      *)
(***************************************************************************)
Stale(f) == f # None /\ f.written /\ f.by \notin up

CreateLock(t) ==
  /\ task[t].stage = "try"
  /\ lockFile = None
  /\ lockFile' = [by |-> t, written |-> FALSE]
  /\ task' = [task EXCEPT ![t] = Stage(@, "created")]
  /\ UNCHANGED <<registry, socket, service, up, starts, recorded>>

\* The write goes to the file this runtime made, whether or not it still
\* has its name.
WriteLock(t) ==
  /\ task[t].stage = "created"
  /\ lockFile' = IF lockFile # None /\ lockFile.by = t
                 THEN [lockFile EXCEPT !.written = TRUE] ELSE lockFile
  /\ task' = [task EXCEPT ![t] = Stage(@, "held")]
  /\ UNCHANGED <<registry, socket, service, up, starts, recorded>>

FindStale(t) ==
  /\ task[t].stage = "try"
  /\ Stale(lockFile)
  /\ task' = [task EXCEPT ![t] = Stage(@, "stale")]
  /\ UNCHANGED <<lockFile, registry, socket, service, up, starts, recorded>>

RemoveStale(t) ==
  /\ task[t].stage = "stale"
  /\ lockFile' = None
  /\ task' = [task EXCEPT ![t] = Stage(@, "try")]
  /\ UNCHANGED <<registry, socket, service, up, starts, recorded>>

\* Writing or syncing fails; nobody removes the file.
WriteLockFails(t) ==
  /\ task[t].stage = "created"
  /\ lockFile' \in {lockFile,
                   IF lockFile # None /\ lockFile.by = t
                   THEN [lockFile EXCEPT !.written = TRUE] ELSE lockFile}
  /\ task' = [task EXCEPT ![t] = Then([@ EXCEPT !.ok = FALSE])]
  /\ UNCHANGED <<registry, socket, service, up, starts, recorded>>

\* LOCK_TIMEOUT has passed, or the file could not be made.
LockFails(t) ==
  /\ task[t].stage = "try"
  /\ ~Stale(lockFile)
  /\ task' = [task EXCEPT ![t] = Then([@ EXCEPT !.ok = FALSE])]
  /\ UNCHANGED <<lockFile, registry, socket, service, up, starts, recorded>>

load_registry(t) ==
  /\ task[t].stage = "held"
  /\ task' = [task EXCEPT ![t].loaded = registry, ![t].stage = "loaded"]
  /\ UNCHANGED <<lockFile, registry, socket, service, up, starts, recorded>>

Unlock(t) ==
  /\ task[t].stage = "unlock"
  /\ lockFile' = None
  /\ task' = [task EXCEPT ![t] = Then([@ EXCEPT !.loaded = {}])]
  /\ UNCHANGED <<registry, socket, service, up, starts, recorded>>

(***************************************************************************)
(* The sections.  Each ends by replacing the file with what was loaded and *)
(* changed, or by an error that leaves it alone.                           *)
(***************************************************************************)
In(t, section) == task[t].stage = "loaded" /\ task[t].section = section
Refuse(t) == task' = [task EXCEPT ![t].ok = FALSE, ![t].stage = "unlock"]
Mine(t) == {l \in task[t].loaded : l.request = task[t].request}

\* A lease of the request whose service lives is adopted unless another
\* living runtime owns it.
Adopt(t, l) ==
  /\ l.service # None /\ process_alive(l.service)
  /\ l.owner # t => l.owner \notin up
  /\ registry' = (task[t].loaded \ {l}) \cup {[l EXCEPT !.owner = t]}
  /\ task' = [task EXCEPT ![t].lease = l, ![t].target = l.service, ![t].stage = "unlock"]
  /\ UNCHANGED socket

\* Otherwise its port is bound again.
Rebind(t, l) ==
  /\ l.service # None => ~process_alive(l.service)
  /\ socket[l.port] = None
  /\ socket' = [socket EXCEPT ![l.port] = t]
  /\ registry' = (task[t].loaded \ {l}) \cup {[l EXCEPT !.owner = t, !.service = None]}
  /\ task' = [task EXCEPT ![t].lease = l, ![t].stage = "unlock"]

Occupied(leases) == {l.port : l \in leases}

\* Mutant of Selectable: a port that can be bound is taken.
SelectableUnleased(t) == {p \in Port : socket[p] = None}

Selectable(t) == {p \in Port \ Occupied(task[t].loaded) : socket[p] = None}

\* A new request gets the first port that no lease names and that can be bound.
Acquire(t) ==
  LET p == Min(Selectable(t))
      l == [id |-> task[t].at, request |-> task[t].request, port |-> p, owner |-> t,
            service |-> None] IN
  /\ Mine(t) = {} /\ Selectable(t) # {}
  /\ socket' = [socket EXCEPT ![p] = t]
  /\ registry' = task[t].loaded \cup {l}
  /\ task' = [task EXCEPT ![t].lease = l, ![t].stage = "unlock"]

\* LeaseNotOwned, PortNoLongerAvailable, NoPortAvailable.
ReserveRefused(t) ==
  /\ \A l \in Mine(t) :
       IF l.service # None /\ process_alive(l.service)
       THEN l.owner # t /\ l.owner \in up
       ELSE socket[l.port] # None
  /\ Mine(t) = {} => Selectable(t) = {}
  /\ Refuse(t)
  /\ UNCHANGED <<registry, socket>>

reserve(t) ==
  /\ In(t, "reserve")
  /\ \/ \E l \in Mine(t) : Adopt(t, l) \/ Rebind(t, l)
     \/ Acquire(t)
     \/ ReserveRefused(t)
  /\ UNCHANGED <<lockFile, service, up, starts, recorded>>

\* LeaseMissing and LeaseNotOwned leave the file alone.
bind_service_process(t) ==
  LET k == task[t].target
      found == {l \in task[t].loaded : l.id = task[t].lease.id /\ l.owner = t} IN
  /\ In(t, "bind")
  /\ registry' = IF found = {} THEN registry
                 ELSE (task[t].loaded \ found) \cup {[l EXCEPT !.service = k] : l \in found}
  /\ recorded' = IF found = {} THEN recorded ELSE recorded \cup {k}
  /\ task' = [task EXCEPT ![t].ok = found # {}, ![t].stage = "unlock"]
  /\ UNCHANGED <<lockFile, socket, service, up, starts>>

release(t) ==
  /\ In(t, "release")
  /\ registry' = {l \in task[t].loaded : l.id # task[t].lease.id}
  /\ task' = [task EXCEPT ![t].stage = "unlock"]
  /\ UNCHANGED <<lockFile, socket, service, up, starts, recorded>>

leases_for_owner(t) ==
  /\ In(t, "list")
  /\ task' = [task EXCEPT ![t].stage = "unlock",
                ![t].lease = IF Mine(t) = {} THEN None ELSE CHOOSE l \in Mine(t) : TRUE,
                ![t].target = IF Mine(t) = {} THEN None
                              ELSE (CHOOSE l \in Mine(t) : TRUE).service]
  /\ UNCHANGED <<lockFile, registry, socket, service, up, starts, recorded>>

orphaned(t) ==
  /\ In(t, "preview")
  /\ task' = [task EXCEPT ![t].stage = "unlock",
                ![t].inspected = {l.id : l \in {l \in task[t].loaded : Orphan(l)}}]
  /\ UNCHANGED <<lockFile, registry, socket, service, up, starts, recorded>>

cleanup_orphaned(t) ==
  /\ In(t, "clean")
  /\ registry' = {l \in task[t].loaded : ~(Orphan(l) /\ l.id \in task[t].inspected)}
  /\ task' = [task EXCEPT ![t].stage = "unlock"]
  /\ UNCHANGED <<lockFile, socket, service, up, starts, recorded>>

\* Reading or replacing the file fails.
SectionFails(t) ==
  /\ task[t].stage = "loaded"
  /\ Refuse(t)
  /\ UNCHANGED <<lockFile, registry, socket, service, up, starts, recorded>>

(***************************************************************************)
(* Outside the lock.                                                       *)
(***************************************************************************)
prepare_service_spawn(t) ==
  /\ task[t].stage = "prepared"
  /\ socket' = [socket EXCEPT ![task[t].lease.port] = None]
  /\ task' = [task EXCEPT ![t] = Stage(@, "spawn")]
  /\ UNCHANGED <<lockFile, registry, service, up, starts, recorded>>

SpawnService(t) ==
  /\ task[t].stage = "spawn"
  /\ \/ /\ service' = Append(service, [request |-> task[t].request, port |-> task[t].lease.port,
                                       parent |-> t, state |-> "starting"])
        /\ task' = [task EXCEPT ![t] = Enter([@ EXCEPT !.target = Len(service) + 1], "bind")]
     \/ /\ task' = [task EXCEPT ![t] = Enter(@, "release")]
        /\ UNCHANGED service
  /\ UNCHANGED <<lockFile, registry, socket, up, starts, recorded>>

\* The service was spawned by this operation and not adopted.
HasChild(t) == task[t].section = "bind"

\* Something answers on the port while the service's process is there; it
\* is not asked who it is.  The set is detached.
Healthy(t) ==
  /\ task[t].stage = "health"
  /\ IF HasChild(t) THEN Living(task[t].target) ELSE process_alive(task[t].target)
  /\ socket[task[t].lease.port] \in DOMAIN service
  /\ task' = [task EXCEPT ![t] = Idle]
  /\ UNCHANGED <<lockFile, registry, socket, service, up, starts, recorded>>

\* The process has ended or the time is over.
Unhealthy(t) ==
  /\ task[t].stage = "health"
  /\ task' = [task EXCEPT ![t] = Stage(@, "terminate")]
  /\ UNCHANGED <<lockFile, registry, socket, service, up, starts, recorded>>

\* A child is waited for, an adopted or listed process is not.
terminate(t) ==
  /\ task[t].stage = "terminate"
  /\ LET k == task[t].target IN
       IF k # None /\ process_alive(k)
       THEN EndProcess(k, HasChild(t))
       ELSE UNCHANGED <<service, socket>>
  /\ task' = [task EXCEPT ![t] = Enter([@ EXCEPT !.ok = TRUE], "release")]
  /\ UNCHANGED <<lockFile, registry, up, starts, recorded>>

\* The user applies the preview, whose digest was checked, or does not.
apply(t) ==
  /\ task[t].stage = "inspected"
  /\ task' = [task EXCEPT ![t] = Enter(@, "clean")]
  /\ UNCHANGED <<lockFile, registry, socket, service, up, starts, recorded>>

\* Also while it holds the lock.
Die(t) ==
  /\ t \in up
  /\ up' = up \ {t}
  /\ task' = [task EXCEPT ![t] = Idle]
  /\ socket' = [p \in Port |-> IF socket[p] = t THEN None ELSE socket[p]]
  /\ service' = [k \in DOMAIN service |->
                  IF service[k].parent = t /\ service[k].state = "zombie"
                  THEN [service[k] EXCEPT !.state = "gone"] ELSE service[k]]
  /\ UNCHANGED <<lockFile, registry, starts, recorded>>

(***************************************************************************)
(* The services: programs of the project.                                  *)
(***************************************************************************)
ServiceListens(k) ==
  /\ service[k].state = "starting"
  /\ socket[service[k].port] = None
  /\ socket' = [socket EXCEPT ![service[k].port] = k]
  /\ service' = [service EXCEPT ![k].state = "listening"]
  /\ UNCHANGED <<lockFile, registry, up, starts, task, recorded>>

ServiceEnds(k) ==
  /\ Living(k)
  /\ EndProcess(k, FALSE)
  /\ UNCHANGED <<lockFile, registry, up, starts, task, recorded>>

RuntimeNext(t) ==
  \/ \E r \in Request : StartService(t, r) \/ StopOwner(t, r)
  \/ Preview(t)
  \/ CreateLock(t) \/ WriteLock(t) \/ WriteLockFails(t) \/ FindStale(t) \/ RemoveStale(t)
  \/ LockFails(t)
  \/ load_registry(t) \/ Unlock(t)
  \/ reserve(t) \/ bind_service_process(t) \/ release(t) \/ leases_for_owner(t)
  \/ orphaned(t) \/ cleanup_orphaned(t) \/ SectionFails(t)
  \/ prepare_service_spawn(t) \/ SpawnService(t) \/ Healthy(t) \/ Unhealthy(t) \/ terminate(t)
  \/ apply(t) \/ Die(t)

PortsNext ==
  \/ \E t \in Runtime : RuntimeNext(t)
  \/ \E k \in DOMAIN service : ServiceListens(k) \/ ServiceEnds(k)

PortsSpec == PortsInit /\ [][PortsNext]_portVars

-----------------------------------------------------------------------------
\* A start that has its port and has not ended.
Starting(t, r, p) ==
  /\ task[t].do = "start" /\ task[t].request = r
  /\ task[t].lease # None /\ task[t].lease.port = p
  /\ \/ task[t].stage \in {"prepared", "spawn", "health"}
     \/ task[t].section = "reserve" /\ task[t].stage = "unlock" /\ task[t].ok
     \/ task[t].section = "bind"

Uses(r, p) ==
  \/ \E t \in up : Starting(t, r, p)
  \/ \E k \in DOMAIN service : service[k].request = r /\ service[k].port = p /\ Living(k)

(* The lease of a service that is being started, or runs, keeps other      *)
(* runtimes from selecting its port (PortReservation,                      *)
(* resources/ports.rs:113): no port is selected for two requests.          *)
PortsNotShared ==
  \A r, q \in Request, p \in Port : Uses(r, p) /\ Uses(q, p) => r = q

(* What every section leaves in the file is a registry load_registry       *)
(* accepts: two leases never have one id, one port or one request, however *)
(* the sections of several runtimes fall.                                  *)
RegistryLoads ==
  \A l, m \in registry :
    l # m => l.id # m.id /\ l.port # m.port /\ l.request # m.request

\* The lease of service k's request names k and the port k was given.
Named(k) ==
  \E l \in registry : l.service = k /\ l.port = service[k].port
                      /\ l.request = service[k].request

\* Runtime t removes a lease of k's request; it has not spawned k, and its
\* operation did not read k in the lease.
ReleasesUnread(t, k) ==
  /\ In(t, "release") /\ registry' # task[t].loaded
  /\ task[t].request = service[k].request
  /\ service[k].parent # t /\ task[t].target # k

(* Once a service's process is recorded, and while it lives, the lease of  *)
(* its request goes on naming it and its port: no cleanup takes the lease, *)
(* however old its preview, no start of the request binds the port again   *)
(* or puts another process in its place, no failed start or stop of        *)
(* another request removes it, and restarts and adoptions leave it.  One   *)
(* step may take it, because release goes by the lease's id and looks      *)
(* neither at its owner nor at its service (resources/ports.rs:288): that  *)
(* of an operation of another runtime on the same request which read the   *)
(* lease before this process was in it, and then ended another process or  *)
(* none.                                                                   *)
ServiceStaysRecorded ==
  [][\A k \in recorded' :
       (k \in recorded => Named(k)) /\ Living(k) /\ Living(k)' =>
         Named(k)' \/ \E t \in up : ReleasesUnread(t, k)]_portVars
=============================================================================
