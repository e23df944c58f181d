-------------------------- MODULE ExtensionsProofs --------------------------
(***************************************************************************)
(* Proofs about Extensions: for any number of extensions, names, requests  *)
(* and restarts, the types, the tools in the sandbox, the downloads and    *)
(* the servers the manager knows of.                                       *)
(***************************************************************************)
EXTENDS Extensions, TLAPS

\* What the kind of an attempt tells of the place where its installer is.
Places ==
    \A e \in Exts :
        /\ install[e] = "checked" => FromCatalog(e)
        /\ install[e] = "server" => IsServer(e)
        /\ install[e] \in {"copy", "insert", "finish"} => ~IsServer(e)
        /\ IsServer(e) /\ install[e] \in {"fresh", "checked", "server"} =>
               row[e] = "absent" /\ name[e] = wanted /\ \A c \in calls : c.ext # e

\* Requests about plugins are about plugins.
PluginCalls ==
    \A c \in calls : c.todo \in {"update on", "update off", "toggle"} => ~IsServer(c.ext)

\* Only a server that is to stay stopped, or one that was crossed, is stopped without
\* being started again.
StoppedIsOff ==
    \A c \in calls : IsServer(c.ext) /\ Stops(c) =>
        row[c.ext] # "on" \/ name[c.ext] \in BadNames \/ c.ext \in crossed

\* The mutex of the manager.
OneAdd == \A i, j \in adding : i = j

Inv == Places /\ PluginCalls /\ StoppedIsOff /\ OneAdd /\ EnabledIsServed

LEMMA KindsType ==
    ASSUME TypeOK
    PROVE  kind \in [Exts -> {"mcp", "plugin", "skill", "custom", "direct"}]
  BY ExtensionsAssumption DEF TypeOK

LEMMA Constants ==
    /\ NoExt \notin Exts
    /\ MaxRequests \in Nat
    /\ MaxRestarts \in Nat
    /\ MaxFaults \in Nat
  BY ExtensionsAssumption

(***************************************************************************)
(* Types.                                                                  *)
(***************************************************************************)
LEMMA RemovedType ==
    ASSUME TypeOK, NEW e \in Exts, Removed(e)
    PROVE  /\ adding' \subseteq AddJobs
           /\ entry' \in [Exts -> Entries]
           /\ sandbox' \in [Names -> Exts \cup {NoExt}]
  BY DEF TypeOK, Removed, Unregistered, Entries, Absent

LEMMA JobTypes ==
    /\ \A e \in Exts, n \in Names : AddJob(e, n) \in AddJobs
    /\ \A e \in Exts, n \in Names, b \in BOOLEAN : LoadJob(e, n, b) \in LoadJobs
    /\ \A j \in LoadJobs \cup AddJobs : j.type = "add" => j \in AddJobs
    /\ \A j \in LoadJobs \cup AddJobs : j.ext \in Exts /\ j.name \in Names
  BY DEF AddJob, LoadJob, AddJobs, LoadJobs

LEMMA StatusType ==
    ASSUME TypeOK, NEW e \in Exts, NEW status \in {"installed", "error"},
           SetStatus(e, status)
    PROVE  /\ inst' \in [Exts -> {"none", "downloading", "installed", "error"}]
           /\ lost' \subseteq Exts
           /\ \A f \in Exts \ {e} : inst'[f] = inst[f]
           /\ inst'[e] # "downloading" \/ e \in lost'
           /\ lost \subseteq lost'
  BY DEF TypeOK, SetStatus, Ignored

LEMMA InstallTypes ==
    ASSUME TypeOK, NEW e \in Exts, StartInstall(e) \/ Installer(e)
    PROVE  TypeOK'
  <1>1. CASE StartInstall(e)
    BY <1>1 DEF TypeOK, StartInstall, Goto, database, manager, counters, history
  <1>2. CASE InsertInstance(e)
    BY <1>2 DEF TypeOK, InsertInstance, Goto, manager, counters, history
  <1>3. CASE InsertServer(e)
    <2>1. jobs' \subseteq LoadJobs \cup AddJobs
      BY <1>3, JobTypes DEF TypeOK, InsertServer
    <2>2. lost' \subseteq Exts
      BY <1>3 DEF TypeOK, InsertServer, Ignored
    <2>3. /\ row' \in [Exts -> {"absent", "off", "on"}]
          /\ inst' \in [Exts -> {"none", "downloading", "installed", "error"}]
          /\ install' \in [Exts -> {"fresh", "checked", "server", "instance", "copy",
                                    "insert", "finish", "over"}]
      BY <1>3 DEF TypeOK, InsertServer, Goto
    <2>. QED BY <1>3, <2>1, <2>2, <2>3 DEF TypeOK, InsertServer, manager, counters
  <1>4. CASE InsertCustomInstance(e)
    <2>1. jobs' \subseteq LoadJobs \cup AddJobs
      BY <1>4, JobTypes DEF TypeOK, InsertCustomInstance
    <2>2. lost' \subseteq Exts
      BY <1>4 DEF TypeOK, InsertCustomInstance, Ignored
    <2>3. /\ row' \in [Exts -> {"absent", "off", "on"}]
          /\ inst' \in [Exts -> {"none", "downloading", "installed", "error"}]
          /\ install' \in [Exts -> {"fresh", "checked", "server", "instance", "copy",
                                    "insert", "finish", "over"}]
      BY <1>4 DEF TypeOK, InsertCustomInstance, Goto
    <2>. QED BY <1>4, <2>1, <2>2, <2>3
             DEF TypeOK, InsertCustomInstance, manager, counters
  <1>5. CASE Copy(e)
    <2>1. /\ inst' \in [Exts -> {"none", "downloading", "installed", "error"}]
          /\ lost' \subseteq Exts
      BY <1>5, StatusType DEF TypeOK, Copy, MarkedError
    <2>. QED BY <1>5, <2>1 DEF TypeOK, Copy, Goto, manager, counters
  <1>6. CASE InsertRuntime(e)
    <2>1. jobs' \subseteq LoadJobs \cup AddJobs
      <3>1. LoadJob(e, name[e], TRUE) \in LoadJobs
        BY JobTypes DEF TypeOK
      <3>2. jobs' \subseteq jobs \cup {LoadJob(e, name[e], TRUE)}
        BY <1>6 DEF InsertRuntime
      <3>. QED BY <3>1, <3>2 DEF TypeOK
    <2>2. /\ row' \in [Exts -> {"absent", "off", "on"}]
          /\ policy' \in [Exts -> BOOLEAN]
      BY <1>6 DEF TypeOK, InsertRuntime
    <2>3. install' \in [Exts -> {"fresh", "checked", "server", "instance", "copy",
                                 "insert", "finish", "over"}]
      BY <1>6 DEF TypeOK, InsertRuntime, Goto
    <2>4. /\ inst' \in [Exts -> {"none", "downloading", "installed", "error"}]
          /\ lost' \subseteq Exts
      BY <1>6, StatusType DEF TypeOK, InsertRuntime, MarkedError
    <2>5. UNCHANGED <<kind, wanted, catalog, name, files, removal, calls, manager,
                      counters, crossed>>
      BY <1>6 DEF InsertRuntime
    <2>. QED BY <2>1, <2>2, <2>3, <2>4, <2>5 DEF TypeOK, manager, counters
  <1>7. CASE Finish(e)
    <2>1. /\ inst' \in [Exts -> {"none", "downloading", "installed", "error"}]
          /\ lost' \subseteq Exts
      BY <1>7, StatusType DEF Finish
    <2>. QED BY <1>7, <2>1 DEF TypeOK, Finish, Goto, manager, counters
  <1>. QED BY <1>1, <1>2, <1>3, <1>4, <1>5, <1>6, <1>7 DEF Installer

LEMMA RemovalTypes ==
    ASSUME TypeOK, NEW e \in Exts, StartUninstall(e) \/ Uninstaller(e)
    PROVE  TypeOK'
  <1>1. CASE StartUninstall(e)
    BY <1>1 DEF TypeOK, StartUninstall, GotoRemoval, database, manager, counters,
                history
  <1>2. CASE StopRuntime(e)
    <2>1. /\ adding' \subseteq AddJobs
          /\ entry' \in [Exts -> Entries]
          /\ sandbox' \in [Names -> Exts \cup {NoExt}]
      BY <1>2, RemovedType DEF TypeOK, StopRuntime, manager
    <2>. QED BY <1>2, <2>1
             DEF TypeOK, StopRuntime, GotoRemoval, database, counters, history
  <1>3. CASE DeleteRuntime(e)
    <2>1. lost' \subseteq Exts /\ row' \in [Exts -> {"absent", "off", "on"}]
      BY <1>3 DEF TypeOK, DeleteRuntime, Ignored
    <2>. QED BY <1>3, <2>1 DEF TypeOK, DeleteRuntime, GotoRemoval, manager, counters
  <1>4. CASE DeleteInstance(e)
    <2>1. /\ lost' \subseteq Exts
          /\ inst' \in [Exts -> {"none", "downloading", "installed", "error"}]
          /\ removal' \in [Exts -> {"idle", "blind", "sighted", "stopped", "cleaned",
                                    "over"}]
      BY <1>4 DEF TypeOK, DeleteInstance, GotoRemoval, Ignored
    <2>2. catalog' \in BOOLEAN
      BY <1>4, ExtensionsAssumption DEF TypeOK, DeleteInstance
    <2>. QED BY <1>4, <2>1, <2>2 DEF TypeOK, DeleteInstance, manager, counters
  <1>. QED BY <1>1, <1>2, <1>3, <1>4 DEF Uninstaller

\* The first step of a request.
Requested(e) == UpdateServer(e) \/ DeleteServer(e) \/ TestServer(e) \/ ReadPlugin(e)

\* The later steps.
Continued(c) == UpdatePlugin(c) \/ TogglePluginMCP(c) \/ SyncManager(c) \/ PurgeServer(c)

LEMMA CallType ==
    ASSUME TypeOK, NEW e \in Exts, Request(e), NEW todo \in Todos, NEW n \in Names
    PROVE  Call(e, todo, n) \in Calls
  BY Constants DEF TypeOK, Request, Call, Calls

LEMMA RequestTypes ==
    ASSUME TypeOK, NEW e \in Exts, Requested(e)
    PROVE  TypeOK'
  <1>0. Request(e)
    BY DEF Requested, UpdateServer, DeleteServer, TestServer, ReadPlugin
  <1>1. /\ kind' = kind /\ wanted' = wanted /\ catalog' = catalog /\ inst' = inst
        /\ policy' = policy /\ files' = files /\ install' = install
        /\ removal' = removal /\ adding' = adding /\ entry' = entry
        /\ sandbox' = sandbox /\ restarts' = restarts /\ lost' = lost
        /\ requests' \in 0 .. MaxRequests
    BY <1>0, Constants DEF TypeOK, Request, manager
  <1>2. jobs' \subseteq LoadJobs \cup AddJobs
    <2>1. AddJob(e, name[e]) \in AddJobs
      BY JobTypes DEF TypeOK
    <2>2. jobs' = jobs \/ jobs' = jobs \cup {AddJob(e, name[e])}
      BY DEF Requested, UpdateServer, DeleteServer, TestServer, ReadPlugin
    <2>. QED BY <2>1, <2>2 DEF TypeOK
  <1>3. /\ row' \in [Exts -> {"absent", "off", "on"}]
        /\ name' \in [Exts -> Names]
        /\ crossed' \subseteq Exts
    <2>1. CASE UpdateServer(e)
      BY <2>1 DEF TypeOK, UpdateServer, Crossing
    <2>2. CASE DeleteServer(e) \/ TestServer(e) \/ ReadPlugin(e)
      <3>1. row' = row /\ name' = name /\ crossed' = crossed
        BY <2>2 DEF DeleteServer, TestServer, ReadPlugin
      <3>. QED BY <3>1 DEF TypeOK
    <2>. QED BY <2>1, <2>2 DEF Requested
  <1>4. calls' \subseteq Calls
    <2>1. CASE UpdateServer(e)
      <3>1. PICK enabled \in {"off", "on"}, n \in Names :
                calls' = calls \cup
                             {Call(e, IF enabled = "on" THEN "restart" ELSE "stop", n)}
        BY <2>1 DEF UpdateServer
      <3>2. (IF enabled = "on" THEN "restart" ELSE "stop") \in Todos
        BY DEF Todos
      <3>. QED BY <1>0, <3>1, <3>2, CallType DEF TypeOK
    <2>2. CASE DeleteServer(e)
      BY <1>0, <2>2, CallType DEF TypeOK, DeleteServer, Todos
    <2>3. CASE ReadPlugin(e)
      <3>1. PICK todo \in {"update on", "update off", "toggle"} :
                calls' = calls \cup {Call(e, todo, name[e])}
        BY <2>3 DEF ReadPlugin
      <3>2. todo \in Todos /\ name[e] \in Names /\ calls \subseteq Calls
        BY DEF Todos, TypeOK
      <3>3. Call(e, todo, name[e]) \in Calls
        BY <1>0, <3>2, CallType
      <3>. QED BY <3>1, <3>2, <3>3
    <2>. QED BY <2>1, <2>2, <2>3 DEF TypeOK, TestServer, Requested
  <1>. QED BY <1>1, <1>2, <1>3, <1>4 DEF TypeOK

\* What the later steps of a request do to the calls and the goroutines.
LEMMA ContinuedCalls ==
    ASSUME TypeOK, NEW c \in calls, Continued(c)
    PROVE  /\ c \in Calls /\ c.ext \in Exts /\ c.name \in Names
           /\ calls' = calls \ {c}
              \/ \E todo \in {"stop", "purge"} :
                     calls' = (calls \ {c}) \cup {[c EXCEPT !.todo = todo]}
           /\ \/ jobs' = jobs
              \/ jobs' = jobs \cup {AddJob(c.ext, c.name)}
              \/ \E b \in BOOLEAN : jobs' = jobs \cup {LoadJob(c.ext, c.name, b)}
  <1>1. c \in Calls /\ c.ext \in Exts /\ c.name \in Names
    BY DEF TypeOK, Calls
  <1>2. \/ calls' = calls \ {c}
        \/ \E todo \in {"stop", "purge"} :
               calls' = (calls \ {c}) \cup {[c EXCEPT !.todo = todo]}
    BY DEF Continued, UpdatePlugin, TogglePluginMCP, SyncManager, PurgeServer, Done, GoOn
  <1>3. \/ jobs' = jobs
        \/ jobs' = jobs \cup {AddJob(c.ext, c.name)}
        \/ \E b \in BOOLEAN : jobs' = jobs \cup {LoadJob(c.ext, c.name, b)}
    BY DEF Continued, UpdatePlugin, TogglePluginMCP, SyncManager, PurgeServer
  <1>. QED BY <1>1, <1>2, <1>3

LEMMA ContinuedTypes ==
    ASSUME TypeOK, NEW c \in calls, Continued(c)
    PROVE  TypeOK'
  <1>1. c \in Calls /\ c.ext \in Exts /\ c.name \in Names
    BY ContinuedCalls
  <1>2. calls' \subseteq Calls
    <2>1. \A todo \in {"stop", "purge"} : [c EXCEPT !.todo = todo] \in Calls
      BY <1>1 DEF Calls, Todos
    <2>2. calls \subseteq Calls
      BY DEF TypeOK
    <2>. QED BY <2>1, <2>2, ContinuedCalls
  <1>3. jobs' \subseteq LoadJobs \cup AddJobs
    <2>1. AddJob(c.ext, c.name) \in AddJobs
          /\ \A b \in BOOLEAN : LoadJob(c.ext, c.name, b) \in LoadJobs
      BY <1>1, JobTypes
    <2>2. jobs \subseteq LoadJobs \cup AddJobs
      BY DEF TypeOK
    <2>. QED BY <2>1, <2>2, ContinuedCalls
  <1>4. CASE UpdatePlugin(c)
    <2>1. PICK enabled \in {"off", "on"}, allowed \in BOOLEAN :
              /\ row' = [row EXCEPT ![c.ext] = IF @ = "absent" THEN @ ELSE enabled]
              /\ policy' = [policy EXCEPT ![c.ext] = IF row[c.ext] = "absent" THEN @
                                                    ELSE allowed]
      BY <1>4 DEF UpdatePlugin
    <2>2. row' \in [Exts -> {"absent", "off", "on"}] /\ policy' \in [Exts -> BOOLEAN]
      BY <1>1, <2>1 DEF TypeOK
    <2>. QED BY <1>2, <1>3, <1>4, <2>2
             DEF TypeOK, UpdatePlugin, manager, counters, history
  <1>5. CASE TogglePluginMCP(c)
    <2>1. policy' \in [Exts -> BOOLEAN]
      BY <1>1, <1>5 DEF TypeOK, TogglePluginMCP
    <2>. QED BY <1>2, <1>3, <1>5, <2>1
             DEF TypeOK, TogglePluginMCP, manager, counters, history
  <1>6. CASE SyncManager(c)
    <2>1. /\ adding' \subseteq AddJobs
          /\ entry' \in [Exts -> Entries]
          /\ sandbox' \in [Names -> Exts \cup {NoExt}]
      BY <1>1, <1>6, RemovedType DEF SyncManager
    <2>. QED BY <1>2, <1>3, <1>6, <2>1 DEF TypeOK, SyncManager, database, counters,
                                           history
  <1>7. CASE PurgeServer(c)
    <2>1. lost' \subseteq Exts /\ row' \in [Exts -> {"absent", "off", "on"}]
      BY <1>1, <1>7 DEF TypeOK, PurgeServer, Ignored
    <2>. QED BY <1>2, <1>3, <1>7, <2>1 DEF TypeOK, PurgeServer, manager, counters
  <1>. QED BY <1>4, <1>5, <1>6, <1>7 DEF Continued

LEMMA ManagerTypes ==
    ASSUME TypeOK,
           (\E j \in jobs : RefuseAdd(j) \/ BeginAdd(j) \/ LoadPlugin(j)) \/ EndAdd
    PROVE  TypeOK'
  <1>1. ASSUME NEW j \in jobs, RefuseAdd(j) PROVE TypeOK'
    BY <1>1 DEF TypeOK, RefuseAdd, database, manager, counters, history
  <1>3. ASSUME NEW j \in jobs, BeginAdd(j) PROVE TypeOK'
    <2>1. j \in AddJobs
      BY <1>3, JobTypes DEF TypeOK, BeginAdd
    <2>2. sandbox' \in [Names -> Exts \cup {NoExt}]
      BY <1>3 DEF TypeOK, BeginAdd, Unregistered
    <2>. QED BY <1>3, <2>1, <2>2 DEF TypeOK, BeginAdd, database, counters, history
  <1>4. ASSUME NEW j \in jobs, LoadPlugin(j) PROVE TypeOK'
    <2>1. jobs' \subseteq LoadJobs \cup AddJobs
      BY <1>4, JobTypes DEF TypeOK, LoadPlugin
    <2>. QED BY <1>4, <2>1 DEF TypeOK, LoadPlugin, database, manager, counters, history
  <1>5. CASE EndAdd
    <2>1. PICK j \in adding :
              /\ adding' = {}
              /\ \/ /\ sandbox' = [sandbox EXCEPT ![j.name] = j.ext]
                    /\ entry' = [entry EXCEPT ![j.ext] =
                                     [state |-> "connected", name |-> j.name]]
                 \/ /\ entry' = [entry EXCEPT ![j.ext] =
                                     [state |-> "failed", name |-> j.name]]
                    /\ UNCHANGED sandbox
      BY <1>5 DEF EndAdd
    <2>2. j.ext \in Exts /\ j.name \in Names
      BY JobTypes DEF TypeOK
    <2>3. entry' \in [Exts -> Entries] /\ sandbox' \in [Names -> Exts \cup {NoExt}]
      BY <2>1, <2>2 DEF TypeOK, Entries
    <2>. QED BY <1>5, <2>1, <2>3 DEF TypeOK, EndAdd, database, counters, history
  <1>. QED BY <1>1, <1>3, <1>4, <1>5

LEMMA RestartTypes ==
    ASSUME TypeOK, SyncMarketplace \/ Restart
    PROVE  TypeOK'
  <1>1. CASE SyncMarketplace
    BY <1>1 DEF TypeOK, SyncMarketplace, manager, counters, history
  <1>2. CASE Restart
    <2>1. jobs' \subseteq LoadJobs \cup AddJobs
      BY <1>2, JobTypes DEF TypeOK, Restart
    <2>2. /\ install' \in [Exts -> {"fresh", "checked", "server", "instance", "copy",
                                    "insert", "finish", "over"}]
          /\ removal' \in [Exts -> {"idle", "blind", "sighted", "stopped", "cleaned",
                                    "over"}]
          /\ calls' \subseteq Calls /\ lost' \subseteq Exts /\ crossed' \subseteq Exts
      BY <1>2 DEF TypeOK, Restart
    <2>3. /\ adding' \subseteq AddJobs
          /\ entry' \in [Exts -> Entries]
          /\ sandbox' \in [Names -> Exts \cup {NoExt}]
          /\ restarts' \in 0 .. MaxRestarts
      BY <1>2, Constants DEF TypeOK, Restart, Entries
    <2>. QED BY <1>2, <2>1, <2>2, <2>3 DEF TypeOK, Restart, database
  <1>. QED BY <1>1, <1>2

\* Every variable keeps its type, whatever the extensions, the names and the
\* bounds are.
THEOREM TypeCorrect == Spec => []TypeOK
  <1>1. Init => TypeOK
    BY Constants DEF Init, TypeOK, Entries
  <1>2. TypeOK /\ [Next]_vars => TypeOK'
    <2>. SUFFICES ASSUME TypeOK, [Next]_vars PROVE TypeOK'
      OBVIOUS
    <2>1. CASE UNCHANGED vars
      BY <2>1 DEF TypeOK, vars, database, manager, counters, history
    <2>2. CASE Next
      BY <2>2, InstallTypes, RemovalTypes, RequestTypes, ContinuedTypes, ManagerTypes,
         RestartTypes DEF Next, Requested, Continued
    <2>. QED BY <2>1, <2>2
  <1>. QED BY <1>1, <1>2, PTL DEF Spec

(***************************************************************************)
(* The tools in the sandbox.  Only the manager touches them: it takes      *)
(* those of a server down before it closes or replaces its client.         *)
(***************************************************************************)
LEMMA RemovedTools ==
    ASSUME TypeOK, NoDanglingTool, NEW f \in Exts, Removed(f)
    PROVE  NoDanglingTool'
  <1>. SUFFICES ASSUME NEW n \in Names, NEW e \in Exts, sandbox'[n] = e
                PROVE  entry'[e] = [state |-> "connected", name |-> n] /\ adding' = {}
    BY DEF NoDanglingTool
  <1>1. sandbox' = [m \in Names |-> IF m \in Tools(f) THEN NoExt ELSE sandbox[m]]
        /\ entry' = [entry EXCEPT ![f] = Absent] /\ adding' = {}
    BY DEF Removed, Unregistered
  <1>2. n \notin Tools(f) /\ sandbox[n] = e
    BY <1>1, Constants
  <1>3. entry[e] = [state |-> "connected", name |-> n]
    BY <1>2 DEF NoDanglingTool
  <1>4. e # f
    BY <1>2, <1>3 DEF Tools
  <1>. QED BY <1>1, <1>3, <1>4 DEF TypeOK

LEMMA BegunTools ==
    ASSUME TypeOK, NoDanglingTool, NEW j \in jobs, BeginAdd(j)
    PROVE  NoDanglingTool'
  <1>. SUFFICES ASSUME NEW n \in Names, NEW e \in Exts, sandbox'[n] = e
                PROVE  entry[e] = [state |-> "connected", name |-> n] /\ j.ext # e
    BY DEF NoDanglingTool, BeginAdd
  <1>1. sandbox' = [m \in Names |-> IF m \in Tools(j.ext) THEN NoExt ELSE sandbox[m]]
    BY DEF BeginAdd, Unregistered
  <1>2. n \notin Tools(j.ext) /\ sandbox[n] = e
    BY <1>1, Constants
  <1>3. entry[e] = [state |-> "connected", name |-> n]
    BY <1>2 DEF NoDanglingTool
  <1>4. e # j.ext
    BY <1>2, <1>3 DEF Tools
  <1>. QED BY <1>3, <1>4

LEMMA AddedTools ==
    ASSUME TypeOK, NoDanglingTool, EndAdd
    PROVE  NoDanglingTool'
  <1>1. PICK j \in adding :
            /\ adding' = {}
            /\ \/ /\ sandbox' = [sandbox EXCEPT ![j.name] = j.ext]
                  /\ entry' = [entry EXCEPT ![j.ext] =
                                   [state |-> "connected", name |-> j.name]]
               \/ /\ entry' = [entry EXCEPT ![j.ext] =
                                   [state |-> "failed", name |-> j.name]]
                  /\ UNCHANGED sandbox
    BY DEF EndAdd
  <1>2. j.ext \in Exts /\ j.name \in Names
    BY JobTypes DEF TypeOK
  <1>3. SUFFICES ASSUME NEW n \in Names, NEW e \in Exts, sandbox'[n] = e
                 PROVE  entry'[e] = [state |-> "connected", name |-> n]
    BY <1>1 DEF NoDanglingTool
  <1>4. CASE sandbox[n] = e /\ e # j.ext
    BY <1>1, <1>2, <1>4 DEF TypeOK, NoDanglingTool
  <1>5. CASE sandbox[n] # e \/ e = j.ext
    <2>1. ~(sandbox[n] = e /\ e = j.ext)
      BY DEF NoDanglingTool
    <2>2. sandbox' # sandbox /\ n = j.name /\ e = j.ext
      BY <1>1, <1>2, <1>3, <1>5, <2>1 DEF TypeOK
    <2>. QED BY <1>1, <1>2, <2>2 DEF TypeOK
  <1>. QED BY <1>4, <1>5

\* A tool in the sandbox always belongs to a server that is connected under the
\* name the tool has, whatever is renamed, added again, removed or restarted.
THEOREM ToolsAreLive == Spec => []NoDanglingTool
  <1>1. Init => NoDanglingTool
    BY Constants DEF Init, NoDanglingTool
  <1>2. TypeOK /\ NoDanglingTool /\ [Next]_vars => NoDanglingTool'
    <2>. SUFFICES ASSUME TypeOK, NoDanglingTool, [Next]_vars PROVE NoDanglingTool'
      OBVIOUS
    <2>1. CASE UNCHANGED manager
      BY <2>1 DEF NoDanglingTool, manager
    <2>2. CASE UNCHANGED vars
      BY <2>1, <2>2 DEF vars
    <2>3. ASSUME NEW e \in Exts, StartInstall(e) \/ Installer(e) PROVE NoDanglingTool'
      BY <2>1, <2>3 DEF StartInstall, Installer, InsertInstance, InsertServer,
                        InsertCustomInstance, Copy, InsertRuntime, Finish
    <2>4. ASSUME NEW e \in Exts, StartUninstall(e) \/ Uninstaller(e)
          PROVE  NoDanglingTool'
      BY <2>1, <2>4, RemovedTools
         DEF StartUninstall, Uninstaller, StopRuntime, DeleteRuntime, DeleteInstance
    <2>5. ASSUME NEW e \in Exts, Requested(e) PROVE NoDanglingTool'
      <3>1. Request(e)
        BY <2>5 DEF Requested, UpdateServer, DeleteServer, TestServer, ReadPlugin
      <3>. QED BY <2>1, <3>1 DEF Request
    <2>6. ASSUME NEW c \in calls, Continued(c) PROVE NoDanglingTool'
      BY <2>1, <2>6, RemovedTools, ContinuedCalls
         DEF Continued, UpdatePlugin, TogglePluginMCP, SyncManager, PurgeServer
    <2>7. ASSUME NEW j \in jobs, RefuseAdd(j) \/ BeginAdd(j) \/ LoadPlugin(j)
          PROVE  NoDanglingTool'
      BY <2>1, <2>7, BegunTools DEF RefuseAdd, LoadPlugin
    <2>8. CASE SyncMarketplace
      BY <2>1, <2>8 DEF SyncMarketplace
    <2>9. CASE Restart
      BY <2>9, Constants DEF Restart, NoDanglingTool
    <2>. QED BY <2>2, <2>3, <2>4, <2>5, <2>6, <2>7, <2>8, <2>9, AddedTools
             DEF Next, Requested, Continued
  <1>. QED BY <1>1, <1>2, TypeCorrect, PTL DEF Spec

(***************************************************************************)
(* Downloads: the instance is written and the downloader started in one    *)
(* step, and every way the downloader has of ending tries to mark the      *)
(* instance.                                                               *)
(***************************************************************************)

\* In a process that was never restarted a download that is shown is under way,
\* unless the UPDATE that should have ended it has failed.
THEOREM DownloadsAreAtWork == Spec => []DownloaderAtWork
  <1>1. Init => DownloaderAtWork
    BY DEF Init, DownloaderAtWork
  <1>2. TypeOK /\ DownloaderAtWork /\ [Next]_vars => DownloaderAtWork'
    <2>. SUFFICES ASSUME TypeOK, DownloaderAtWork, [Next]_vars PROVE DownloaderAtWork'
      OBVIOUS
    <2>1. CASE /\ inst' = inst /\ install' = install /\ restarts' = restarts
               /\ lost \subseteq lost'
      BY <2>1 DEF DownloaderAtWork
    <2>2. CASE UNCHANGED vars
      BY <2>1, <2>2 DEF vars, database, counters, history
    <2>3. ASSUME NEW e \in Exts, StartInstall(e) PROVE DownloaderAtWork'
      BY <2>3 DEF TypeOK, DownloaderAtWork, StartInstall, Goto, database, counters,
                  history
    <2>4. ASSUME NEW e \in Exts, Installer(e) PROVE DownloaderAtWork'
      <3>1. CASE InsertInstance(e)
        BY <3>1 DEF TypeOK, DownloaderAtWork, InsertInstance, Goto, counters, history
      <3>2. CASE InsertServer(e)
        <4>1. lost \subseteq lost' /\ restarts' = restarts
          BY <3>2 DEF InsertServer, Ignored, counters
        <4>2. \A f \in Exts \ {e} : inst'[f] = inst[f] /\ install'[f] = install[f]
          BY <3>2 DEF TypeOK, InsertServer, Goto
        <4>3. \/ inst'[e] = inst[e] /\ install[e] = "server"
              \/ inst'[e] # "downloading"
          BY <3>2 DEF TypeOK, InsertServer
        <4>. QED BY <4>1, <4>2, <4>3 DEF DownloaderAtWork
      <3>3. CASE InsertCustomInstance(e)
        <4>1. lost \subseteq lost' /\ restarts' = restarts
          BY <3>3 DEF InsertCustomInstance, Ignored, counters
        <4>2. \A f \in Exts \ {e} : inst'[f] = inst[f] /\ install'[f] = install[f]
          BY <3>3 DEF TypeOK, InsertCustomInstance, Goto
        <4>3. \/ inst'[e] = inst[e] /\ install[e] = "instance"
              \/ inst'[e] # "downloading"
          BY <3>3 DEF TypeOK, InsertCustomInstance
        <4>. QED BY <4>1, <4>2, <4>3 DEF DownloaderAtWork
      <3>4. CASE Copy(e)
        <4>1. restarts' = restarts /\ lost \subseteq lost'
          BY <3>4, StatusType DEF Copy, MarkedError, counters
        <4>2. \A f \in Exts \ {e} : inst'[f] = inst[f] /\ install'[f] = install[f]
          BY <3>4, StatusType DEF TypeOK, Copy, MarkedError, Goto
        <4>3. install'[e] = "insert" \/ inst'[e] # "downloading" \/ e \in lost'
          BY <3>4, StatusType DEF TypeOK, Copy, MarkedError, Goto
        <4>. QED BY <4>1, <4>2, <4>3 DEF DownloaderAtWork
      <3>5. CASE InsertRuntime(e)
        <4>1. restarts' = restarts /\ lost \subseteq lost'
          BY <3>5, StatusType DEF InsertRuntime, MarkedError, counters
        <4>2. \A f \in Exts \ {e} : inst'[f] = inst[f] /\ install'[f] = install[f]
          BY <3>5, StatusType DEF TypeOK, InsertRuntime, MarkedError, Goto
        <4>3. install'[e] = "finish" \/ inst'[e] # "downloading" \/ e \in lost'
          BY <3>5, StatusType DEF TypeOK, InsertRuntime, MarkedError, Goto
        <4>. QED BY <4>1, <4>2, <4>3 DEF DownloaderAtWork
      <3>6. CASE Finish(e)
        <4>1. restarts' = restarts /\ lost \subseteq lost'
          BY <3>6, StatusType DEF Finish, counters
        <4>2. \A f \in Exts \ {e} : inst'[f] = inst[f] /\ install'[f] = install[f]
          BY <3>6, StatusType DEF TypeOK, Finish, Goto
        <4>3. inst'[e] # "downloading" \/ e \in lost'
          BY <3>6, StatusType DEF Finish
        <4>. QED BY <4>1, <4>2, <4>3 DEF DownloaderAtWork
      <3>. QED BY <2>4, <3>1, <3>2, <3>3, <3>4, <3>5, <3>6 DEF Installer
    <2>5. ASSUME NEW e \in Exts, StartUninstall(e) \/ Uninstaller(e)
          PROVE  DownloaderAtWork'
      <3>1. CASE DeleteInstance(e)
        <4>1. restarts' = restarts /\ install' = install /\ lost \subseteq lost'
          BY <3>1 DEF DeleteInstance, Ignored, counters
        <4>2. \A f \in Exts : inst'[f] = inst[f] \/ inst'[f] # "downloading"
          BY <3>1 DEF TypeOK, DeleteInstance
        <4>. QED BY <4>1, <4>2 DEF DownloaderAtWork
      <3>. QED BY <2>1, <2>5, <3>1 DEF StartUninstall, Uninstaller, StopRuntime,
                                       DeleteRuntime, Ignored, database, counters, history
    <2>6. ASSUME NEW e \in Exts, Requested(e) PROVE DownloaderAtWork'
      <3>1. Request(e)
        BY <2>6 DEF Requested, UpdateServer, DeleteServer, TestServer, ReadPlugin
      <3>. QED BY <2>1, <3>1 DEF Request
    <2>7. ASSUME NEW c \in calls, Continued(c) PROVE DownloaderAtWork'
      BY <2>1, <2>7 DEF Continued, UpdatePlugin, TogglePluginMCP, SyncManager,
                        PurgeServer, Ignored, database, counters, history
    <2>8. ASSUME NEW j \in jobs, RefuseAdd(j) \/ BeginAdd(j) \/ LoadPlugin(j)
          PROVE  DownloaderAtWork'
      BY <2>1, <2>8 DEF RefuseAdd, BeginAdd, LoadPlugin, database, counters, history
    <2>9. CASE EndAdd
      BY <2>1, <2>9 DEF EndAdd, database, counters, history
    <2>10. CASE SyncMarketplace
      BY <2>1, <2>10 DEF SyncMarketplace, counters, history
    <2>11. CASE Restart
      BY <2>11 DEF TypeOK, Restart, DownloaderAtWork
    <2>. QED BY <2>2, <2>3, <2>4, <2>5, <2>6, <2>7, <2>8, <2>9, <2>10, <2>11
             DEF Next, Requested, Continued
  <1>. QED BY <1>1, <1>2, TypeCorrect, PTL DEF Spec

(***************************************************************************)
(* Enabled servers.  What a step may do to the parts of the invariant is   *)
(* stated for each kind of step, and then what follows from it.            *)
(***************************************************************************)

\* A request that begins: the call it leaves and what it does to the row.
LEMMA Beginning ==
    ASSUME TypeOK, NEW e \in Exts, Requested(e)
    PROVE  /\ UNCHANGED <<kind, wanted, install, removal, adding, entry, lost>>
           /\ row[e] # "absent" /\ calls \subseteq calls' /\ jobs \subseteq jobs'
           /\ \A f \in Exts \ {e} : row'[f] = row[f] /\ name'[f] = name[f]
           /\ \A f \in Exts \ {e} : f \in crossed => f \in crossed'
           /\ \A c \in calls' \ calls : c.ext = e
           /\ \A c \in calls' \ calls :
                  c.todo \in {"update on", "update off", "toggle"} => ~IsServer(e)
           /\ \/ UpdateServer(e)
              \/ /\ UNCHANGED <<row, name, crossed>>
                 /\ \A c \in calls' \ calls : ~Stops(c)
  <1>1. Request(e)
    BY DEF Requested, UpdateServer, DeleteServer, TestServer, ReadPlugin
  <1>2. /\ UNCHANGED <<kind, wanted, install, removal, adding, entry, lost>>
        /\ row[e] # "absent"
    BY <1>1 DEF Request, manager
  <1>3. calls \subseteq calls' /\ jobs \subseteq jobs'
    BY DEF Requested, UpdateServer, DeleteServer, TestServer, ReadPlugin
  <1>4. CASE UpdateServer(e)
    <2>1. PICK enabled \in {"off", "on"}, n \in Names :
              /\ row' = [row EXCEPT ![e] = enabled]
              /\ name' = [name EXCEPT ![e] = n]
              /\ calls' = calls \cup
                     {Call(e, IF enabled = "on" THEN "restart" ELSE "stop", n)}
              /\ Crossing(e, enabled)
      BY <1>4 DEF UpdateServer
    <2>2. \A f \in Exts \ {e} : row'[f] = row[f] /\ name'[f] = name[f]
      BY <2>1 DEF TypeOK
    <2>3. \A f \in Exts \ {e} : f \in crossed => f \in crossed'
      BY <2>1 DEF Crossing
    <2>4. \A c \in calls' \ calls : c.ext = e /\ c.todo \in {"restart", "stop"}
      BY <2>1 DEF Call
    <2>. QED BY <1>2, <1>3, <1>4, <2>2, <2>3, <2>4
  <1>5. CASE DeleteServer(e) \/ TestServer(e) \/ ReadPlugin(e)
    <2>1. UNCHANGED <<row, name, crossed>>
      BY <1>5 DEF DeleteServer, TestServer, ReadPlugin
    <2>2. CASE DeleteServer(e)
      <3>1. calls' = calls \cup {Call(e, "delete", name[e])}
        BY <2>2 DEF DeleteServer
      <3>2. \A c \in calls' \ calls : c.ext = e /\ c.todo \in {"delete"}
        BY <3>1 DEF Call
      <3>. QED BY <1>2, <1>3, <2>1, <3>2 DEF Stops
    <2>3. CASE TestServer(e)
      <3>1. calls' = calls
        BY <2>3 DEF TestServer
      <3>. QED BY <1>2, <1>3, <2>1, <3>1
    <2>4. CASE ReadPlugin(e)
      <3>1. PICK next \in {"update on", "update off", "toggle"} :
                calls' = calls \cup {Call(e, next, name[e])}
        BY <2>4 DEF ReadPlugin
      <3>2. \A c \in calls' \ calls : c.ext = e /\ c.todo = next
        <4>1. Call(e, next, name[e]).ext = e /\ Call(e, next, name[e]).todo = next
          BY DEF Call
        <4>2. \A c \in calls' \ calls : c = Call(e, next, name[e])
          BY <3>1
        <4>. QED BY <4>1, <4>2, Zenon
      <3>3. ~IsServer(e)
        BY <2>4 DEF ReadPlugin, IsServer
      <3>. QED BY <1>2, <1>3, <2>1, <3>2, <3>3 DEF Stops
    <2>. QED BY <1>5, <2>2, <2>3, <2>4
  <1>. QED BY <1>4, <1>5 DEF Requested

LEMMA Continuing ==
    ASSUME TypeOK, PluginCalls, NEW c \in calls, Continued(c)
    PROVE  /\ UNCHANGED <<kind, wanted, name, install, removal, adding, crossed>>
           /\ c.ext \in Exts /\ jobs \subseteq jobs' /\ lost \subseteq lost'
           /\ \A f \in Exts \ {c.ext} : entry'[f] = entry[f] /\ row'[f] = row[f]
           /\ IsServer(c.ext) => row'[c.ext] \in {row[c.ext], "absent"}
           /\ calls \ {c} \subseteq calls'
           /\ \A d \in calls' \ calls : d.ext = c.ext /\ d.todo \in {"stop", "purge"}
           /\ \A d \in calls' \ calls : IsServer(c.ext) => d.todo = "purge"
  <1>1. c.ext \in Exts /\ c \in Calls
    BY ContinuedCalls
  <1>2. jobs \subseteq jobs' /\ calls \ {c} \subseteq calls'
    BY ContinuedCalls
  <1>3. UNCHANGED <<kind, wanted, name, install, removal, adding, crossed>>
        /\ lost \subseteq lost'
    BY DEF Continued, UpdatePlugin, TogglePluginMCP, SyncManager, PurgeServer, Removed,
           Ignored, database, manager, history
  <1>4. \A d \in calls' \ calls : d.ext = c.ext /\ d.todo \in {"stop", "purge"}
    <2>1. \A todo \in {"stop", "purge"} :
              [c EXCEPT !.todo = todo].ext = c.ext /\ [c EXCEPT !.todo = todo].todo = todo
      BY <1>1 DEF Calls
    <2>2. CASE calls' = calls \ {c}
      BY <2>2
    <2>3. ASSUME NEW todo \in {"stop", "purge"},
                 calls' = (calls \ {c}) \cup {[c EXCEPT !.todo = todo]}
          PROVE  \A d \in calls' \ calls : d.ext = c.ext /\ d.todo \in {"stop", "purge"}
      <3>1. \A d \in calls' \ calls : d = [c EXCEPT !.todo = todo]
        BY <2>3
      <3>. QED BY <2>1, <3>1
    <2>. QED BY <2>2, <2>3, ContinuedCalls
  <1>5. CASE UpdatePlugin(c) \/ TogglePluginMCP(c)
    <2>1. ~IsServer(c.ext) /\ entry' = entry
      BY <1>5 DEF PluginCalls, UpdatePlugin, TogglePluginMCP, manager
    <2>2. row' = row \/ \E v : row' = [row EXCEPT ![c.ext] = v]
      BY <1>5 DEF UpdatePlugin, TogglePluginMCP
    <2>3. \A f \in Exts \ {c.ext} : row'[f] = row[f]
      BY <1>1, <2>2 DEF TypeOK
    <2>. QED BY <1>1, <1>2, <1>3, <1>4, <2>1, <2>3
  <1>6. CASE SyncManager(c)
    <2>1. entry' = [entry EXCEPT ![c.ext] = Absent] /\ row' = row
      BY <1>6 DEF SyncManager, Removed, database
    <2>2. \A f \in Exts \ {c.ext} : entry'[f] = entry[f]
      BY <2>1 DEF TypeOK
    <2>3. \A d \in calls' \ calls : d.todo = "purge"
      <3>1. [c EXCEPT !.todo = "purge"].todo = "purge"
        BY <1>1 DEF Calls
      <3>. QED BY <1>6, <3>1 DEF SyncManager, Done, GoOn
    <2>. QED BY <1>1, <1>2, <1>3, <1>4, <2>1, <2>2, <2>3
  <1>7. CASE PurgeServer(c)
    <2>1. entry' = entry /\ (row' = row \/ row' = [row EXCEPT ![c.ext] = "absent"])
          /\ calls' = calls \ {c}
      BY <1>7 DEF PurgeServer, Done, manager
    <2>2. /\ \A f \in Exts \ {c.ext} : row'[f] = row[f]
          /\ row'[c.ext] \in {row[c.ext], "absent"}
      BY <1>1, <2>1 DEF TypeOK
    <2>. QED BY <1>1, <1>2, <1>3, <1>4, <2>1, <2>2
  <1>. QED BY <1>5, <1>6, <1>7 DEF Continued

\* The row and the calls of a server are touched when its installer has got that far.
LEMMA PlacesInductive ==
    ASSUME TypeOK, Places, PluginCalls, Next
    PROVE  Places'
  <1>1. CASE /\ kind' = kind /\ wanted' = wanted /\ install' = install
             /\ name' = name
             /\ \A e \in Exts : IsServer(e) => row'[e] \in {row[e], "absent"}
             /\ \A c \in calls' \ calls : \E d \in calls : d.ext = c.ext
    <2>. SUFFICES ASSUME NEW e \in Exts
                  PROVE  /\ install[e] = "checked" => FromCatalog(e)
                         /\ install[e] = "server" => IsServer(e)
                         /\ install[e] \in {"copy", "insert", "finish"} => ~IsServer(e)
                         /\ IsServer(e) /\ install[e] \in {"fresh", "checked", "server"}
                              => /\ row'[e] = "absent" /\ name[e] = wanted
                                 /\ \A c \in calls' : c.ext # e
      BY <1>1 DEF Places, IsServer, FromCatalog
    <2>. QED BY <1>1 DEF Places
  <1>2. ASSUME NEW e \in Exts, StartInstall(e) PROVE Places'
    BY <1>2, KindsType
       DEF TypeOK, Places, IsServer, FromCatalog, StartInstall, Goto, database
  <1>3. ASSUME NEW e \in Exts, Installer(e) PROVE Places'
    <2>1. CASE InsertInstance(e)
      BY <2>1 DEF TypeOK, Places, IsServer, FromCatalog, InsertInstance, Goto
    <2>2. CASE InsertServer(e)
      <3>1. install'[e] \in {"instance", "over"}
            /\ UNCHANGED <<kind, wanted, name, calls>>
        BY <2>2 DEF TypeOK, InsertServer, Goto
      <3>2. \A f \in Exts \ {e} : row'[f] = row[f] /\ install'[f] = install[f]
        BY <2>2 DEF TypeOK, InsertServer, Goto
      <3>. QED BY <3>1, <3>2 DEF Places, IsServer, FromCatalog
    <2>3. CASE InsertCustomInstance(e)
      <3>1. install'[e] = "over" /\ UNCHANGED <<kind, wanted, name, calls>>
        BY <2>3 DEF TypeOK, InsertCustomInstance, Goto
      <3>2. \A f \in Exts \ {e} : row'[f] = row[f] /\ install'[f] = install[f]
        BY <2>3 DEF TypeOK, InsertCustomInstance, Goto
      <3>. QED BY <3>1, <3>2 DEF Places, IsServer, FromCatalog
    <2>4. CASE Copy(e)
      <3>1. ~IsServer(e) /\ UNCHANGED <<kind, wanted, name, row, calls>>
        BY <2>4 DEF Places, Copy
      <3>2. /\ install'[e] \in {"insert", "over"}
            /\ \A f \in Exts \ {e} : install'[f] = install[f]
        BY <2>4 DEF TypeOK, Copy, Goto
      <3>. QED BY <3>1, <3>2 DEF Places, IsServer, FromCatalog
    <2>5. CASE InsertRuntime(e)
      <3>1. ~IsServer(e) /\ UNCHANGED <<kind, wanted, name, calls>>
        BY <2>5 DEF Places, InsertRuntime
      <3>2. install'[e] \in {"finish", "over"}
        BY <2>5 DEF TypeOK, InsertRuntime, Goto
      <3>3. \A f \in Exts \ {e} : row'[f] = row[f] /\ install'[f] = install[f]
        BY <2>5 DEF TypeOK, InsertRuntime, Goto
      <3>. QED BY <3>1, <3>2, <3>3 DEF Places, IsServer, FromCatalog
    <2>6. CASE Finish(e)
      BY <2>6 DEF TypeOK, Places, IsServer, FromCatalog, Finish, Goto
    <2>. QED BY <1>3, <2>1, <2>2, <2>3, <2>4, <2>5, <2>6 DEF Installer
  <1>4. ASSUME NEW e \in Exts, StartUninstall(e) \/ Uninstaller(e) PROVE Places'
    <2>1. CASE DeleteRuntime(e)
      <3>1. UNCHANGED <<kind, wanted, name, install, calls>>
        BY <2>1 DEF DeleteRuntime
      <3>2. \A f \in Exts : IsServer(f) => row'[f] \in {row[f], "absent"}
        BY <2>1 DEF TypeOK, IsServer, DeleteRuntime
      <3>. QED BY <1>1, <3>1, <3>2
    <2>2. CASE StartUninstall(e) \/ StopRuntime(e) \/ DeleteInstance(e)
      <3>1. UNCHANGED <<kind, wanted, name, row, install, calls>>
        BY <2>2 DEF StartUninstall, StopRuntime, DeleteInstance, database
      <3>. QED BY <1>1, <3>1
    <2>. QED BY <1>4, <2>1, <2>2 DEF Uninstaller
  <1>5. ASSUME NEW e \in Exts, Requested(e) PROVE Places'
    <2>1. /\ UNCHANGED <<kind, wanted, install>> /\ row[e] # "absent"
          /\ \A f \in Exts \ {e} : row'[f] = row[f] /\ name'[f] = name[f]
          /\ \A c \in calls' \ calls : c.ext = e
      BY <1>5, Beginning
    <2>. QED BY <2>1 DEF Places, IsServer, FromCatalog
  <1>6. ASSUME NEW c \in calls, Continued(c) PROVE Places'
    <2>1. /\ UNCHANGED <<kind, wanted, name, install>> /\ c.ext \in Exts
          /\ \A f \in Exts \ {c.ext} : row'[f] = row[f]
          /\ IsServer(c.ext) => row'[c.ext] \in {row[c.ext], "absent"}
          /\ \A d \in calls' \ calls : d.ext = c.ext
      BY <1>6, Continuing
    <2>. QED BY <1>1, <2>1
  <1>7. ASSUME NEW j \in jobs, RefuseAdd(j) \/ BeginAdd(j) \/ LoadPlugin(j) PROVE Places'
    BY <1>1, <1>7 DEF RefuseAdd, BeginAdd, LoadPlugin, database
  <1>8. CASE EndAdd
    BY <1>1, <1>8 DEF EndAdd, database
  <1>9. CASE SyncMarketplace
    BY <1>1, <1>9 DEF SyncMarketplace
  <1>10. CASE Restart
    BY <1>10 DEF TypeOK, Places, IsServer, FromCatalog, Restart, database
  <1>. QED BY <1>2, <1>3, <1>4, <1>5, <1>6, <1>7, <1>8, <1>9, <1>10
           DEF Next, Requested, Continued

\* The steps that are no part of a request leave the calls alone, but for a restart.
LEMMA CallsKept ==
    ASSUME \/ \E e \in Exts : StartInstall(e) \/ Installer(e) \/ StartUninstall(e)
                              \/ Uninstaller(e)
           \/ \E j \in jobs : RefuseAdd(j) \/ BeginAdd(j) \/ LoadPlugin(j)
           \/ EndAdd \/ SyncMarketplace \/ Restart
    PROVE  calls' \in {calls, {}} /\ kind' = kind /\ name' = name
           /\ (crossed' = crossed \/ calls' = {})
  <1>1. ASSUME NEW e \in Exts, StartInstall(e) \/ Installer(e)
        PROVE  UNCHANGED <<calls, kind, name, crossed>>
    BY <1>1 DEF StartInstall, Installer, InsertInstance, InsertServer,
                InsertCustomInstance, Copy, InsertRuntime, Finish, database, history
  <1>2. ASSUME NEW e \in Exts, StartUninstall(e) \/ Uninstaller(e)
        PROVE  UNCHANGED <<calls, kind, name, crossed>>
    BY <1>2 DEF StartUninstall, Uninstaller, StopRuntime, DeleteRuntime, DeleteInstance,
                database, history
  <1>3. ASSUME NEW j \in jobs, RefuseAdd(j) \/ BeginAdd(j) \/ LoadPlugin(j)
        PROVE  UNCHANGED <<calls, kind, name, crossed>>
    BY <1>3 DEF RefuseAdd, BeginAdd, LoadPlugin, database, history
  <1>4. ASSUME EndAdd \/ SyncMarketplace PROVE UNCHANGED <<calls, kind, name, crossed>>
    BY <1>4 DEF EndAdd, SyncMarketplace, database, history
  <1>5. ASSUME Restart PROVE calls' = {} /\ kind' = kind /\ name' = name
    BY <1>5 DEF Restart, database
  <1>. QED BY <1>1, <1>2, <1>3, <1>4, <1>5

LEMMA PluginCallsInductive ==
    ASSUME TypeOK, PluginCalls, Next
    PROVE  PluginCalls'
  <1>1. ASSUME NEW e \in Exts, Requested(e) PROVE PluginCalls'
    BY <1>1, Beginning DEF PluginCalls, IsServer
  <1>2. ASSUME NEW c \in calls, Continued(c) PROVE PluginCalls'
    BY <1>2, Continuing DEF PluginCalls, IsServer
  <1>3. CASE calls' \in {calls, {}} /\ kind' = kind
    BY <1>3 DEF PluginCalls, IsServer
  <1>. QED BY <1>1, <1>2, <1>3, CallsKept DEF Next, Requested, Continued

LEMMA StoppedInductive ==
    ASSUME TypeOK, Places, PluginCalls, StoppedIsOff, Next
    PROVE  StoppedIsOff'
  <1>1. CASE /\ calls' \in {calls, {}} /\ kind' = kind /\ name' = name
             /\ crossed' = crossed \/ calls' = {}
             /\ \A c \in calls : IsServer(c.ext) => row'[c.ext] \in {row[c.ext], "absent"}
    BY <1>1 DEF StoppedIsOff, IsServer, Stops
  <1>2. ASSUME NEW e \in Exts, StartInstall(e) \/ Installer(e) PROVE StoppedIsOff'
    <2>1. CASE InsertServer(e)
      <3>1. \A c \in calls : c.ext \in Exts /\ c.ext # e
        BY <2>1 DEF TypeOK, Calls, Places, InsertServer
      <3>2. \A f \in Exts \ {e} : row'[f] = row[f]
        BY <2>1 DEF TypeOK, InsertServer
      <3>. QED BY <1>1, <2>1, <3>1, <3>2, CallsKept DEF Installer
    <2>2. CASE InsertCustomInstance(e)
      <3>1. \A f \in Exts : row'[f] \in {row[f], "absent"}
        BY <2>2 DEF TypeOK, InsertCustomInstance
      <3>2. \A c \in calls : c.ext \in Exts
        BY DEF TypeOK, Calls
      <3>. QED BY <1>1, <2>2, <3>1, <3>2, CallsKept DEF Installer
    <2>3. CASE InsertRuntime(e)
      <3>1. ~IsServer(e) /\ \A f \in Exts \ {e} : row'[f] = row[f]
        BY <2>3 DEF TypeOK, Places, InsertRuntime
      <3>2. \A c \in calls : c.ext \in Exts
        BY DEF TypeOK, Calls
      <3>. QED BY <1>1, <2>3, <3>1, <3>2, CallsKept DEF Installer
    <2>4. CASE StartInstall(e) \/ InsertInstance(e) \/ Copy(e) \/ Finish(e)
      <3>1. row' = row
        BY <2>4 DEF StartInstall, InsertInstance, Copy, Finish, database
      <3>. QED BY <1>1, <2>4, <3>1, CallsKept DEF Installer
    <2>. QED BY <1>2, <2>1, <2>2, <2>3, <2>4 DEF Installer
  <1>3. ASSUME NEW e \in Exts, StartUninstall(e) \/ Uninstaller(e) PROVE StoppedIsOff'
    <2>1. \A f \in Exts : IsServer(f) => row'[f] \in {row[f], "absent"}
      BY <1>3 DEF TypeOK, IsServer, StartUninstall, Uninstaller, StopRuntime,
                  DeleteRuntime, DeleteInstance, database
    <2>2. \A c \in calls : c.ext \in Exts
      BY DEF TypeOK, Calls
    <2>. QED BY <1>1, <1>3, <2>1, <2>2, CallsKept
  <1>4. ASSUME NEW e \in Exts, UpdateServer(e) PROVE StoppedIsOff'
    <2>1. PICK enabled \in {"off", "on"}, n \in Names :
              /\ row' = [row EXCEPT ![e] = enabled]
              /\ name' = [name EXCEPT ![e] = n]
              /\ calls' = calls \cup
                     {Call(e, IF enabled = "on" THEN "restart" ELSE "stop", n)}
              /\ Crossing(e, enabled)
      BY <1>4 DEF UpdateServer
    <2>2. row'[e] = enabled /\ name'[e] = n
      BY <2>1 DEF TypeOK
    <2>3. /\ kind' = kind
          /\ \A f \in Exts \ {e} : row'[f] = row[f] /\ name'[f] = name[f]
          /\ \A f \in Exts \ {e} : f \in crossed => f \in crossed'
      BY <1>4, Beginning DEF Requested
    <2>4. ASSUME NEW c \in calls', IsServer(c.ext)', Stops(c)'
          PROVE  row'[c.ext] # "on" \/ name'[c.ext] \in BadNames \/ c.ext \in crossed'
      <3>1. CASE c \in calls /\ c.ext # e
        BY <2>3, <2>4, <3>1 DEF StoppedIsOff, IsServer, Stops, TypeOK, Calls
      <3>2. CASE c \in calls /\ c.ext = e
        <4>1. enabled = "on" => e \in crossed'
          BY <2>1, <2>4, <3>2 DEF Crossing, Stops
        <4>. QED BY <2>2, <3>2, <4>1
      <3>3. CASE c \notin calls
        <4>1. c = Call(e, IF enabled = "on" THEN "restart" ELSE "stop", n)
          BY <2>1, <3>3
        <4>2. c.ext = e /\ c.name = n
              /\ c.todo = IF enabled = "on" THEN "restart" ELSE "stop"
          BY <4>1 DEF Call
        <4>. QED BY <2>2, <2>4, <4>2 DEF Stops
      <3>. QED BY <3>1, <3>2, <3>3
    <2>. QED BY <2>4 DEF StoppedIsOff
  <1>5. ASSUME NEW e \in Exts, Requested(e), ~UpdateServer(e) PROVE StoppedIsOff'
    BY <1>5, Beginning DEF StoppedIsOff, IsServer, Stops
  <1>6. ASSUME NEW c \in calls, Continued(c) PROVE StoppedIsOff'
    <2>1. /\ UNCHANGED <<kind, name, crossed>>
          /\ \A f \in Exts : IsServer(f) => row'[f] \in {row[f], "absent"}
          /\ \A d \in calls' \ calls : IsServer(d.ext) => d.todo = "purge"
      BY <1>6, Continuing
    <2>2. \A d \in calls : d.ext \in Exts
      BY DEF TypeOK, Calls
    <2>. QED BY <2>1, <2>2 DEF StoppedIsOff, IsServer, Stops
  <1>7. ASSUME \/ \E j \in jobs : RefuseAdd(j) \/ BeginAdd(j) \/ LoadPlugin(j)
               \/ EndAdd \/ SyncMarketplace \/ Restart
        PROVE  StoppedIsOff'
    <2>1. row' = row
      BY <1>7 DEF RefuseAdd, BeginAdd, LoadPlugin, EndAdd, SyncMarketplace, Restart,
                  database
    <2>. QED BY <1>1, <1>7, <2>1, CallsKept
  <1>. QED BY <1>2, <1>3, <1>4, <1>5, <1>6, <1>7 DEF Next, Requested, Continued

LEMMA OneAddInductive ==
    ASSUME OneAdd, Next
    PROVE  OneAdd'
  <1>1. adding' = adding \/ adding' = {} \/ \E j : adding' = {j}
    <2>1. ASSUME NEW e \in Exts, StartInstall(e) \/ Installer(e) PROVE adding' = adding
      BY <2>1 DEF StartInstall, Installer, InsertInstance, InsertServer, manager,
                  InsertCustomInstance, Copy, InsertRuntime, Finish
    <2>2. ASSUME NEW e \in Exts, StartUninstall(e) \/ Uninstaller(e)
          PROVE  adding' = adding
      BY <2>2 DEF StartUninstall, Uninstaller, StopRuntime, DeleteRuntime,
                  DeleteInstance, Removed, manager
    <2>3. ASSUME NEW e \in Exts, Requested(e) PROVE adding' = adding
      <3>1. Request(e)
        BY <2>3 DEF Requested, UpdateServer, DeleteServer, TestServer, ReadPlugin
      <3>. QED BY <3>1 DEF Request, manager
    <2>4. ASSUME NEW c \in calls, Continued(c) PROVE adding' = adding
      BY <2>4 DEF Continued, UpdatePlugin, TogglePluginMCP, SyncManager, PurgeServer,
                  Removed, manager
    <2>5. ASSUME NEW j \in jobs, RefuseAdd(j) \/ BeginAdd(j) \/ LoadPlugin(j)
          PROVE  adding' = adding \/ adding' = {j}
      BY <2>5 DEF RefuseAdd, BeginAdd, LoadPlugin, manager
    <2>6. ASSUME EndAdd \/ Restart PROVE adding' = {}
      BY <2>6 DEF EndAdd, Restart
    <2>7. ASSUME SyncMarketplace PROVE adding' = adding
      BY <2>7 DEF SyncMarketplace, manager
    <2>. QED BY <2>1, <2>2, <2>3, <2>4, <2>5, <2>6, <2>7 DEF Next, Requested, Continued
  <1>. QED BY <1>1 DEF OneAdd

\* What EnabledIsServed says of one server.
Served(e) ==
    IsServer(e) /\ row[e] = "on" /\ name[e] \notin BadNames =>
        entry[e] # Absent \/ Pending(e) \/ e \in lost \cup crossed

LEMMA ServedIs == EnabledIsServed <=> \A e \in Exts : Served(e)
  BY DEF EnabledIsServed, Served

\* A step that neither enables a server nor takes away what is pending for it.
LEMMA StillServed ==
    ASSUME NEW e \in Exts, Served(e), kind' = kind, name'[e] = name[e],
           row'[e] = "on" => row[e] = "on",
           entry[e] # Absent => entry'[e] # Absent,
           Pending(e) => Pending(e)' \/ entry'[e] # Absent,
           e \in lost => e \in lost', e \in crossed => e \in crossed'
    PROVE  Served(e)'
  BY DEF Served, IsServer

\* A step that keeps what is pending for e.
LEMMA StillPending ==
    ASSUME NEW e \in Exts, jobs \subseteq jobs', adding' = adding, wanted' = wanted,
           \A c \in calls \ calls' : c.ext # e,
           removal[e] = "stopped" => removal'[e] = "stopped",
           install[e] = "instance" => install'[e] = "instance"
    PROVE  Pending(e) => Pending(e)'
  BY DEF Pending

LEMMA ServedByInstaller ==
    ASSUME TypeOK, Inv, NEW e \in Exts, StartInstall(e) \/ Installer(e)
    PROVE  EnabledIsServed'
  <1>1. \A f \in Exts : Served(f)
    BY ServedIs DEF Inv
  <1>2. UNCHANGED <<kind, wanted, name, removal, calls, adding, entry, crossed>>
        /\ jobs \subseteq jobs' /\ lost \subseteq lost'
    BY StatusType
       DEF StartInstall, Installer, InsertInstance, InsertServer, InsertCustomInstance,
           Copy, InsertRuntime, Finish, MarkedError, Ignored, database, manager, history
  <1>3. \A f \in Exts \ {e} : row'[f] = row[f] /\ install'[f] = install[f]
    <2>1. row' = row \/ \E v : row' = [row EXCEPT ![e] = v]
      BY DEF StartInstall, Installer, InsertInstance, InsertServer, InsertCustomInstance,
             Copy, InsertRuntime, Finish, database
    <2>2. \E v : install' = [install EXCEPT ![e] = v]
      BY DEF StartInstall, Installer, InsertInstance, InsertServer, InsertCustomInstance,
             Copy, InsertRuntime, Finish, Goto
    <2>. QED BY <2>1, <2>2 DEF TypeOK
  <1>4. ASSUME NEW f \in Exts \ {e} PROVE Served(f)'
    <2>1. Pending(f) => Pending(f)'
      BY <1>2, <1>3, StillPending
    <2>. QED BY <1>1, <1>2, <1>3, <2>1, StillServed
  <1>5. Served(e)'
    <2>1. CASE InsertServer(e)
      <3>1. SUFFICES ASSUME row'[e] = "on", name[e] \notin BadNames PROVE Pending(e)'
        BY <1>2 DEF Served
      <3>2. IsServer(e) /\ row[e] = "absent" /\ name[e] = wanted
        BY <2>1 DEF Inv, Places, InsertServer
      <3>3. row' = [row EXCEPT ![e] = "on"]
        BY <2>1, <3>1, <3>2 DEF TypeOK, InsertServer
      <3>4. install'[e] = "instance" \/ AddJob(e, name[e]) \in jobs'
        <4>1. row' # row /\ row' # [row EXCEPT ![e] = "off"]
          BY <3>1, <3>2 DEF TypeOK
        <4>. QED BY <2>1, <4>1 DEF TypeOK, InsertServer, Goto
      <3>5. CASE install'[e] = "instance"
        BY <1>2, <3>1, <3>2, <3>5 DEF Pending
      <3>6. CASE AddJob(e, name[e]) \in jobs'
        BY <3>1, <3>6 DEF Pending, AddJob
      <3>. QED BY <3>4, <3>5, <3>6
    <2>2. CASE InsertCustomInstance(e)
      <3>1. row' = row \/ row'[e] = "absent"
        BY <2>2 DEF TypeOK, InsertCustomInstance
      <3>2. SUFFICES ASSUME row'[e] = "on", row[e] = "on", entry[e] = Absent,
                            e \notin lost', Pending(e)
                     PROVE  Pending(e)'
        BY <1>1, <1>2, <3>1 DEF Served, IsServer
      <3>3. row' = row
        BY <3>1, <3>2
      <3>4. AddJob(e, wanted) \in jobs'
        <4>1. row' # [row EXCEPT ![e] = "absent"]
          BY <3>2 DEF TypeOK
        <4>. QED BY <2>2, <3>2, <4>1 DEF InsertCustomInstance, Ignored
      <3>5. CASE wanted \notin BadNames
        BY <3>4, <3>5 DEF Pending, AddJob
      <3>6. CASE wanted \in BadNames
        BY <1>2, <3>2, <3>6 DEF Pending
      <3>. QED BY <3>5, <3>6
    <2>3. CASE InsertRuntime(e) \/ Copy(e) \/ Finish(e)
      <3>1. ~IsServer(e)
        BY <2>3 DEF Inv, Places, InsertRuntime, Copy, Finish
      <3>. QED BY <1>2, <3>1 DEF Served, IsServer
    <2>4. CASE StartInstall(e) \/ InsertInstance(e)
      <3>1. row' = row /\ install[e] \in {"fresh", "checked"}
        BY <2>4 DEF StartInstall, InsertInstance, database
      <3>2. Pending(e) => Pending(e)'
        BY <1>2, <3>1, StillPending
      <3>. QED BY <1>1, <1>2, <3>1, <3>2, StillServed
    <2>. QED BY <2>1, <2>2, <2>3, <2>4 DEF Installer
  <1>. QED BY <1>4, <1>5, ServedIs DEF EnabledIsServed, Served

LEMMA ServedByUninstaller ==
    ASSUME TypeOK, Inv, NEW e \in Exts, StartUninstall(e) \/ Uninstaller(e)
    PROVE  EnabledIsServed'
  <1>1. \A f \in Exts : Served(f)
    BY ServedIs DEF Inv
  <1>2. UNCHANGED <<kind, wanted, name, install, calls, jobs, adding, crossed>>
        /\ lost \subseteq lost'
    BY DEF StartUninstall, Uninstaller, StopRuntime, DeleteRuntime, DeleteInstance,
           Removed, Ignored, database, manager, history
  <1>3. \A f \in Exts \ {e} :
            row'[f] = row[f] /\ removal'[f] = removal[f] /\ entry'[f] = entry[f]
    <2>1. row' = row \/ \E v : row' = [row EXCEPT ![e] = v]
      BY DEF StartUninstall, Uninstaller, StopRuntime, DeleteRuntime, DeleteInstance,
             database
    <2>2. \E v : removal' = [removal EXCEPT ![e] = v]
      BY DEF StartUninstall, Uninstaller, StopRuntime, DeleteRuntime, DeleteInstance,
             GotoRemoval
    <2>3. entry' = entry \/ entry' = [entry EXCEPT ![e] = Absent]
      BY DEF StartUninstall, Uninstaller, StopRuntime, DeleteRuntime, DeleteInstance,
             Removed, manager
    <2>. QED BY <2>1, <2>2, <2>3 DEF TypeOK
  <1>4. ASSUME NEW f \in Exts \ {e} PROVE Served(f)'
    <2>1. Pending(f) => Pending(f)'
      BY <1>2, <1>3, StillPending
    <2>. QED BY <1>1, <1>2, <1>3, <2>1, StillServed
  <1>5. Served(e)'
    <2>1. CASE StopRuntime(e)
      <3>1. removal'[e] = "stopped"
        BY <2>1 DEF TypeOK, StopRuntime, GotoRemoval
      <3>. QED BY <3>1 DEF Served, Pending
    <2>2. CASE DeleteRuntime(e)
      <3>1. row'[e] # "on" \/ e \in lost'
        BY <2>2 DEF TypeOK, DeleteRuntime, Ignored
      <3>. QED BY <3>1 DEF Served
    <2>3. CASE StartUninstall(e) \/ DeleteInstance(e)
      <3>1. row' = row /\ entry' = entry /\ removal[e] # "stopped"
        BY <2>3 DEF StartUninstall, DeleteInstance, database, manager
      <3>2. Pending(e) => Pending(e)'
        BY <1>2, <3>1, StillPending
      <3>. QED BY <1>1, <1>2, <3>1, <3>2, StillServed
    <2>. QED BY <2>1, <2>2, <2>3 DEF Uninstaller
  <1>. QED BY <1>4, <1>5 DEF EnabledIsServed, Served

LEMMA ServedByRequest ==
    ASSUME TypeOK, Inv, NEW e \in Exts, Requested(e)
    PROVE  EnabledIsServed'
  <1>1. \A f \in Exts : Served(f)
    BY ServedIs DEF Inv
  <1>2. /\ UNCHANGED <<kind, wanted, install, removal, adding, entry, lost>>
        /\ calls \subseteq calls' /\ jobs \subseteq jobs'
        /\ \A f \in Exts \ {e} : row'[f] = row[f] /\ name'[f] = name[f]
        /\ \A f \in Exts \ {e} : f \in crossed => f \in crossed'
    BY Beginning
  <1>3. \A f \in Exts : Pending(f) => Pending(f)'
    BY <1>2, StillPending
  <1>4. ASSUME NEW f \in Exts \ {e} PROVE Served(f)'
    BY <1>1, <1>2, <1>3, StillServed
  <1>5. CASE ~UpdateServer(e)
    <2>1. UNCHANGED <<row, name, crossed>>
      BY <1>5, Beginning
    <2>2. Served(e)'
      BY <1>1, <1>2, <1>3, <2>1, StillServed
    <2>. QED BY <1>4, <2>2 DEF EnabledIsServed, Served
  <1>6. CASE UpdateServer(e)
    <2>1. PICK enabled \in {"off", "on"}, n \in Names :
              /\ row' = [row EXCEPT ![e] = enabled]
              /\ name' = [name EXCEPT ![e] = n]
              /\ calls' = calls \cup
                     {Call(e, IF enabled = "on" THEN "restart" ELSE "stop", n)}
      BY <1>6 DEF UpdateServer
    <2>2. row'[e] = enabled /\ name'[e] = n
      BY <2>1 DEF TypeOK
    <2>3. ASSUME enabled = "on", n \notin BadNames PROVE Pending(e)'
      <3>1. Call(e, "restart", n) \in calls'
        BY <2>1, <2>3
      <3>2. /\ Call(e, "restart", n).ext = e /\ Call(e, "restart", n).name = n
            /\ Call(e, "restart", n).todo = "restart"
        BY DEF Call
      <3>. QED BY <2>3, <3>1, <3>2 DEF Pending
    <2>4. Served(e)'
      BY <2>2, <2>3 DEF Served
    <2>. QED BY <1>4, <2>4 DEF EnabledIsServed, Served
  <1>. QED BY <1>5, <1>6

LEMMA ServedByRest ==
    ASSUME TypeOK, Inv, NEW c \in calls, Continued(c)
    PROVE  EnabledIsServed'
  <1>1. \A f \in Exts : Served(f)
    BY ServedIs DEF Inv
  <1>2. /\ UNCHANGED <<kind, wanted, name, install, removal, adding, crossed>>
        /\ c.ext \in Exts /\ jobs \subseteq jobs' /\ lost \subseteq lost'
        /\ \A f \in Exts \ {c.ext} : entry'[f] = entry[f] /\ row'[f] = row[f]
        /\ calls \ {c} \subseteq calls'
    BY Continuing DEF Inv
  <1>3. ASSUME NEW f \in Exts \ {c.ext} PROVE Served(f)'
    <2>1. Pending(f) => Pending(f)'
      BY <1>2, StillPending
    <2>. QED BY <1>1, <1>2, <2>1, StillServed
  <1>4. Served(c.ext)'
    <2>1. CASE UpdatePlugin(c) \/ TogglePluginMCP(c)
      <3>1. ~IsServer(c.ext)
        BY <2>1 DEF Inv, PluginCalls, UpdatePlugin, TogglePluginMCP
      <3>. QED BY <1>2, <3>1 DEF Served, IsServer
    <2>2. CASE SyncManager(c)
      <3>1. row' = row
        BY <2>2 DEF SyncManager, database
      <3>2. CASE c.todo = "delete"
        <4>1. [c EXCEPT !.todo = "purge"] \in calls'
          BY <2>2, <3>2 DEF SyncManager, GoOn
        <4>2. /\ [c EXCEPT !.todo = "purge"].ext = c.ext
              /\ [c EXCEPT !.todo = "purge"].todo = "purge"
          <5>1. c \in Calls
            BY ContinuedCalls
          <5>. QED BY <5>1 DEF Calls
        <4>. QED BY <4>1, <4>2 DEF Served, Pending
      <3>3. CASE c.todo = "restart" /\ c.name \notin BadNames
        <4>1. AddJob(c.ext, c.name) \in jobs'
          BY <2>2, <3>3 DEF SyncManager
        <4>. QED BY <3>3, <4>1 DEF Served, Pending, AddJob
      <3>4. CASE Stops(c)
        BY <1>2, <3>1, <3>4 DEF Inv, StoppedIsOff, Served, IsServer
      <3>. QED BY <2>2, <3>2, <3>3, <3>4 DEF SyncManager, Stops
    <2>3. CASE PurgeServer(c)
      <3>1. row'[c.ext] # "on" \/ c.ext \in lost'
        BY <1>2, <2>3 DEF TypeOK, PurgeServer, Ignored
      <3>. QED BY <3>1 DEF Served
    <2>. QED BY <2>1, <2>2, <2>3 DEF Continued
  <1>. QED BY <1>3, <1>4 DEF EnabledIsServed, Served

LEMMA ServedByManager ==
    ASSUME TypeOK, Inv,
           (\E j \in jobs : RefuseAdd(j) \/ BeginAdd(j) \/ LoadPlugin(j)) \/ EndAdd
    PROVE  EnabledIsServed'
  <1>1. \A f \in Exts : Served(f)
    BY ServedIs DEF Inv
  <1>2. UNCHANGED <<database, install, removal, calls, history>>
    BY DEF RefuseAdd, BeginAdd, LoadPlugin, EndAdd
  <1>3. SUFFICES ASSUME NEW f \in Exts
                 PROVE  /\ entry[f] # Absent => entry'[f] # Absent
                        /\ Pending(f) => Pending(f)' \/ entry'[f] # Absent
    <2>1. kind' = kind /\ name' = name /\ row' = row /\ lost' = lost
          /\ crossed' = crossed
      BY <1>2 DEF database, history
    <2>. QED BY <1>1, <1>3, <2>1, StillServed DEF EnabledIsServed, Served
  <1>4. ASSUME NEW j \in jobs, RefuseAdd(j) PROVE Pending(f) => Pending(f)'
    BY <1>2, <1>4 DEF RefuseAdd, Pending, database, manager
  <1>5. ASSUME NEW j \in jobs, BeginAdd(j) PROVE Pending(f) => Pending(f)'
    <2>1. adding = {} /\ adding' = {j} /\ jobs' = jobs \ {j}
      BY <1>5 DEF BeginAdd
    <2>. QED BY <1>2, <2>1 DEF Pending, database
  <1>6. ASSUME NEW j \in jobs, LoadPlugin(j) PROVE Pending(f) => Pending(f)'
    <2>1. jobs \ {j} \subseteq jobs' /\ j.type # "add" /\ adding' = adding
      BY <1>6 DEF LoadPlugin, manager
    <2>. QED BY <1>2, <2>1 DEF Pending, database
  <1>7. CASE EndAdd
    <2>1. PICK j \in adding :
              /\ adding' = {}
              /\ \/ entry' = [entry EXCEPT ![j.ext] =
                                 [state |-> "connected", name |-> j.name]]
                 \/ entry' = [entry EXCEPT ![j.ext] =
                                 [state |-> "failed", name |-> j.name]]
      BY <1>7 DEF EndAdd
    <2>2. j.ext \in Exts
      BY JobTypes DEF TypeOK
    <2>3. /\ entry'[j.ext] # Absent
          /\ \A g \in Exts \ {j.ext} : entry'[g] = entry[g]
      BY <2>1, <2>2 DEF TypeOK, Absent
    <2>4. adding = {j} /\ jobs' = jobs
      BY <1>7 DEF Inv, OneAdd, EndAdd
    <2>. QED BY <1>2, <2>3, <2>4 DEF Pending, database
  <1>8. ASSUME NEW j \in jobs, RefuseAdd(j) \/ BeginAdd(j) \/ LoadPlugin(j)
        PROVE  entry' = entry
    BY <1>8 DEF RefuseAdd, BeginAdd, LoadPlugin, manager
  <1>9. EndAdd => (entry[f] # Absent => entry'[f] # Absent)
    <2>1. ASSUME EndAdd
          PROVE  \E g \in Exts : entry'[g] # Absent
                                 /\ \A h \in Exts \ {g} : entry'[h] = entry[h]
      <3>1. PICK j \in adding :
                \/ entry' = [entry EXCEPT ![j.ext] =
                                 [state |-> "connected", name |-> j.name]]
                \/ entry' = [entry EXCEPT ![j.ext] =
                                 [state |-> "failed", name |-> j.name]]
        BY <2>1 DEF EndAdd
      <3>2. j.ext \in Exts
        BY JobTypes DEF TypeOK
      <3>. QED BY <3>1, <3>2 DEF TypeOK, Absent
    <2>. QED BY <2>1
  <1>. QED BY <1>4, <1>5, <1>6, <1>7, <1>8, <1>9

LEMMA ServedByRestart ==
    ASSUME TypeOK, Inv, SyncMarketplace \/ Restart
    PROVE  EnabledIsServed'
  <1>1. CASE SyncMarketplace
    <2>1. UNCHANGED <<kind, wanted, name, row, install, removal, calls, jobs, adding,
                      entry, lost, crossed>>
      BY <1>1 DEF SyncMarketplace, manager, history
    <2>. QED BY <2>1 DEF Inv, EnabledIsServed, Pending, IsServer
  <1>2. CASE Restart
    <2>1. kind' = kind /\ row' = row /\ name' = name
      BY <1>2 DEF Restart, database
    <2>2. ASSUME NEW e \in Exts, IsServer(e), row[e] = "on", name[e] \notin BadNames
          PROVE  Pending(e)'
      <3>1. AddJob(e, name[e]) \in jobs'
        BY <1>2, <2>2 DEF Restart
      <3>. QED BY <2>2, <3>1 DEF Pending, AddJob
    <2>. QED BY <2>1, <2>2 DEF EnabledIsServed, IsServer
  <1>. QED BY <1>1, <1>2

\* The manager has an entry for every enabled server, or somebody is about to add
\* it or to take its row away: but for names that Add refuses, for a DELETE that
\* failed and for an update that crossed another.
THEOREM EnabledServersAreServed == Spec => []EnabledIsServed
  <1>1. Init => Inv
    BY DEF Init, Inv, Places, PluginCalls, StoppedIsOff, OneAdd, EnabledIsServed
  <1>2. TypeOK /\ Inv /\ [Next]_vars => Inv'
    <2>. SUFFICES ASSUME TypeOK, Inv, [Next]_vars PROVE Inv'
      OBVIOUS
    <2>1. CASE UNCHANGED vars
      BY <2>1 DEF Inv, Places, PluginCalls, StoppedIsOff, Stops, OneAdd, EnabledIsServed,
                  Pending, IsServer, FromCatalog, vars, database, manager, history
    <2>2. CASE Next
      <3>1. Places' /\ PluginCalls' /\ StoppedIsOff' /\ OneAdd'
        BY <2>2, PlacesInductive, PluginCallsInductive, StoppedInductive,
           OneAddInductive DEF Inv
      <3>2. EnabledIsServed'
        BY <2>2, ServedByInstaller, ServedByUninstaller, ServedByRequest, ServedByRest,
           ServedByManager, ServedByRestart DEF Next, Requested, Continued
      <3>. QED BY <3>1, <3>2 DEF Inv
    <2>. QED BY <2>1, <2>2
  <1>3. Inv => EnabledIsServed
    BY DEF Inv
  <1>. QED BY <1>1, <1>2, <1>3, TypeCorrect, PTL DEF Spec
=============================================================================
