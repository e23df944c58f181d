----------------------------- MODULE Extensions -----------------------------
(***************************************************************************)
(* Installing, managing and removing extensions while the program runs:    *)
(* the HTTP handlers of the gateway (one transaction per SQL statement),   *)
(* the downloader, the marketplace manager that uninstalls, the MCPManager *)
(* with the goroutines that connect servers, and the sandbox registry in   *)
(* which the tools of connected servers stand.                             *)
(*                                                                         *)
(* One catalog entry is installed, removed and installed again; every      *)
(* attempt has an identity of its own (newHex), an element of Exts.  Users *)
(* also create servers of their own.  A server offers one tool, whose name *)
(* in the sandbox is made from the server's name.                          *)
(*                                                                         *)
(* The handlers hold no lock over their statements: requests for the same  *)
(* server overlap each other, installation, removal and the goroutines     *)
(* that earlier requests left behind.  Several handlers ignore the error   *)
(* of an UPDATE or a DELETE; lost and crossed record what only these cases *)
(* explain.                                                                *)
(***************************************************************************)
EXTENDS Naturals, FiniteSets

CONSTANTS
    Exts,         \* installation attempts
    Names,        \* names of servers and plugins
    BadNames,     \* those that validateLLMNamePart refuses
    Kinds,        \* the possible kinds of the attempts: functions on Exts
    Builtin,      \* plugin_marketplaces.is_builtin of the entry's marketplace
    NoExt,        \* no extension
    MaxRequests,  \* bound on the management requests
    MaxFaults,    \* bound on the extensions with a lost statement, per process
    MaxRestarts   \* bound on the restarts of the process

ASSUME ExtensionsAssumption ==
    /\ NoExt \notin Exts
    /\ Kinds \subseteq [Exts -> {"mcp", "plugin", "skill", "custom", "direct"}]
    /\ Builtin \in BOOLEAN
    /\ MaxFaults \in Nat
    /\ MaxRequests \in Nat /\ MaxRestarts \in Nat

VARIABLES
    kind,      \* what each attempt installs
    catalog,   \* whether extension_catalog has the entry
    inst,      \* extension_instances: the status, "none" without a row
    row,       \* the row in mcp_servers, plugins or skills: absent, off or on
    wanted,    \* the name in the catalog and in the requests to install
    name,      \* the name in that row
    policy,    \* plugins.mcp_policy: whether the inner server is enabled
    files,     \* whether the installation directory exists
    install,   \* where the install handler and the downloader are
    removal,   \* where UninstallExtension is
    calls,     \* the management requests under way and what each does next
    jobs,      \* goroutines that will load a plugin or add a server
    adding,    \* the Add that holds MCPManager.mu, or {}
    entry,     \* MCPManager.entries
    sandbox,   \* InProcessSandbox.richRegistry: whose client a tool calls
    requests,  \* management requests so far
    restarts,  \* restarts so far
    lost,      \* history: extensions with a failed statement nobody repeats
    crossed    \* history: servers enabled while an update was stopping them

database == <<kind, catalog, inst, row, wanted, name, policy, files>>
manager == <<adding, entry, sandbox>>
counters == <<requests, restarts>>
history == <<lost, crossed>>
vars == <<database, install, removal, calls, jobs, manager, counters, history>>

FromCatalog(e) == kind[e] \in {"mcp", "plugin", "skill"}

\* The runtime row of e is in mcp_servers.
IsServer(e) == kind[e] \in {"mcp", "custom", "direct"}

LoadJobs == [type : {"load"}, ext : Exts, name : Names, enabled : BOOLEAN]
AddJobs == [type : {"add"}, ext : Exts, name : Names]

LoadJob(e, n, enabled) ==
    [type |-> "load", ext |-> e, name |-> n, enabled |-> enabled]
AddJob(e, n) == [type |-> "add", ext |-> e, name |-> n]

\* What a request does next: a plugin's row was on or off when it was read.
Todos == {"stop", "restart", "delete", "purge", "update on", "update off", "toggle"}

Calls == [id : 1 .. MaxRequests, ext : Exts, todo : Todos, name : Names]

Absent == [state |-> "absent"]
Entries == {Absent} \cup [state : {"failed", "connected"}, name : Names]

TypeOK ==
    /\ kind \in Kinds
    /\ catalog \in BOOLEAN
    /\ inst \in [Exts -> {"none", "downloading", "installed", "error"}]
    /\ row \in [Exts -> {"absent", "off", "on"}]
    /\ wanted \in Names /\ name \in [Exts -> Names]
    /\ policy \in [Exts -> BOOLEAN]
    /\ files \in [Exts -> BOOLEAN]
    /\ install \in [Exts -> {"fresh", "checked", "server", "instance", "copy",
                             "insert", "finish", "over"}]
    /\ removal \in [Exts -> {"idle", "blind", "sighted", "stopped", "cleaned",
                             "over"}]
    /\ calls \subseteq Calls
    /\ jobs \subseteq LoadJobs \cup AddJobs
    /\ adding \subseteq AddJobs
    /\ entry \in [Exts -> Entries]
    /\ sandbox \in [Names -> Exts \cup {NoExt}]
    /\ requests \in 0 .. MaxRequests
    /\ restarts \in 0 .. MaxRestarts
    /\ lost \subseteq Exts /\ crossed \subseteq Exts

Init ==
    /\ kind \in Kinds
    /\ catalog = TRUE
    /\ inst = [e \in Exts |-> "none"]
    /\ row = [e \in Exts |-> "absent"]
    /\ wanted \in Names /\ name = [e \in Exts |-> wanted]
    /\ policy = [e \in Exts |-> TRUE]
    /\ files = [e \in Exts |-> FALSE]
    /\ install = [e \in Exts |-> "fresh"]
    /\ removal = [e \in Exts |-> "idle"]
    /\ calls = {} /\ jobs = {} /\ adding = {}
    /\ entry = [e \in Exts |-> Absent]
    /\ sandbox = [n \in Names |-> NoExt]
    /\ requests = 0 /\ restarts = 0
    /\ lost = {} /\ crossed = {}

(***************************************************************************)
(* Installation.                                                           *)
(***************************************************************************)
Goto(e, s) == install' = [install EXCEPT ![e] = s]

\* A statement about e fails and the code goes on as if it had not.
Ignored(e) == Cardinality(lost) < MaxFaults /\ lost' = lost \cup {e}

Installed == {e \in Exts : FromCatalog(e) /\ inst[e] # "none"}

\* handleInstallPlugin: the entry must be in the catalog and have no instance;
\* the policy gate lets it pass.  A refusal, or an approval that is pending,
\* changes nothing.
StartInstall(e) ==
    /\ install[e] = "fresh"
    /\ FromCatalog(e) => catalog /\ Installed = {}
    /\ Goto(e, CASE kind[e] = "custom" -> "server"
                 [] kind[e] = "direct" -> "server"
                 [] OTHER -> "checked")
    /\ UNCHANGED <<database, removal, calls, jobs, manager, counters, history>>

\* INSERT INTO extension_instances: the unique index on catalog_id stops the
\* second of two attempts that have both passed the check.
InsertInstance(e) ==
    /\ install[e] = "checked"
    /\ IF Installed # {}
       THEN Goto(e, "over") /\ UNCHANGED inst
       ELSE /\ Goto(e, IF kind[e] = "mcp" THEN "server" ELSE "copy")
            /\ inst' = [inst EXCEPT ![e] = IF kind[e] = "mcp" THEN "installed"
                                                              ELSE "downloading"]
    /\ UNCHANGED <<kind, wanted, catalog, row, name, policy, files, removal, calls, jobs,
                   manager, counters, history>>

\* INSERT INTO mcp_servers, then the goroutine startMCPServer.  If it fails, the
\* instance is deleted again.  A custom server gets its instance afterwards; a
\* server of handleCreateMCPServer may be created disabled and has none.
InsertServer(e) ==
    /\ install[e] = "server"
    /\ \/ /\ row' = [row EXCEPT ![e] = "on"]
          /\ Goto(e, IF kind[e] = "custom" THEN "instance" ELSE "over")
          /\ jobs' = IF kind[e] = "custom" THEN jobs
                     ELSE jobs \cup {AddJob(e, name[e])}
          /\ UNCHANGED <<inst, lost>>
       \/ /\ kind[e] = "direct"
          /\ row' = [row EXCEPT ![e] = "off"]
          /\ Goto(e, "over")
          /\ UNCHANGED <<inst, jobs, lost>>
       \/ /\ \/ inst' = [inst EXCEPT ![e] = "none"] /\ UNCHANGED lost
             \/ FromCatalog(e) /\ Ignored(e) /\ UNCHANGED inst
          /\ Goto(e, "over")
          /\ UNCHANGED <<row, jobs>>
    /\ UNCHANGED <<kind, wanted, catalog, name, policy, files, removal, calls, manager,
                   counters, crossed>>

\* handleCreateMCP: the instance of a custom server; if that fails, its row is
\* deleted again and nothing is started.
InsertCustomInstance(e) ==
    /\ install[e] = "instance"
    /\ Goto(e, "over")
    /\ \/ /\ inst' = [inst EXCEPT ![e] = "installed"]
          /\ jobs' = jobs \cup {AddJob(e, wanted)}
          /\ UNCHANGED <<row, lost>>
       \/ /\ \/ row' = [row EXCEPT ![e] = "absent"] /\ UNCHANGED lost
             \/ Ignored(e) /\ UNCHANGED row
          /\ UNCHANGED <<inst, jobs>>
    /\ UNCHANGED <<kind, wanted, catalog, name, policy, files, removal, calls, manager,
                   counters, crossed>>

\* An error path that forgets to mark the instance.
Unmarked(e) == UNCHANGED <<inst, lost>>

\* An UPDATE of the instance, without effect when its row is gone; the error of
\* the statement is ignored.
SetStatus(e, status) ==
    \/ inst' = [inst EXCEPT ![e] = IF @ = "none" THEN @ ELSE status] /\ UNCHANGED lost
    \/ Ignored(e) /\ UNCHANGED inst

\* updateExtensionInstanceError
MarkedError(e) == SetStatus(e, "error")

\* downloadAndInstallExtension reads the catalog and copies the directory; a
\* copy that fails may leave a part of it behind.
Copy(e) ==
    /\ install[e] = "copy"
    /\ \/ /\ catalog
          /\ files' = [files EXCEPT ![e] = TRUE]
          /\ Goto(e, "insert")
          /\ UNCHANGED <<inst, lost>>
       \/ /\ \/ UNCHANGED files
             \/ catalog /\ files' = [files EXCEPT ![e] = TRUE]
          /\ Goto(e, "over")
          /\ MarkedError(e)
    /\ UNCHANGED <<kind, wanted, catalog, row, name, policy, removal, calls, jobs, manager,
                   counters, crossed>>

\* plugins.name is UNIQUE.
NameTaken(e) ==
    /\ kind[e] = "plugin"
    /\ \E f \in Exts : kind[f] = "plugin" /\ row[f] # "absent" /\ name[f] = name[e]

\* The runtime row of a skill or a plugin; LoadOnePlugin is started for a plugin
\* with the policy of the manifest, in which all servers are enabled.
InsertRuntime(e) ==
    /\ install[e] = "insert"
    /\ \/ /\ ~NameTaken(e)
          /\ row' = [row EXCEPT ![e] = "on"]
          /\ policy' = [policy EXCEPT ![e] = TRUE]
          /\ jobs' = IF kind[e] = "skill" THEN jobs
                     ELSE jobs \cup {LoadJob(e, name[e], TRUE)}
          /\ Goto(e, "finish")
          /\ UNCHANGED <<inst, lost>>
       \/ /\ Goto(e, "over")
          /\ MarkedError(e)
          /\ UNCHANGED <<row, policy, jobs>>
    /\ UNCHANGED <<kind, wanted, catalog, name, files, removal, calls, manager, counters,
                   crossed>>

\* UPDATE extension_instances SET status='installed', runtime_id, install_path.
Finish(e) ==
    /\ install[e] = "finish"
    /\ Goto(e, "over")
    /\ SetStatus(e, "installed")
    /\ UNCHANGED <<kind, wanted, catalog, row, name, policy, files, removal, calls, jobs,
                   manager, counters, crossed>>

Installer(e) ==
    \/ InsertInstance(e) \/ InsertServer(e) \/ InsertCustomInstance(e)
    \/ Copy(e) \/ InsertRuntime(e) \/ Finish(e)

(***************************************************************************)
(* MCPManager.  Add keeps the mutex while it connects.                     *)
(***************************************************************************)
Tools(e) == {n \in Names : entry[e].state = "connected" /\ entry[e].name = n}

Unregistered(e) == [n \in Names |-> IF n \in Tools(e) THEN NoExt ELSE sandbox[n]]

\* A Remove that unregisters the tools of the name the row has now.
RemovedByRow(e) ==
    /\ adding = {}
    /\ sandbox' = [sandbox EXCEPT ![name[e]] = NoExt]
    /\ entry' = [entry EXCEPT ![e] = Absent]
    /\ UNCHANGED adding

\* Remove: close the client, unregister its tools, delete the entry.
Removed(e) ==
    /\ adding = {}
    /\ sandbox' = Unregistered(e)
    /\ entry' = [entry EXCEPT ![e] = Absent]
    /\ UNCHANGED adding

\* Add returns before it has touched anything when the name is not valid.
RefuseAdd(j) ==
    /\ j.type = "add" /\ j.name \in BadNames
    /\ jobs' = jobs \ {j}
    /\ UNCHANGED <<database, install, removal, calls, manager, counters, history>>

\* Add takes the mutex, closes the old client and unregisters its tools.
BeginAdd(j) ==
    /\ j.type = "add" /\ j.name \notin BadNames /\ adding = {}
    /\ adding' = {j}
    /\ jobs' = jobs \ {j}
    /\ sandbox' = Unregistered(j.ext)
    /\ UNCHANGED <<database, install, removal, calls, entry, counters, history>>

\* Connected, initialised and listed; or a tombstone with the error.
EndAdd ==
    \E j \in adding :
        /\ adding' = {}
        /\ \/ /\ sandbox' = [sandbox EXCEPT ![j.name] = j.ext]
              /\ entry' = [entry EXCEPT ![j.ext] =
                               [state |-> "connected", name |-> j.name]]
           \/ /\ entry' = [entry EXCEPT ![j.ext] =
                               [state |-> "failed", name |-> j.name]]
              /\ UNCHANGED sandbox
        /\ UNCHANGED <<database, install, removal, calls, jobs, counters, history>>

\* LoadOnePlugin: without the file, or disabled by the policy it was given,
\* nothing is added.
LoadPlugin(j) ==
    /\ j.type = "load"
    /\ jobs' = (jobs \ {j}) \cup IF files[j.ext] /\ j.enabled
                                 THEN {AddJob(j.ext, j.name)} ELSE {}
    /\ UNCHANGED <<database, install, removal, calls, manager, counters, history>>

(***************************************************************************)
(* Removal: UninstallExtension reads the instance first.                   *)
(***************************************************************************)
GotoRemoval(e, s) == removal' = [removal EXCEPT ![e] = s]

\* runtime_id and install_path are empty unless the instance is installed.
StartUninstall(e) ==
    /\ FromCatalog(e) /\ inst[e] # "none" /\ removal[e] = "idle"
    /\ GotoRemoval(e, IF inst[e] = "installed" THEN "sighted" ELSE "blind")
    /\ UNCHANGED <<database, install, calls, jobs, manager, counters, history>>

\* removeRuntime stops the server; the servers of a plugin are found in its row.
StopRuntime(e) ==
    /\ removal[e] = "sighted"
    /\ GotoRemoval(e, "stopped")
    /\ IF kind[e] = "mcp" \/ (kind[e] = "plugin" /\ row[e] # "absent")
       THEN Removed(e)
       ELSE UNCHANGED manager
    /\ UNCHANGED <<database, install, calls, jobs, counters, history>>

\* ... deletes the row (a skill is only deprecated), whose error it ignores, and
\* the directory.
DeleteRuntime(e) ==
    /\ removal[e] = "stopped"
    /\ GotoRemoval(e, "cleaned")
    /\ \/ /\ row' = [row EXCEPT ![e] = IF kind[e] = "skill" THEN "off" ELSE "absent"]
          /\ UNCHANGED lost
       \/ Ignored(e) /\ UNCHANGED row
    /\ files' = [files EXCEPT ![e] = FALSE]
    /\ UNCHANGED <<kind, wanted, catalog, inst, name, policy, install, calls, jobs, manager,
                   counters, crossed>>

\* DELETE FROM extension_instances, whose error is ignored as well, then
\* cleanCatalog.  An instance that stays may be uninstalled again.
DeleteInstance(e) ==
    /\ removal[e] \in {"blind", "cleaned"}
    /\ \/ GotoRemoval(e, "over") /\ inst' = [inst EXCEPT ![e] = "none"] /\ UNCHANGED lost
       \/ GotoRemoval(e, "idle") /\ Ignored(e) /\ UNCHANGED inst
    /\ catalog' = (catalog /\ Builtin)
    /\ UNCHANGED <<kind, wanted, row, name, policy, files, install, calls, jobs, manager,
                   counters, crossed>>

\* SyncAllMarketplaces writes the entries of the marketplace again.
SyncMarketplace ==
    /\ ~catalog
    /\ catalog' = TRUE
    /\ UNCHANGED <<kind, wanted, inst, row, name, policy, files, install, removal, calls, jobs,
                   manager, counters, history>>

(***************************************************************************)
(* Management of what is installed.                                        *)
(***************************************************************************)
Request(e) ==
    /\ requests < MaxRequests /\ row[e] # "absent"
    /\ requests' = requests + 1
    /\ UNCHANGED <<kind, wanted, catalog, inst, policy, files, install, removal, manager,
                   restarts, lost>>

Call(e, todo, n) == [id |-> requests + 1, ext |-> e, todo |-> todo, name |-> n]

\* A request that will remove a server and not add it again.
Stops(c) == c.todo = "stop" \/ (c.todo = "restart" /\ c.name \in BadNames)

\* An enabling UPDATE that comes between the UPDATE and the Remove of such a request.
Crossing(e, enabled) ==
    crossed' = IF enabled = "on" /\ \E c \in calls : c.ext = e /\ Stops(c)
               THEN crossed \cup {e} ELSE crossed \ {e}

\* An update that starts the new server before the old one is removed.
UpdateServerStartingFirst(e) ==
    /\ Request(e) /\ IsServer(e)
    /\ \E enabled \in {"off", "on"}, n \in Names :
          /\ row' = [row EXCEPT ![e] = enabled]
          /\ name' = [name EXCEPT ![e] = n]
          /\ jobs' = IF enabled = "on" THEN jobs \cup {AddJob(e, n)} ELSE jobs
          /\ calls' = calls \cup {Call(e, "stop", n)}
          /\ Crossing(e, enabled)

\* handleUpdateMCPServer: the row first, then Remove, then startMCPServer.
UpdateServer(e) ==
    /\ Request(e) /\ IsServer(e)
    /\ \E enabled \in {"off", "on"}, n \in Names :
          /\ row' = [row EXCEPT ![e] = enabled]
          /\ name' = [name EXCEPT ![e] = n]
          /\ calls' = calls \cup
                          {Call(e, IF enabled = "on" THEN "restart" ELSE "stop", n)}
          /\ Crossing(e, enabled)
    /\ UNCHANGED jobs

\* handleDeleteMCPServer: Remove, then DELETE.
DeleteServer(e) ==
    /\ Request(e) /\ IsServer(e)
    /\ calls' = calls \cup {Call(e, "delete", name[e])}
    /\ UNCHANGED <<row, name, jobs, crossed>>

\* handleTestMCPServer adds the server, whether it is enabled or not.
TestServer(e) ==
    /\ Request(e) /\ IsServer(e)
    /\ jobs' = jobs \cup {AddJob(e, name[e])}
    /\ UNCHANGED <<row, name, calls, crossed>>

\* handleUpdatePlugin and handleTogglePluginMCP read the row first; the latter
\* finds enabled plugins only.
ReadPlugin(e) ==
    /\ Request(e) /\ kind[e] = "plugin"
    /\ \E todo \in {"update on", "update off", "toggle"} :
          /\ row[e] = IF todo = "update off" THEN "off" ELSE "on"
          /\ calls' = calls \cup {Call(e, todo, name[e])}
    /\ UNCHANGED <<row, name, jobs, crossed>>

\* What a request does next: it is over, or goes on with c's next statement.
Done(c) == calls' = calls \ {c}
GoOn(c, todo) == calls' = (calls \ {c}) \cup {[c EXCEPT !.todo = todo]}

\* The UPDATE of handleUpdatePlugin.  The manager is told only when enabled is not
\* what the handler has read.
UpdatePlugin(c) ==
    /\ c.todo \in {"update on", "update off"}
    /\ \E enabled \in {"off", "on"}, allowed \in BOOLEAN :
          LET e == c.ext IN
          /\ row' = [row EXCEPT ![e] = IF @ = "absent" THEN @ ELSE enabled]
          /\ policy' = [policy EXCEPT ![e] = IF row[e] = "absent" THEN @ ELSE allowed]
          /\ IF enabled = "off" /\ c.todo = "update on" THEN GoOn(c, "stop") ELSE Done(c)
          /\ jobs' = IF enabled = "on" /\ c.todo = "update off"
                     THEN jobs \cup {LoadJob(e, c.name, allowed)} ELSE jobs
    /\ UNCHANGED <<kind, wanted, catalog, inst, name, files, install, removal, manager,
                   counters, history>>

\* The UPDATE of handleTogglePluginMCP.
TogglePluginMCP(c) ==
    /\ c.todo = "toggle"
    /\ \E allowed \in BOOLEAN :
          LET e == c.ext IN
          /\ policy' = [policy EXCEPT ![e] = IF row[e] = "absent" THEN @ ELSE allowed]
          /\ IF allowed THEN Done(c) ELSE GoOn(c, "stop")
          /\ jobs' = IF allowed THEN jobs \cup {LoadJob(e, c.name, TRUE)} ELSE jobs
    /\ UNCHANGED <<kind, wanted, catalog, inst, row, name, files, install, removal, manager,
                   counters, history>>

\* Remove, and startMCPServer with the name that the request carries.
SyncManager(c) ==
    /\ c.todo \in {"stop", "restart", "delete"}
    /\ Removed(c.ext)
    /\ IF c.todo = "delete" THEN GoOn(c, "purge") ELSE Done(c)
    /\ jobs' = IF c.todo = "restart" THEN jobs \cup {AddJob(c.ext, c.name)} ELSE jobs
    /\ UNCHANGED <<database, install, removal, counters, history>>

\* The DELETE of handleDeleteMCPServer; when it fails the handler returns an error
\* and leaves the row of a server that is removed already.
PurgeServer(c) ==
    /\ c.todo = "purge"
    /\ Done(c)
    /\ \/ row' = [row EXCEPT ![c.ext] = "absent"] /\ UNCHANGED lost
       \/ Ignored(c.ext) /\ UNCHANGED row
    /\ UNCHANGED <<kind, wanted, catalog, inst, name, policy, files, install, removal, jobs,
                   manager, counters, crossed>>

\* The process ends at any moment; the new one starts what is enabled.
Restart ==
    /\ restarts < MaxRestarts
    /\ restarts' = restarts + 1
    /\ install' = [e \in Exts |-> IF install[e] = "fresh" THEN "fresh" ELSE "over"]
    /\ removal' = [e \in Exts |-> IF inst[e] = "none" THEN removal[e] ELSE "idle"]
    /\ jobs' = {AddJob(e, name[e]) : e \in {f \in Exts : IsServer(f) /\ row[f] = "on"}}
               \cup {LoadJob(e, name[e], policy[e]) :
                       e \in {f \in Exts : kind[f] = "plugin" /\ row[f] = "on"}}
    /\ calls' = {} /\ adding' = {}
    /\ entry' = [e \in Exts |-> Absent]
    /\ sandbox' = [n \in Names |-> NoExt]
    /\ lost' = {} /\ crossed' = {}
    /\ UNCHANGED <<database, requests>>

Uninstaller(e) == StopRuntime(e) \/ DeleteRuntime(e) \/ DeleteInstance(e)

Next ==
    \/ \E e \in Exts :
          \/ StartInstall(e) \/ Installer(e)
          \/ StartUninstall(e) \/ Uninstaller(e)
          \/ UpdateServer(e) \/ DeleteServer(e) \/ TestServer(e) \/ ReadPlugin(e)
    \/ \E c \in calls :
          \/ UpdatePlugin(c) \/ TogglePluginMCP(c)
          \/ SyncManager(c) \/ PurgeServer(c)
    \/ \E j \in jobs : RefuseAdd(j) \/ BeginAdd(j) \/ LoadPlugin(j)
    \/ EndAdd
    \/ SyncMarketplace
    \/ Restart

Spec == Init /\ [][Next]_vars

(***************************************************************************)
(* Properties.                                                             *)
(***************************************************************************)

\* A tool stands in the sandbox only for a server that is connected under the name
\* the tool was registered with and is not being added anew: servers that share a
\* name, are renamed, added again or fail leave no tool that calls a closed client.
NoDanglingTool ==
    \A n \in Names, e \in Exts : sandbox[n] = e =>
        /\ entry[e] = [state |-> "connected", name |-> n]
        /\ \A j \in adding : j.ext # e

\* An instance that is still downloading has its downloader at work, however often
\* it is installed, fails and is removed; only a restart, or a last UPDATE that
\* failed unnoticed, leaves it so for ever.
DownloaderAtWork ==
    \A e \in Exts : inst[e] = "downloading" =>
        install[e] \in {"copy", "insert", "finish"} \/ e \in lost \/ restarts > 0

\* Somebody will still add e under a name Add accepts, or take its row away.
Pending(e) ==
    \/ \E j \in jobs \cup adding : j.type = "add" /\ j.ext = e /\ j.name \notin BadNames
    \/ \E c \in calls : /\ c.ext = e
                        /\ \/ c.todo = "restart" /\ c.name \notin BadNames
                           \/ c.todo \in {"delete", "purge"}
    \/ removal[e] = "stopped"
    \/ install[e] = "instance" /\ wanted \notin BadNames

\* No enabled server is forgotten: the manager has an entry for it, connected or
\* with the reason of its failure, or somebody is about to see to it, however
\* updates, tests, deletions, the uninstaller, waiting goroutines and restarts
\* overlap.  The exceptions are those the code makes: a name Add refuses, a DELETE
\* that failed after the Remove, and an update that removes the server for good
\* after a second update has enabled it.
EnabledIsServed ==
    \A e \in Exts : IsServer(e) /\ row[e] = "on" /\ name[e] \notin BadNames =>
        entry[e] # Absent \/ Pending(e) \/ e \in lost \cup crossed

\* Nothing is under way.
Quiet ==
    /\ jobs = {} /\ adding = {} /\ calls = {}
    /\ \A e \in Exts : install[e] \in {"fresh", "over"} /\ removal[e] \in {"idle", "over"}

\* What has been uninstalled is gone: no plugin or server row, no connection.
UninstallIsComplete ==
    Quiet => \A e \in Exts : kind[e] \in {"mcp", "plugin"} /\ removal[e] = "over" =>
                 row[e] = "absent" /\ entry[e] = Absent

(***************************************************************************)
(* What a comment says and the code does not do.                           *)
(***************************************************************************)

\* mcp_manager.go:68: the installation of a server whose name is not valid is
\* refused.
RefusedIsNotInstalled ==
    Quiet => \A e \in Exts : IsServer(e) /\ row[e] = "on" => name[e] \notin BadNames
=============================================================================
