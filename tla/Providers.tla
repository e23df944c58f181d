----------------------------- MODULE Providers ------------------------------
(***************************************************************************)
(* Model providers: the rows of providers and provider_models, the HTTP    *)
(* handlers that edit them and load them anew, the registry they are       *)
(* loaded into, and the router and the gateway that call them.             *)
(*                                                                         *)
(* The database has one connection (SetMaxOpenConns(1)); a reload keeps it *)
(* until it has read its last row.  The registry has a sync.RWMutex: a     *)
(* writer that waits holds up the readers that come after it.  An entry    *)
(* of the registry is an object of its own, with a circuit breaker.        *)
(***************************************************************************)
EXTENDS Naturals, FiniteSets

CONSTANTS
    Provs,          \* ids of providers
    Seeds,          \* those that the environment may bring (provider_seed.go)
    Models,         \* ids of rows of provider_models
    TypeOf,         \* providers.type
    PrefixOf,       \* the first eight characters of a model's id
    EnvModel,       \* modelEnvID of every seed: see modelEnvID
    Blind,          \* models without vision
    Handlers,       \* goroutines that handle requests of the settings page
    Main,           \* the process while it starts
    Clients,        \* goroutines that want an answer of a model
    WithImages,     \* those whose request has images
    Direct,         \* those that take a provider out of the registry (gateway)
    ForeignKeys,    \* whether the connection enforces REFERENCES: store.go asks for it in
                    \* the words of another driver than the one it opens
    MaxFailures,    \* circuit_breaker_failure_count
    MaxOps,         \* bound on the requests of the settings page
    MaxCalls,       \* bound on the requests of the clients
    None            \* no row, no entry, nobody

Procs == Handlers \cup {Main}

\* The rows of provider_models, and the names that entries are registered under.
Rows == [provider : Provs, enabled : BOOLEAN, role : {"general", "default"}]
NameOf(p, m) == <<TypeOf[p], PrefixOf[m]>>
Names == {NameOf(p, m) : p \in Provs, m \in Models}

Breakers == [state : {"closed", "open", "cooled", "half"}, failures : Nat]
Entries == [model : Models, role : {"general", "default"}, load : Nat,
            breaker : Breakers]

ASSUME ProvidersAssumption ==
    /\ Seeds \subseteq Provs /\ EnvModel \in Models
    /\ DOMAIN TypeOf = Provs /\ DOMAIN PrefixOf = Models
    /\ Main \notin Handlers
    /\ None \notin Procs \cup Rows \cup Entries
    /\ WithImages \subseteq Clients /\ Direct \subseteq Clients
    /\ ForeignKeys \in BOOLEAN
    /\ MaxFailures \in Nat \ {0} /\ MaxOps \in Nat /\ MaxCalls \in Nat

VARIABLES
    provider,   \* table providers: absent, off or on
    model,      \* table provider_models: None or a row
    conn,       \* who keeps the database connection between two steps
    proc,       \* where each handler is, and what it was asked
    rest,       \* the rows each reload has read and not yet registered
    registry,   \* ProviderRegistry.entries: None or an entry
    writer,     \* who waits for RWMutex.Lock
    readers,    \* who holds RWMutex.RLock between two steps
    call,       \* where each client is, and the entry it uses
    ops,        \* requests of the settings page so far
    calls,      \* requests of the clients so far
    loads,      \* reloads so far: tells the entries of each apart
    failed,     \* history: the last reload got no answer from the database
    skipped     \* history: models the last answer named that were not registered

tables == <<provider, model>>
lock == <<writer, readers>>
counters == <<ops, calls, loads>>
history == <<failed, skipped>>
vars == <<tables, conn, proc, rest, registry, lock, call, counters, history>>

Closed == [state |-> "closed", failures |-> 0]

\* p.enabled=1 AND m.enabled=1 of the JOIN.
Enabled == {m \in Models : model[m] # None /\ model[m].enabled
                           /\ provider[model[m].provider] = "on"}

EnabledRows == {[model |-> m, row |-> model[m]] : m \in Enabled}

Jobs == [at : {"seed"}, keys : SUBSET Seeds]
        \cup [at : {"clear", "write"}, create : BOOLEAN, model : Models, row : Rows]
        \cup [at : {"clear_roles", "set_role"}, model : Models]
        \cup [at : {"idle", "query", "unregister", "register", "over"}]

Steps == {"idle", "choose", "infer", "record", "failover", "pick", "infer2", "record2"}

TypeOK ==
    /\ provider \in [Provs -> {"absent", "off", "on"}]
    /\ model \in [Models -> Rows \cup {None}]
    /\ conn \in Procs \cup {None}
    /\ proc \in [Procs -> Jobs]
    /\ rest \in [Procs -> SUBSET [model : Models, row : Rows]]
    /\ registry \in [Names -> Entries \cup {None}]
    /\ writer \in Procs \cup {None}
    /\ readers \subseteq Clients
    /\ DOMAIN call = Clients
    /\ \A c \in Clients : call[c].at \in Steps
    /\ ops \in 0 .. MaxOps /\ calls \in 0 .. MaxCalls /\ loads \in Nat
    /\ failed \in BOOLEAN /\ skipped \subseteq Models

Init ==
    /\ provider = [p \in Provs |-> "absent"]
    /\ model = [m \in Models |-> None]
    /\ conn = None
    /\ \E keys \in SUBSET Seeds :
          proc = [h \in Procs |-> IF h = Main THEN [at |-> "seed", keys |-> keys]
                                              ELSE [at |-> "idle"]]
    /\ rest = [h \in Procs |-> {}]
    /\ registry = [n \in Names |-> None]
    /\ writer = None /\ readers = {}
    /\ call = [c \in Clients |-> [at |-> "idle"]]
    /\ ops = 0 /\ calls = 0 /\ loads = 0
    /\ failed = FALSE /\ skipped = {}

Goto(h, next) == proc' = [proc EXCEPT ![h] = next]
Reload == [at |-> "query"]

\* The server runs once the process has loaded the providers.
Started == proc[Main].at = "over"

(***************************************************************************)
(* Start: SeedProvidersFromEnv.                                            *)
(***************************************************************************)

\* The first twelve hexadecimal digits of the provider's id are its first six
\* characters, and the ids of all seeds begin with "prov_env_".
modelEnvID(p) == EnvModel

\* INSERT OR IGNORE of the provider and of its model; an existing provider gets the
\* key of the environment.
Seed ==
    /\ proc[Main].at = "seed" /\ proc[Main].keys # {} /\ conn = None
    /\ \E p \in proc[Main].keys :
          /\ provider' = [provider EXCEPT ![p] = IF @ = "absent" THEN "on" ELSE @]
          /\ model' = [model EXCEPT ![modelEnvID(p)] =
                           IF @ = None
                           THEN [provider |-> p, enabled |-> TRUE, role |-> "general"]
                           ELSE @]
          /\ Goto(Main, [at |-> "seed", keys |-> proc[Main].keys \ {p}])
    /\ UNCHANGED <<conn, rest, registry, lock, call, counters, history>>

Seeded ==
    /\ proc[Main].at = "seed" /\ proc[Main].keys = {}
    /\ Goto(Main, Reload)
    /\ UNCHANGED <<tables, conn, rest, registry, lock, call, counters, history>>

(***************************************************************************)
(* The settings page.  Every statement is a transaction of its own.        *)
(***************************************************************************)
Request(h) ==
    /\ Started /\ h \in Handlers /\ proc[h].at = "idle" /\ ops < MaxOps
    /\ ops' = ops + 1
    /\ UNCHANGED <<conn, rest, registry, lock, call, calls, loads, history>>

\* handleCreateProvider and handleUpdateProvider; an unknown or a taken id is an
\* error, and nothing is loaded.
SaveProvider(h) ==
    /\ Request(h) /\ conn = None
    /\ \E p \in Provs, s \in {"off", "on"} :
          provider' = [provider EXCEPT ![p] = s]
    /\ Goto(h, Reload)
    /\ UNCHANGED model

\* handleDeleteProvider: ON DELETE CASCADE, or the models stay behind and are there
\* again when a provider of that id is created.
DeleteProvider(h) ==
    /\ Request(h) /\ conn = None
    /\ \E p \in Provs :
          /\ provider' = [provider EXCEPT ![p] = "absent"]
          /\ model' = [m \in Models |->
                           IF ForeignKeys /\ model[m] # None /\ model[m].provider = p
                           THEN None ELSE model[m]]
    /\ Goto(h, Reload)

\* handleDeleteModel.
DeleteModel(h) ==
    /\ Request(h) /\ conn = None
    /\ \E m \in Models : model' = [model EXCEPT ![m] = None]
    /\ Goto(h, Reload)
    /\ UNCHANGED provider

\* handleCreateModel, handleUpdateModel and handleSetModelRoles begin: the exclusive
\* role (there are two, "reasoning" is treated like "default") is taken away first.
\* The page edits what it has seen, which may be gone when the statement runs.
SaveModel(h) ==
    /\ Request(h)
    /\ \E m \in Models, p \in Provs, enabled \in BOOLEAN, r \in {"general", "default"},
          create \in BOOLEAN :
          /\ provider[p] # "absent"
          /\ IF create THEN model[m] = None
                       ELSE model[m] # None /\ model[m].provider = p
          /\ Goto(h, [at |-> IF r = "default" THEN "clear" ELSE "write",
                      create |-> create, model |-> m,
                      row |-> [provider |-> p, enabled |-> enabled, role |-> r]])
    /\ UNCHANGED tables

SetModelRoles(h) ==
    /\ Request(h)
    /\ \E m \in Models : Goto(h, [at |-> "clear_roles", model |-> m])
    /\ UNCHANGED tables

\* The model that an update is about: id!=?.
Kept(t, m) == t.at = "clear" /\ ~t.create /\ m = t.model

\* UPDATE provider_models SET role='general'.  (It fails with the context of the
\* request only, and then the next statement fails with it.)
ClearRoles(h) ==
    /\ conn = None
    /\ \/ proc[h].at = "clear" /\ Goto(h, [proc[h] EXCEPT !.at = "write"])
       \/ proc[h].at = "clear_roles"
          /\ Goto(h, [at |-> "set_role", model |-> proc[h].model])
    /\ model' = [m \in Models |-> IF model[m] = None \/ Kept(proc[h], m) THEN model[m]
                                  ELSE [model[m] EXCEPT !.role = "general"]]
    /\ UNCHANGED <<provider, conn, rest, registry, lock, call, counters, history>>

\* handleSetModelRoles ignores errors and unknown models.
SetRole(h) ==
    /\ proc[h].at = "set_role" /\ conn = None
    /\ \/ UNCHANGED model
       \/ /\ model[proc[h].model] # None
          /\ model' = [model EXCEPT ![proc[h].model].role = "default"]
    /\ Goto(h, Reload)
    /\ UNCHANGED <<provider, conn, rest, registry, lock, call, counters, history>>

Wanted(t) ==
    IF t.create
    THEN model[t.model] = None /\ (ForeignKeys => provider[t.row.provider] # "absent")
    ELSE model[t.model] # None /\ model[t.model].provider = t.row.provider

\* The INSERT or UPDATE.  If it fails, or has no row to update, there is no reload.
WriteModel(h) ==
    /\ proc[h].at = "write" /\ conn = None
    /\ \/ /\ Wanted(proc[h])
          /\ model' = [model EXCEPT ![proc[h].model] = proc[h].row]
          /\ Goto(h, Reload)
       \/ UNCHANGED model /\ Goto(h, [at |-> "idle"])
    /\ UNCHANGED <<provider, conn, rest, registry, lock, call, counters, history>>

(***************************************************************************)
(* LoadProvidersFromDB.                                                    *)
(***************************************************************************)
Over(h) == [at |-> IF h = Main THEN "over" ELSE "idle"]

\* The answer of the database to one reload.
Answer(h) ==
    /\ rest' = [rest EXCEPT ![h] = EnabledRows]
    /\ failed' = FALSE /\ skipped' = {}
    /\ Goto(h, [at |-> "unregister"])

\* The rows in memory, the connection free: what a tidier version might do.
QueryIntoMemory(h) ==
    /\ proc[h].at = "query" /\ conn = None
    /\ Answer(h)
    /\ UNCHANGED <<tables, conn, registry, lock, call, counters>>

\* The query keeps the connection.
Query(h) ==
    /\ proc[h].at = "query" /\ conn = None
    /\ conn' = h
    /\ Answer(h)
    /\ UNCHANGED <<tables, registry, lock, call, counters>>

\* The query fails: the registry stays as it is.  reloadProviders ignores the error,
\* the start only logs it, and nobody asks again before the next request of the page.
QueryFails(h) ==
    /\ proc[h].at = "query" /\ conn = None
    /\ failed' = TRUE
    /\ Goto(h, Over(h))
    /\ UNCHANGED <<tables, conn, rest, registry, lock, call, counters, skipped>>

\* RWMutex.Lock: announce the writer, wait for the readers.
Announce(h) ==
    /\ \/ proc[h].at = "unregister"
       \/ proc[h].at = "register" /\ rest[h] # {}
    /\ writer = None
    /\ writer' = h
    /\ UNCHANGED <<tables, conn, proc, rest, registry, readers, call, counters, history>>

UnregisterAll(h) ==
    /\ proc[h].at = "unregister" /\ writer = h /\ readers = {}
    /\ registry' = [n \in Names |-> None]
    /\ writer' = None
    /\ loads' = loads + 1
    /\ Goto(h, [at |-> "register"])
    /\ UNCHANGED <<tables, conn, rest, readers, call, ops, calls, history>>

\* RegisterWithRole: a model with the name of another one takes its place.
Register(h) ==
    /\ proc[h].at = "register" /\ writer = h /\ readers = {}
    /\ \E x \in rest[h] :
          /\ registry' = [registry EXCEPT ![NameOf(x.row.provider, x.model)] =
                              [model |-> x.model, role |-> x.row.role, load |-> loads,
                               breaker |-> Closed]]
          /\ rest' = [rest EXCEPT ![h] = @ \ {x}]
    /\ writer' = None
    /\ UNCHANGED <<tables, conn, proc, readers, call, counters, history>>

\* A row that cannot be scanned is passed over.
Skip(h) ==
    /\ proc[h].at = "register" /\ writer # h
    /\ \E x \in rest[h] :
          /\ rest' = [rest EXCEPT ![h] = @ \ {x}]
          /\ skipped' = skipped \cup {x.model}
    /\ UNCHANGED <<tables, conn, proc, registry, lock, call, counters, failed>>

\* After the last row, or before it when the next one cannot be read (rows.Err): the
\* rows that are left are not registered.
Loaded(h) ==
    /\ proc[h].at = "register" /\ writer # h
    /\ conn' = None
    /\ skipped' = skipped \cup {x.model : x \in rest[h]}
    /\ rest' = [rest EXCEPT ![h] = {}]
    /\ Goto(h, Over(h))
    /\ UNCHANGED <<tables, registry, lock, call, counters, failed>>

(***************************************************************************)
(* Calls of a model.                                                       *)
(***************************************************************************)
GotoCall(c, next) == call' = [call EXCEPT ![c] = next]

Registered == {n \in Names : registry[n] # None}

\* circuitBreaker.Allow: after the cooldown the breaker is half open, which lets
\* everybody through; every entry that is looked at is asked.
Allowed(n) == registry[n].breaker.state # "open"

Probed(looked) ==
    [n \in Names |-> IF n \in looked /\ registry[n].breaker.state = "cooled"
                     THEN [registry[n] EXCEPT !.breaker.state = "half"]
                     ELSE registry[n]]

\* best and the loop of failover: the best score of the admissible entries is as good
\* as any of them.
Candidates(c, looked) ==
    {n \in looked : /\ Allowed(n)
                    /\ c \in WithImages \ Direct => registry[n].model \notin Blind}

Ask(c) ==
    /\ Started /\ call[c].at = "idle" /\ calls < MaxCalls
    /\ calls' = calls + 1
    /\ GotoCall(c, [at |-> "choose"])
    /\ UNCHANGED <<tables, conn, proc, rest, registry, lock, ops, loads, history>>

\* BestForRole("default") of the gateway does not look at capabilities; entries of
\* role general stand beside those of the role itself, and best comes after both.
Choose(c) ==
    /\ call[c].at = "choose" /\ writer = None
    /\ registry' = Probed(Registered)
    /\ IF Candidates(c, Registered) = {}
       THEN GotoCall(c, [at |-> "idle"])
       ELSE \E n \in Candidates(c, Registered) :
               GotoCall(c, [at |-> "infer", name |-> n, load |-> registry[n].load])
    /\ UNCHANGED <<tables, conn, proc, rest, lock, counters, history>>

\* The call of the provider.  Nothing limits the time in which its answer is read
\* (NewSafeHTTPClient sets no Timeout), so this step need not come.
Infer(c) ==
    /\ call[c].at = "infer"
    /\ \E ok \in BOOLEAN :
          GotoCall(c, IF c \in Direct THEN [at |-> "idle"]
                      ELSE [at |-> "record", name |-> call[c].name,
                            load |-> call[c].load, ok |-> ok])
    /\ UNCHANGED <<tables, conn, proc, rest, registry, lock, counters, history>>

\* RecordSuccess and RecordFailure.
Outcome(b, ok) ==
    IF ok THEN Closed
    ELSE IF b.failures + 1 >= MaxFailures
         THEN [state |-> "open", failures |-> 0]
         ELSE [b EXCEPT !.failures = @ + 1]

\* recordOutcome; the entry may have left the registry.
Recorded(c) ==
    LET n == call[c].name
    IN  registry' = IF registry[n] # None /\ registry[n].load = call[c].load
                    THEN [registry EXCEPT ![n].breaker = Outcome(@, call[c].ok)]
                    ELSE registry

RecordOutcome(c) ==
    /\ call[c].at = "record"
    /\ Recorded(c)
    /\ GotoCall(c, IF call[c].ok THEN [at |-> "idle"]
                   ELSE [at |-> "failover", skip |-> call[c].name])
    /\ UNCHANGED <<tables, conn, proc, rest, lock, counters, history>>

\* failover and streamFailover keep the read lock until they return.
Failover(c) ==
    /\ call[c].at = "failover" /\ writer = None
    /\ readers' = readers \cup {c}
    /\ GotoCall(c, [at |-> "pick", skip |-> call[c].skip])
    /\ UNCHANGED <<tables, conn, proc, rest, registry, writer, counters, history>>

\* A pick that asks best, which takes the read lock once more.
PickThroughBest(c) ==
    /\ call[c].at = "pick" /\ writer = None
    /\ registry' = Probed(Registered)
    /\ IF Candidates(c, Registered) = {}
       THEN readers' = readers \ {c} /\ GotoCall(c, [at |-> "idle"])
       ELSE \E n \in Candidates(c, Registered) :
               GotoCall(c, [at |-> "infer2", name |-> n, load |-> registry[n].load])
            /\ UNCHANGED readers
    /\ UNCHANGED <<tables, conn, proc, rest, writer, counters, history>>

Pick(c) ==
    /\ call[c].at = "pick"
    /\ LET looked == Registered \ {call[c].skip}
       IN  /\ registry' = Probed(looked)
           /\ IF Candidates(c, looked) = {}
              THEN readers' = readers \ {c} /\ GotoCall(c, [at |-> "idle"])
              ELSE \E n \in Candidates(c, looked) :
                      GotoCall(c, [at |-> "infer2", name |-> n, load |-> registry[n].load])
                   /\ UNCHANGED readers
    /\ UNCHANGED <<tables, conn, proc, rest, writer, counters, history>>

\* Nor need this one, which the read lock waits for.
InferSecond(c) ==
    /\ call[c].at = "infer2"
    /\ \E ok \in BOOLEAN :
          GotoCall(c, [at |-> "record2", name |-> call[c].name, load |-> call[c].load,
                       ok |-> ok])
    /\ UNCHANGED <<tables, conn, proc, rest, registry, lock, counters, history>>

RecordSecond(c) ==
    /\ call[c].at = "record2"
    /\ Recorded(c)
    /\ readers' = readers \ {c}
    /\ GotoCall(c, [at |-> "idle"])
    /\ UNCHANGED <<tables, conn, proc, rest, writer, counters, history>>

\* Ten seconds after it opened.
Cool ==
    /\ \E n \in Registered :
          /\ registry[n].breaker.state = "open"
          /\ registry' = [registry EXCEPT ![n].breaker.state = "cooled"]
    /\ UNCHANGED <<tables, conn, proc, rest, lock, call, counters, history>>

Handle(h) ==
    \/ ClearRoles(h) \/ SetRole(h) \/ WriteModel(h)
    \/ Query(h) \/ QueryFails(h)
    \/ Announce(h) \/ UnregisterAll(h) \/ Register(h) \/ Skip(h) \/ Loaded(h)

Proceed(c) ==
    Choose(c) \/ RecordOutcome(c) \/ Failover(c) \/ Pick(c) \/ RecordSecond(c)

Next ==
    \/ Seed \/ Seeded
    \/ \E h \in Procs : Handle(h)
    \/ \E h \in Handlers :
          \/ SaveProvider(h) \/ DeleteProvider(h) \/ DeleteModel(h)
          \/ SaveModel(h) \/ SetModelRoles(h)
    \/ \E c \in Clients : Ask(c) \/ Infer(c) \/ InferSecond(c) \/ Proceed(c)
    \/ Cool

\* Goroutines run and statements end.  Nobody has to press a button, and no provider
\* has to answer.
Spec ==
    /\ Init /\ [][Next]_vars
    /\ WF_vars(Seed \/ Seeded)
    /\ \A h \in Procs : WF_vars(Handle(h))
    /\ \A c \in Clients : WF_vars(Proceed(c))

(***************************************************************************)
(* Properties.                                                             *)
(***************************************************************************)

AtRest == \A h \in Procs : proc[h].at \in {"idle", "over"}

\* When no request of the settings page is under way, the registry offers the models
\* that are enabled in the tables and no others, however such requests and their
\* reloads overlap: a reload that has read old rows never ends after a newer one.
\* Only errors of the database that LoadProvidersFromDB and reloadProviders let pass
\* are excepted: a last reload whose query failed, and the rows it could not read.
RegistryIsCurrent ==
    AtRest /\ ~failed =>
        LET offered == Enabled \ skipped
        IN  /\ Registered = {NameOf(model[m].provider, m) : m \in offered}
            /\ \A n \in Registered : registry[n].model \in offered

\* provider_loader.go:13: every combination of a provider and a model that are enabled
\* is registered.
EnabledIsRegistered ==
    AtRest => \A m \in Enabled : NameOf(model[m].provider, m) \in Registered

\* A call that its provider never answers holds up nobody else, unless it is the second
\* call of a failover, which keeps the registry locked: every other call of a model and
\* every request of the settings page comes to an end, although a reload waits for that
\* lock with the connection in its hands.  (Both are bounded in number.)
AllReturn ==
    \/ \E c \in Clients : <>[](call[c].at = "infer2")
    \/ <>[](/\ \A c \in Clients : call[c].at \in {"idle", "infer"}
            /\ \A h \in Handlers : proc[h].at = "idle")

\* router.go:139: providers are registered and taken out while the program runs, also
\* while one of them is called.
ReloadsEnd == <>[](\A h \in Handlers : proc[h].at = "idle")

\* One model at most has the exclusive role (providers.go:251).
RoleIsExclusive ==
    \A m, k \in Models : model[m] # None /\ model[k] # None
                         /\ model[m].role = "default" /\ model[k].role = "default" => m = k
=============================================================================
