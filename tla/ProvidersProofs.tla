-------------------------- MODULE ProvidersProofs ---------------------------
(***************************************************************************)
(* Proofs about Providers: for any tables, any number of handlers and      *)
(* clients, the registry agrees with the tables when no request is under   *)
(* way.  The argument: a reload keeps the only connection from the query   *)
(* on, so the rows it has read stay true until it has registered the last. *)
(***************************************************************************)
EXTENDS Providers, TLAPS

Loading(h) == proc[h].at \in {"unregister", "register"}

\* Only a reload keeps the connection between two steps.
OneReload == \A h \in Procs : Loading(h) <=> conn = h

\* What the last answer of the database enabled, less what could not be read.
Offered == Enabled \ skipped

RestModels(h) == {x.model : x \in rest[h]}

\* What a reload has still to register is what the tables say now.
RestIsTrue(h) == \A x \in rest[h] : x.model \in Offered /\ x.row = model[x.model]

\* The entries of the registry are models on offer, under their own names.
EntriesTrue ==
    \A n \in Registered :
        /\ registry[n].model \in Offered
        /\ n = NameOf(model[registry[n].model].provider, registry[n].model)

\* All others but those of a set have their names registered.
Complete(others) ==
    \A m \in Offered \ others : NameOf(model[m].provider, m) \in Registered

Reading ==
    \A h \in Procs :
        /\ Loading(h) => RestIsTrue(h)
        /\ proc[h].at = "unregister" => Offered \subseteq RestModels(h)
        /\ proc[h].at = "register" =>
               /\ EntriesTrue /\ Complete(RestModels(h))
               /\ \A n \in Registered : registry[n].model \notin RestModels(h)

\* Somebody has still to load what the tables say.
LoadDue == \E h \in Procs : proc[h].at \in {"seed", "query", "unregister", "register"}

Current == ~LoadDue /\ ~failed => EntriesTrue /\ Complete({})

Inv == OneReload /\ Reading /\ Current

LEMMA Constants ==
    /\ Seeds \subseteq Provs
    /\ EnvModel \in Models
    /\ None \notin Procs
    /\ None \notin Rows
    /\ None \notin Entries
    /\ Main \in Procs
    /\ MaxFailures \in Nat \ {0}
    /\ MaxOps \in Nat
    /\ MaxCalls \in Nat
  BY ProvidersAssumption DEF Procs

LEMMA NameType == \A p \in Provs, m \in Models : NameOf(p, m) \in Names
  BY DEF Names

(***************************************************************************)
(* Types.                                                                  *)
(***************************************************************************)
LEMMA JobTypes ==
    /\ Reload \in Jobs
    /\ \A a \in {"idle", "query", "unregister", "register", "over"} : [at |-> a] \in Jobs
    /\ \A j \in Jobs : j.at = "seed" => j \in [at : {"seed"}, keys : SUBSET Seeds]
    /\ \A j \in Jobs : j.at \in {"clear", "write"} =>
           j \in [at : {"clear", "write"}, create : BOOLEAN, model : Models, row : Rows]
    /\ \A j \in Jobs : j.at \in {"clear_roles", "set_role"} =>
           j \in [at : {"clear_roles", "set_role"}, model : Models]
  BY DEF Jobs, Reload

LEMMA OverTypes == \A h \in Procs : Over(h) \in Jobs /\ Over(h).at \in {"idle", "over"}
  BY DEF Over, Jobs

LEMMA JobFields ==
    ASSUME NEW j \in Jobs
    PROVE  /\ j.at \in {"clear", "write"} => j.model \in Models /\ j.row \in Rows
           /\ j.at \in {"clear_roles", "set_role"} => j.model \in Models
  BY JobTypes

LEMMA StartTypes ==
    ASSUME TypeOK, Seed \/ Seeded
    PROVE  TypeOK'
  <1>1. CASE Seed
    <2>1. PICK p \in proc[Main].keys :
              /\ provider' = [provider EXCEPT ![p] = IF @ = "absent" THEN "on" ELSE @]
              /\ model' = [model EXCEPT ![modelEnvID(p)] =
                           IF @ = None
                           THEN [provider |-> p, enabled |-> TRUE, role |-> "general"]
                           ELSE @]
              /\ Goto(Main, [at |-> "seed", keys |-> proc[Main].keys \ {p}])
      BY <1>1 DEF Seed
    <2>2. proc[Main] \in [at : {"seed"}, keys : SUBSET Seeds]
      BY <1>1, JobTypes, Constants DEF Seed, TypeOK
    <2>3. p \in Provs /\ [at |-> "seed", keys |-> proc[Main].keys \ {p}] \in Jobs
      BY <2>2, Constants DEF Jobs
    <2>4. provider' \in [Provs -> {"absent", "off", "on"}]
      BY <2>1, <2>3 DEF TypeOK
    <2>5. model' \in [Models -> Rows \cup {None}]
      BY <2>1, <2>3 DEF TypeOK, Rows
    <2>6. proc' \in [Procs -> Jobs]
      BY <2>1, <2>3 DEF TypeOK, Goto
    <2>. QED BY <1>1, <2>4, <2>5, <2>6 DEF Seed, TypeOK, lock, counters, history
  <1>2. CASE Seeded
    BY <1>2, JobTypes DEF Seeded, Goto, TypeOK, tables, lock, counters, history
  <1>. QED BY <1>1, <1>2

LEMMA RequestTypes ==
    ASSUME TypeOK, NEW h \in Handlers,
           \/ SaveProvider(h) \/ DeleteProvider(h) \/ DeleteModel(h)
           \/ SaveModel(h) \/ SetModelRoles(h)
    PROVE  TypeOK'
  <1>1. Request(h)
    BY DEF SaveProvider, DeleteProvider, DeleteModel, SaveModel, SetModelRoles
  <1>2. /\ UNCHANGED <<conn, rest, registry, writer, readers, call, calls, loads>>
        /\ UNCHANGED <<failed, skipped>>
        /\ ops' \in 0 .. MaxOps
    BY <1>1, Constants DEF Request, TypeOK, lock, history
  <1>3. provider' \in [Provs -> {"absent", "off", "on"}]
    BY DEF SaveProvider, DeleteProvider, DeleteModel, SaveModel, SetModelRoles, TypeOK,
           tables
  <1>4. model' \in [Models -> Rows \cup {None}]
    <2>1. CASE DeleteProvider(h)
      BY <2>1 DEF DeleteProvider, TypeOK
    <2>2. CASE DeleteModel(h)
      BY <2>2 DEF DeleteModel, TypeOK
    <2>. QED BY <2>1, <2>2 DEF SaveProvider, SaveModel, SetModelRoles, TypeOK, tables
  <1>5. proc' \in [Procs -> Jobs]
    <2>1. PICK j \in Jobs : proc' = [proc EXCEPT ![h] = j]
      <3>1. CASE SaveModel(h)
        <4>1. PICK m \in Models, p \in Provs, enabled \in BOOLEAN,
                   r \in {"general", "default"}, create \in BOOLEAN :
                   Goto(h, [at |-> IF r = "default" THEN "clear" ELSE "write",
                            create |-> create, model |-> m,
                            row |-> [provider |-> p, enabled |-> enabled, role |-> r]])
          BY <3>1 DEF SaveModel
        <4>2. [provider |-> p, enabled |-> enabled, role |-> r] \in Rows
          BY DEF Rows
        <4>3. [at |-> IF r = "default" THEN "clear" ELSE "write",
               create |-> create, model |-> m,
               row |-> [provider |-> p, enabled |-> enabled, role |-> r]] \in Jobs
          BY <4>2 DEF Jobs
        <4>. QED BY <4>1, <4>3 DEF Goto
      <3>2. CASE SetModelRoles(h)
        BY <3>2 DEF SetModelRoles, Goto, Jobs
      <3>. QED BY <3>1, <3>2, JobTypes DEF SaveProvider, DeleteProvider, DeleteModel, Goto
    <2>. QED BY <2>1 DEF TypeOK
  <1>. QED BY <1>2, <1>3, <1>4, <1>5 DEF TypeOK

LEMMA HandleTypes ==
    ASSUME TypeOK, NEW h \in Procs, Handle(h)
    PROVE  TypeOK'
  <1>1. CASE ClearRoles(h)
    <2>1. proc' \in [Procs -> Jobs]
      <3>1. CASE proc[h].at = "clear"
        <4>1. proc[h] \in [at : {"clear", "write"}, create : BOOLEAN, model : Models,
                           row : Rows]
          BY <3>1, JobTypes DEF TypeOK
        <4>2. [proc[h] EXCEPT !.at = "write"] \in Jobs
          BY <4>1 DEF Jobs
        <4>. QED BY <1>1, <3>1, <4>2 DEF ClearRoles, Goto, TypeOK
      <3>2. CASE proc[h].at = "clear_roles"
        <4>1. proc[h] \in [at : {"clear_roles", "set_role"}, model : Models]
          BY <3>2, JobTypes DEF TypeOK
        <4>2. [at |-> "set_role", model |-> proc[h].model] \in Jobs
          BY <4>1 DEF Jobs
        <4>. QED BY <1>1, <3>2, <4>2 DEF ClearRoles, Goto, TypeOK
      <3>. QED BY <1>1, <3>1, <3>2 DEF ClearRoles
    <2>2. model' \in [Models -> Rows \cup {None}]
      BY <1>1 DEF ClearRoles, TypeOK, Rows
    <2>. QED BY <1>1, <2>1, <2>2 DEF ClearRoles, TypeOK, lock, counters, history
  <1>2. CASE SetRole(h)
    <2>1. proc' \in [Procs -> Jobs]
      BY <1>2, JobTypes DEF SetRole, Goto, TypeOK
    <2>2. proc[h].model \in Models
      BY <1>2, JobFields DEF SetRole, TypeOK
    <2>3. model' \in [Models -> Rows \cup {None}]
      <3>. DEFINE m == proc[h].model
      <3>1. CASE model' = model
        BY <3>1 DEF TypeOK
      <3>2. CASE model[m] # None /\ model' = [model EXCEPT ![m].role = "default"]
        <4>1. model[m] \in Rows
          BY <2>2, <3>2 DEF TypeOK
        <4>2. [model[m] EXCEPT !.role = "default"] \in Rows
          BY <4>1 DEF Rows
        <4>. QED BY <2>2, <3>2, <4>2 DEF TypeOK
      <3>. QED BY <1>2, <3>1, <3>2 DEF SetRole
    <2>. QED BY <1>2, <2>1, <2>3 DEF SetRole, TypeOK, lock, counters, history
  <1>3. CASE WriteModel(h)
    <2>1. proc' \in [Procs -> Jobs]
      BY <1>3, JobTypes DEF WriteModel, Goto, TypeOK
    <2>2. proc[h].model \in Models /\ proc[h].row \in Rows
      BY <1>3, JobFields DEF WriteModel, TypeOK
    <2>3. model' \in [Models -> Rows \cup {None}]
      BY <1>3, <2>2 DEF WriteModel, TypeOK
    <2>. QED BY <1>3, <2>1, <2>3 DEF WriteModel, TypeOK, lock, counters, history
  <1>4. CASE Query(h)
    <2>1. EnabledRows \subseteq [model : Models, row : Rows]
      BY DEF EnabledRows, Enabled, TypeOK
    <2>2. proc' \in [Procs -> Jobs]
      BY <1>4, JobTypes DEF Query, Answer, Goto, TypeOK
    <2>. QED BY <1>4, <2>1, <2>2 DEF Query, Answer, TypeOK, tables, lock, counters
  <1>5. CASE Announce(h)
    BY <1>5 DEF Announce, TypeOK, tables, counters, history
  <1>6. CASE UnregisterAll(h)
    <2>1. proc' \in [Procs -> Jobs]
      BY <1>6, JobTypes DEF UnregisterAll, Goto, TypeOK
    <2>2. loads' \in Nat
      BY <1>6 DEF UnregisterAll, TypeOK
    <2>. QED BY <1>6, <2>1, <2>2 DEF UnregisterAll, TypeOK, tables, history
  <1>7. CASE Register(h)
    <2>1. PICK x \in rest[h] :
              /\ registry' = [registry EXCEPT ![NameOf(x.row.provider, x.model)] =
                                  [model |-> x.model, role |-> x.row.role, load |-> loads,
                                   breaker |-> Closed]]
              /\ rest' = [rest EXCEPT ![h] = @ \ {x}]
      BY <1>7 DEF Register
    <2>2. x \in [model : Models, row : Rows]
      BY DEF TypeOK
    <2>3. [model |-> x.model, role |-> x.row.role, load |-> loads,
           breaker |-> Closed] \in Entries
      BY <2>2 DEF Entries, Breakers, Closed, Rows, TypeOK
    <2>4. registry' \in [Names -> Entries \cup {None}]
      BY <2>1, <2>3 DEF TypeOK
    <2>5. rest' \in [Procs -> SUBSET [model : Models, row : Rows]]
      BY <2>1 DEF TypeOK
    <2>. QED BY <1>7, <2>4, <2>5 DEF Register, TypeOK, tables, counters, history
  <1>8. CASE Skip(h)
    <2>1. PICK x \in rest[h] : /\ rest' = [rest EXCEPT ![h] = @ \ {x}]
                               /\ skipped' = skipped \cup {x.model}
      BY <1>8 DEF Skip
    <2>2. x \in [model : Models, row : Rows]
      BY DEF TypeOK
    <2>. QED BY <1>8, <2>1, <2>2 DEF Skip, TypeOK, tables, lock, counters
  <1>9. CASE Loaded(h)
    <2>1. proc' \in [Procs -> Jobs]
      BY <1>9, OverTypes DEF Loaded, Goto, TypeOK
    <2>2. {x.model : x \in rest[h]} \subseteq Models
      BY DEF TypeOK
    <2>3. skipped' \subseteq Models /\ rest' \in [Procs -> SUBSET [model : Models, row : Rows]]
      BY <1>9, <2>2 DEF Loaded, TypeOK
    <2>. QED BY <1>9, <2>1, <2>3 DEF Loaded, TypeOK, tables, lock, counters
  <1>10. CASE QueryFails(h)
    <2>1. proc' \in [Procs -> Jobs]
      BY <1>10, OverTypes DEF QueryFails, Goto, TypeOK
    <2>. QED BY <1>10, <2>1 DEF QueryFails, TypeOK, tables, lock, counters
  <1>. QED BY <1>1, <1>2, <1>3, <1>4, <1>5, <1>6, <1>7, <1>8, <1>9, <1>10 DEF Handle

(***************************************************************************)
(* Clients only touch the breakers of entries.                             *)
(***************************************************************************)
BreakersOnly ==
    /\ registry' \in [Names -> Entries \cup {None}]
    /\ \A n \in Names :
          /\ registry'[n] = None <=> registry[n] = None
          /\ registry[n] # None => registry'[n].model = registry[n].model

LEMMA ProbedBreakers ==
    ASSUME TypeOK, NEW looked \in SUBSET Registered, registry' = Probed(looked)
    PROVE  BreakersOnly
  <1>. SUFFICES ASSUME NEW n \in Names
                PROVE  /\ registry'[n] \in Entries \cup {None}
                       /\ registry'[n] = None <=> registry[n] = None
                       /\ registry[n] # None => registry'[n].model = registry[n].model
    BY DEF BreakersOnly, Probed
  <1>1. CASE n \in looked /\ registry[n].breaker.state = "cooled"
    <2>1. registry[n] \in Entries
      BY <1>1 DEF Registered, TypeOK
    <2>2. registry'[n] = [registry[n] EXCEPT !.breaker.state = "half"]
      BY <1>1 DEF Probed
    <2>3. registry'[n] \in Entries /\ registry'[n].model = registry[n].model
      BY <2>1, <2>2 DEF Entries, Breakers
    <2>. QED BY <2>1, <2>3, Constants
  <1>2. CASE ~(n \in looked /\ registry[n].breaker.state = "cooled")
    BY <1>2 DEF Probed, TypeOK
  <1>. QED BY <1>1, <1>2

LEMMA RecordedBreakers ==
    ASSUME TypeOK, NEW c \in Clients, Recorded(c)
    PROVE  BreakersOnly
  <1>. DEFINE k == call[c].name
  <1>1. CASE registry' = registry
    BY <1>1 DEF BreakersOnly, TypeOK
  <1>2. CASE registry' # registry
    <2>1. registry[k] # None
          /\ registry' = [registry EXCEPT ![k].breaker = Outcome(@, call[c].ok)]
      BY <1>2 DEF Recorded
    <2>2. k \in Names
      BY <1>2, <2>1 DEF TypeOK
    <2>3. registry[k] \in Entries
      BY <2>1, <2>2 DEF TypeOK
    <2>4. Outcome(registry[k].breaker, call[c].ok) \in Breakers
      BY <2>3 DEF Outcome, Closed, Entries, Breakers
    <2>5. registry'[k] = [registry[k] EXCEPT
                              !.breaker = Outcome(registry[k].breaker, call[c].ok)]
      BY <2>1, <2>2 DEF TypeOK
    <2>6. registry'[k] \in Entries /\ registry'[k].model = registry[k].model
      BY <2>3, <2>4, <2>5 DEF Entries
    <2>7. \A n \in Names \ {k} : registry'[n] = registry[n]
      BY <2>1 DEF TypeOK
    <2>8. registry' = [n \in Names |-> registry'[n]]
      BY <2>1 DEF TypeOK
    <2>9. registry' \in [Names -> Entries \cup {None}]
      BY <2>6, <2>7, <2>8 DEF TypeOK
    <2>. QED BY <2>3, <2>6, <2>7, <2>9, Constants DEF BreakersOnly
  <1>. QED BY <1>1, <1>2

LEMMA CooledBreakers ==
    ASSUME TypeOK, Cool
    PROVE  BreakersOnly
  <1>1. PICK n \in Registered :
            registry' = [registry EXCEPT ![n].breaker.state = "cooled"]
    BY DEF Cool
  <1>2. n \in Names /\ registry[n] \in Entries
    BY DEF Registered, TypeOK
  <1>3. registry'[n] = [registry[n] EXCEPT !.breaker.state = "cooled"]
    BY <1>1, <1>2 DEF TypeOK
  <1>4. registry'[n] \in Entries /\ registry'[n].model = registry[n].model
    BY <1>2, <1>3 DEF Entries, Breakers
  <1>5. \A k \in Names \ {n} : registry'[k] = registry[k]
    BY <1>1 DEF TypeOK
  <1>6. registry' = [k \in Names |-> registry'[k]]
    BY <1>1 DEF TypeOK
  <1>7. registry' \in [Names -> Entries \cup {None}]
    BY <1>4, <1>5, <1>6 DEF TypeOK
  <1>. QED BY <1>2, <1>4, <1>5, <1>7, Constants DEF BreakersOnly

\* What a step of a client, or the time, leaves alone.
ClientStep ==
    /\ UNCHANGED <<tables, conn, proc, rest, history>>
    /\ BreakersOnly

LEMMA ClientSteps ==
    ASSUME TypeOK,
           Cool \/ \E c \in Clients : Ask(c) \/ Infer(c) \/ InferSecond(c) \/ Proceed(c)
    PROVE  ClientStep /\ TypeOK'
  <1>1. ASSUME registry' = registry PROVE BreakersOnly
    BY <1>1 DEF BreakersOnly, TypeOK
  <1>2. ASSUME BreakersOnly, UNCHANGED <<tables, conn, proc, rest, history>>, UNCHANGED loads,
               ops' = ops, calls' \in 0 .. MaxCalls, writer' = writer,
               readers' \subseteq Clients, DOMAIN call' = Clients,
               \A c \in Clients : call'[c].at \in Steps
        PROVE  TypeOK'
    BY <1>2 DEF TypeOK, BreakersOnly, tables, history
  <1>3. CASE Cool
    BY <1>2, <1>3, CooledBreakers DEF Cool, ClientStep, TypeOK, lock, counters, history
  <1>4. ASSUME NEW c \in Clients, Ask(c) PROVE ClientStep /\ TypeOK'
    <2>1. UNCHANGED <<tables, conn, proc, rest, registry, writer, readers, ops, loads, history>>
      BY <1>4 DEF Ask, lock, tables, history
    <2>2. calls' \in 0 .. MaxCalls
      BY <1>4, Constants DEF Ask, TypeOK
    <2>3. DOMAIN call' = Clients /\ \A d \in Clients : call'[d].at \in Steps
      BY <1>4 DEF Ask, GotoCall, Steps, TypeOK
    <2>. QED BY <1>1, <1>2, <2>1, <2>2, <2>3 DEF ClientStep, TypeOK
  <1>5. ASSUME NEW c \in Clients, Infer(c) \/ InferSecond(c) \/ Proceed(c)
        PROVE  ClientStep /\ TypeOK'
    <2>1. BreakersOnly
      <3>1. CASE Choose(c)
        BY <3>1, ProbedBreakers DEF Choose
      <3>2. CASE Pick(c)
        BY <3>2, ProbedBreakers DEF Pick
      <3>3. CASE RecordOutcome(c) \/ RecordSecond(c)
        BY <3>3, RecordedBreakers DEF RecordOutcome, RecordSecond
      <3>4. CASE Infer(c) \/ Failover(c) \/ InferSecond(c)
        BY <1>1, <3>4 DEF Infer, Failover, InferSecond
      <3>. QED BY <1>5, <3>1, <3>2, <3>3, <3>4 DEF Proceed
    <2>2. UNCHANGED <<tables, conn, proc, rest, writer, ops, calls, loads, history>>
      BY <1>5 DEF Proceed, Choose, Infer, RecordOutcome, Failover, Pick, InferSecond,
                  RecordSecond, lock, counters, history
    <2>3. readers' \subseteq Clients
      BY <1>5 DEF Proceed, Choose, Infer, RecordOutcome, Failover, Pick, InferSecond,
                  RecordSecond, lock, TypeOK
    <2>4. DOMAIN call' = Clients /\ \A d \in Clients : call'[d].at \in Steps
      <3>1. CASE Choose(c)
        BY <3>1 DEF Choose, GotoCall, Steps, TypeOK
      <3>2. CASE Infer(c)
        BY <3>2 DEF Infer, GotoCall, Steps, TypeOK
      <3>3. CASE RecordOutcome(c)
        BY <3>3 DEF RecordOutcome, GotoCall, Steps, TypeOK
      <3>4. CASE Failover(c)
        BY <3>4 DEF Failover, GotoCall, Steps, TypeOK
      <3>5. CASE Pick(c)
        BY <3>5 DEF Pick, GotoCall, Steps, TypeOK
      <3>6. CASE InferSecond(c)
        BY <3>6 DEF InferSecond, GotoCall, Steps, TypeOK
      <3>7. CASE RecordSecond(c)
        BY <3>7 DEF RecordSecond, GotoCall, Steps, TypeOK
      <3>. QED BY <1>5, <3>1, <3>2, <3>3, <3>4, <3>5, <3>6, <3>7 DEF Proceed
    <2>5. calls' \in 0 .. MaxCalls
      BY <2>2 DEF TypeOK
    <2>. QED BY <1>2, <2>1, <2>2, <2>3, <2>4, <2>5 DEF ClientStep
  <1>. QED BY <1>3, <1>4, <1>5

\* Every variable keeps its type, whatever the tables, the handlers and the clients.
THEOREM TypeCorrect == Spec => []TypeOK
  <1>1. Init => TypeOK
    <2>1. Init => proc \in [Procs -> Jobs]
      <3>. SUFFICES ASSUME Init PROVE proc \in [Procs -> Jobs]
        OBVIOUS
      <3>1. PICK keys \in SUBSET Seeds :
                proc = [h \in Procs |-> IF h = Main THEN [at |-> "seed", keys |-> keys]
                                                    ELSE [at |-> "idle"]]
        BY DEF Init
      <3>2. [at |-> "seed", keys |-> keys] \in Jobs
        BY DEF Jobs
      <3>. QED BY <3>1, <3>2, JobTypes
    <2>2. Init => DOMAIN call = Clients /\ \A c \in Clients : call[c].at \in Steps
      BY DEF Init, Steps
    <2>3. Init => ops \in 0 .. MaxOps /\ calls \in 0 .. MaxCalls /\ loads \in Nat
      BY Constants DEF Init
    <2>4. Init => /\ provider \in [Provs -> {"absent", "off", "on"}]
                  /\ model \in [Models -> Rows \cup {None}]
                  /\ rest \in [Procs -> SUBSET [model : Models, row : Rows]]
                  /\ registry \in [Names -> Entries \cup {None}]
      BY DEF Init
    <2>. QED BY <2>1, <2>2, <2>3, <2>4 DEF Init, TypeOK
  <1>2. TypeOK /\ [Next]_vars => TypeOK'
    <2>. SUFFICES ASSUME TypeOK, [Next]_vars PROVE TypeOK'
      OBVIOUS
    <2>1. CASE UNCHANGED vars
      BY <2>1 DEF TypeOK, vars, tables, lock, counters, history
    <2>2. CASE Next
      BY <2>2, StartTypes, HandleTypes, RequestTypes, ClientSteps DEF Next
    <2>. QED BY <2>1, <2>2
  <1>. QED BY <1>1, <1>2, PTL DEF Spec

(***************************************************************************)
(* The registry and the tables.                                            *)
(***************************************************************************)
\* What is on offer depends on the tables and the history only.
LEMMA SameOffer ==
    ASSUME Enabled' = Enabled, UNCHANGED skipped,
           \A m \in Enabled : model'[m].provider = model[m].provider,
           Registered' = Registered,
           \A n \in Registered : registry'[n].model = registry[n].model
    PROVE  Offered' = Offered /\ (EntriesTrue => EntriesTrue')
  <1>1. Offered' = Offered /\ Offered \subseteq Enabled
    BY DEF Offered
  <1>2. EntriesTrue => EntriesTrue'
    BY <1>1 DEF EntriesTrue
  <1>. QED BY <1>1, <1>2

LEMMA ClientInv ==
    ASSUME TypeOK, Inv, ClientStep
    PROVE  Inv'
  <1>1. Registered' = Registered
        /\ \A n \in Registered : registry'[n].model = registry[n].model
    BY DEF Registered, ClientStep, BreakersOnly
  <1>2. Enabled' = Enabled /\ UNCHANGED <<model, skipped, failed>>
    BY DEF Enabled, ClientStep, tables, history
  <1>3. Offered' = Offered /\ (EntriesTrue => EntriesTrue')
    BY <1>1, <1>2, SameOffer
  <1>4. /\ Complete({}) => Complete({})'
        /\ \A h \in Procs : Complete(RestModels(h)) => Complete(RestModels(h))'
    BY <1>1, <1>2, <1>3 DEF Complete, RestModels, ClientStep
  <1>5. \A h \in Procs : RestIsTrue(h)' = RestIsTrue(h) /\ RestModels(h)' = RestModels(h)
    BY <1>2, <1>3 DEF RestIsTrue, RestModels, ClientStep
  <1>6. OneReload'
    BY DEF Inv, OneReload, Loading, ClientStep
  <1>7. Reading'
    BY <1>1, <1>3, <1>4, <1>5 DEF Inv, Reading, Loading, ClientStep
  <1>8. Current'
    BY <1>2, <1>3, <1>4 DEF Inv, Current, LoadDue, ClientStep
  <1>. QED BY <1>6, <1>7, <1>8 DEF Inv

\* A statement runs when no reload has the connection, and makes one due.
LEMMA StatementInv ==
    ASSUME TypeOK, Inv, NEW h \in Procs, NEW j, conn = None, conn' = None,
           j.at \in {"seed", "query"}, proc' = [proc EXCEPT ![h] = j]
    PROVE  Inv'
  <1>1. \A g \in Procs : ~Loading(g)
    BY Constants DEF Inv, OneReload
  <1>2. proc'[h] = j /\ \A g \in Procs \ {h} : proc'[g] = proc[g]
    BY DEF TypeOK
  <1>3. \A g \in Procs : ~Loading(g)'
    BY <1>1, <1>2 DEF Loading
  <1>4. OneReload' /\ Reading'
    BY <1>3, Constants DEF OneReload, Reading, Loading
  <1>5. LoadDue'
    BY <1>2 DEF LoadDue
  <1>. QED BY <1>4, <1>5 DEF Inv, Current

\* A step of a handler that has not begun, or that ends with nothing changed.
LEMMA HarmlessInv ==
    ASSUME TypeOK, Inv, NEW h \in Procs, UNCHANGED <<conn, rest, registry, history>>,
           Enabled' = Enabled, \A m \in Enabled : model'[m].provider = model[m].provider,
           model' = model \/ conn = None,
           proc[h].at \in {"idle", "clear", "clear_roles", "write"},
           proc'[h].at \in {"idle", "clear", "clear_roles", "write", "set_role"},
           \A g \in Procs \ {h} : proc'[g] = proc[g]
    PROVE  Inv'
  <1>1. \A g \in Procs : Loading(g)' <=> Loading(g)
    BY DEF Loading
  <1>2. OneReload'
    BY <1>1 DEF Inv, OneReload
  <1>3. Registered' = Registered /\ UNCHANGED <<failed, skipped, rest, registry>>
    BY DEF Registered, history
  <1>4. Offered' = Offered /\ (EntriesTrue => EntriesTrue')
    BY <1>3, SameOffer
  <1>5. Complete({}) => Complete({})'
    BY <1>3, <1>4 DEF Complete, Offered
  <1>6. Reading'
    <2>1. CASE conn = None
      <3>1. \A g \in Procs : ~Loading(g)'
        BY <2>1, <1>1, Constants DEF Inv, OneReload
      <3>. QED BY <3>1 DEF Reading, Loading
    <2>2. CASE model' = model
      <3>1. \A g \in Procs : RestIsTrue(g)' = RestIsTrue(g) /\ RestModels(g)' = RestModels(g)
        BY <1>3, <1>4, <2>2 DEF RestIsTrue, RestModels
      <3>2. \A g \in Procs : Complete(RestModels(g)) => Complete(RestModels(g))'
        BY <1>3, <1>4, <2>2, <3>1 DEF Complete, RestModels
      <3>3. \A g \in Procs : \A a \in {"unregister", "register"} :
                proc'[g].at = a <=> proc[g].at = a
        OBVIOUS
      <3>. QED BY <1>1, <1>3, <1>4, <3>1, <3>2, <3>3 DEF Inv, Reading
    <2>. QED BY <2>1, <2>2
  <1>7. LoadDue' <=> LoadDue
    BY DEF LoadDue
  <1>. QED BY <1>2, <1>3, <1>4, <1>5, <1>6, <1>7 DEF Inv, Current

LEMMA RequestInv ==
    ASSUME TypeOK, Inv, NEW h \in Handlers,
           \/ SaveProvider(h) \/ DeleteProvider(h) \/ DeleteModel(h)
           \/ SaveModel(h) \/ SetModelRoles(h)
    PROVE  Inv'
  <1>1. Request(h) /\ h \in Procs
    BY DEF SaveProvider, DeleteProvider, DeleteModel, SaveModel, SetModelRoles, Procs
  <1>2. CASE SaveProvider(h) \/ DeleteProvider(h) \/ DeleteModel(h)
    <2>1. conn = None /\ conn' = None /\ proc' = [proc EXCEPT ![h] = Reload]
      BY <1>1, <1>2 DEF SaveProvider, DeleteProvider, DeleteModel, Request, Goto
    <2>2. Reload.at \in {"seed", "query"}
      BY DEF Reload
    <2>. QED BY <1>1, <2>1, <2>2, StatementInv
  <1>3. CASE SaveModel(h) \/ SetModelRoles(h)
    <2>1. /\ proc'[h].at \in {"clear", "write", "clear_roles"}
          /\ \A g \in Procs \ {h} : proc'[g] = proc[g]
      <3>1. CASE SaveModel(h)
        BY <1>1, <3>1 DEF SaveModel, Goto, TypeOK
      <3>2. CASE SetModelRoles(h)
        BY <1>1, <3>2 DEF SetModelRoles, Goto, TypeOK
      <3>. QED BY <1>3, <3>1, <3>2
    <2>2. UNCHANGED tables /\ UNCHANGED <<conn, rest, registry, history>> /\ proc[h].at = "idle"
      BY <1>1, <1>3 DEF SaveModel, SetModelRoles, Request
    <2>3. Enabled' = Enabled /\ model' = model
      BY <2>2 DEF Enabled, tables
    <2>. QED BY <1>1, <2>1, <2>2, <2>3, HarmlessInv
  <1>. QED BY <1>2, <1>3

LEMMA StartInv ==
    ASSUME TypeOK, Inv, Seed \/ Seeded
    PROVE  Inv'
  <1>1. CASE Seed
    <2>1. PICK keys : Goto(Main, [at |-> "seed", keys |-> keys])
      BY <1>1 DEF Seed
    <2>2. conn = None /\ conn' = None
      BY <1>1 DEF Seed
    <2>3. [at |-> "seed", keys |-> keys].at \in {"seed", "query"}
      OBVIOUS
    <2>. QED BY <2>1, <2>2, <2>3, StatementInv, Constants DEF Goto
  <1>2. CASE Seeded
    <2>1. UNCHANGED <<tables, conn, rest, registry>> /\ proc' = [proc EXCEPT ![Main] = Reload]
          /\ proc[Main].at = "seed"
      BY <1>2 DEF Seeded, Goto
    <2>2. proc'[Main].at = "query" /\ \A g \in Procs \ {Main} : proc'[g] = proc[g]
      BY <2>1, Constants DEF TypeOK, Reload
    <2>3. \A g \in Procs : \A a \in {"unregister", "register"} :
              proc'[g].at = a <=> proc[g].at = a
      BY <2>1, <2>2
    <2>4. \A g \in Procs : Loading(g)' <=> Loading(g)
      BY <2>3 DEF Loading
    <2>5. OneReload'
      BY <2>1, <2>4 DEF Inv, OneReload
    <2>6. Reading'
      <3>1. Enabled' = Enabled /\ Registered' = Registered /\ UNCHANGED <<model, skipped>>
        BY <1>2, <2>1 DEF Enabled, Registered, tables, history, Seeded
      <3>2. Offered' = Offered /\ (EntriesTrue => EntriesTrue')
        BY <2>1, <3>1, SameOffer
      <3>3. \A g \in Procs : RestModels(g)' = RestModels(g) /\ RestIsTrue(g)' = RestIsTrue(g)
        BY <2>1, <3>1, <3>2 DEF RestModels, RestIsTrue
      <3>4. \A g \in Procs : Complete(RestModels(g)) => Complete(RestModels(g))'
        BY <3>1, <3>2, <3>3 DEF Complete
      <3>. QED BY <2>1, <2>3, <2>4, <3>1, <3>2, <3>3, <3>4 DEF Inv, Reading
    <2>7. LoadDue'
      BY <2>2, Constants DEF LoadDue
    <2>. QED BY <2>5, <2>6, <2>7 DEF Inv, Current
  <1>. QED BY <1>1, <1>2

LEMMA QueryInv ==
    ASSUME TypeOK, Inv, NEW h \in Procs, Query(h)
    PROVE  Inv'
  <1>1. conn' = h /\ UNCHANGED <<tables, registry>> /\ rest'[h] = EnabledRows
        /\ skipped' = {}
        /\ proc'[h].at = "unregister" /\ \A g \in Procs \ {h} : proc'[g] = proc[g]
    BY DEF Query, Answer, Goto, TypeOK
  <1>2. \A g \in Procs : ~Loading(g)
    BY Constants DEF Inv, OneReload, Query
  <1>3. OneReload'
    BY <1>1, <1>2 DEF OneReload, Loading
  <1>4. Offered' = Enabled /\ Enabled' = Enabled /\ model' = model
    BY <1>1 DEF Offered, Enabled, tables
  <1>5. RestIsTrue(h)'
    BY <1>1, <1>4 DEF RestIsTrue, EnabledRows
  <1>6. Offered' \subseteq RestModels(h)'
    <2>1. SUFFICES ASSUME NEW m \in Enabled PROVE m \in RestModels(h)'
      BY <1>4
    <2>2. [model |-> m, row |-> model[m]] \in rest'[h]
      BY <1>1 DEF EnabledRows
    <2>. QED BY <2>2 DEF RestModels
  <1>7. Reading'
    BY <1>1, <1>2, <1>5, <1>6 DEF Reading, Loading
  <1>. QED BY <1>1, <1>3, <1>7 DEF Inv, Current, LoadDue

\* No answer: the registry may be behind the tables, and failed says so.
LEMMA QueryFailsInv ==
    ASSUME TypeOK, Inv, NEW h \in Procs, QueryFails(h)
    PROVE  Inv'
  <1>1. \A g \in Procs : ~Loading(g)
    BY Constants DEF Inv, OneReload, QueryFails
  <1>2. conn = None /\ conn' = None /\ failed' = TRUE /\ proc'[h].at \in {"idle", "over"}
        /\ \A g \in Procs \ {h} : proc'[g] = proc[g]
    BY OverTypes DEF QueryFails, Goto, TypeOK
  <1>3. \A g \in Procs : ~Loading(g)'
    BY <1>1, <1>2 DEF Loading
  <1>4. OneReload' /\ Reading'
    BY <1>2, <1>3, Constants DEF OneReload, Reading, Loading
  <1>. QED BY <1>2, <1>4 DEF Inv, Current

LEMMA UnregisterInv ==
    ASSUME TypeOK, Inv, NEW h \in Procs, UnregisterAll(h)
    PROVE  Inv'
  <1>1. UNCHANGED <<tables, conn, rest, history>> /\ registry' = [n \in Names |-> None]
        /\ proc[h].at = "unregister"
        /\ proc'[h].at = "register" /\ \A g \in Procs \ {h} : proc'[g] = proc[g]
    BY DEF UnregisterAll, Goto, TypeOK
  <1>2. Loading(h) /\ conn = h /\ \A g \in Procs \ {h} : ~Loading(g)
    BY <1>1 DEF Inv, OneReload, Loading
  <1>3. OneReload'
    BY <1>1, <1>2 DEF OneReload, Loading
  <1>4. Registered' = {}
    BY <1>1 DEF Registered
  <1>5. RestIsTrue(h) /\ Offered \subseteq RestModels(h)
    BY <1>1, <1>2 DEF Inv, Reading
  <1>6. Offered' = Offered /\ RestIsTrue(h)' /\ RestModels(h)' = RestModels(h)
    BY <1>1, <1>5 DEF RestIsTrue, RestModels, Offered, Enabled, tables, history
  <1>7. Complete(RestModels(h))' /\ EntriesTrue'
    BY <1>4, <1>5, <1>6 DEF Complete, EntriesTrue
  <1>8. Reading'
    BY <1>1, <1>2, <1>4, <1>6, <1>7 DEF Reading, Loading
  <1>. QED BY <1>1, <1>3, <1>8 DEF Inv, Current, LoadDue

LEMMA RegisterInv ==
    ASSUME TypeOK, Inv, NEW h \in Procs, Register(h)
    PROVE  Inv'
  <1>1. PICK x \in rest[h] :
            /\ registry' = [registry EXCEPT ![NameOf(x.row.provider, x.model)] =
                                [model |-> x.model, role |-> x.row.role, load |-> loads,
                                 breaker |-> Closed]]
            /\ rest' = [rest EXCEPT ![h] = @ \ {x}]
    BY DEF Register
  <1>. DEFINE n == NameOf(x.row.provider, x.model)
  <1>2. UNCHANGED <<tables, conn, proc, history>> /\ proc[h].at = "register"
    BY DEF Register
  <1>3. Loading(h) /\ conn = h /\ \A g \in Procs \ {h} : ~Loading(g)
    BY <1>2 DEF Inv, OneReload, Loading
  <1>4. x \in [model : Models, row : Rows] /\ n \in Names
    <2>1. x \in [model : Models, row : Rows]
      BY DEF TypeOK
    <2>2. x.row.provider \in Provs /\ x.model \in Models
      BY <2>1 DEF Rows
    <2>. QED BY <2>1, <2>2, NameType
  <1>5. /\ RestIsTrue(h) /\ EntriesTrue /\ Complete(RestModels(h))
        /\ \A k \in Registered : registry[k].model \notin RestModels(h)
    BY <1>2, <1>3 DEF Inv, Reading
  <1>6. /\ registry'[n] # None /\ registry'[n].model = x.model
        /\ \A k \in Names \ {n} : registry'[k] = registry[k]
    <2>1. registry'[n] = [model |-> x.model, role |-> x.row.role, load |-> loads,
                          breaker |-> Closed]
      BY <1>1, <1>4 DEF TypeOK
    <2>2. registry'[n] \in Entries
      BY <1>4, <2>1 DEF Entries, Breakers, Closed, Rows, TypeOK
    <2>3. \A k \in Names \ {n} : registry'[k] = registry[k]
      BY <1>1 DEF TypeOK
    <2>. QED BY <2>1, <2>2, <2>3, Constants
  <1>7. Registered' = Registered \cup {n}
    BY <1>4, <1>6 DEF Registered
  <1>8. rest'[h] = rest[h] \ {x}
    BY <1>1 DEF TypeOK
  <1>9. Offered' = Offered /\ model' = model
    BY <1>2 DEF Offered, Enabled, tables, history
  <1>10. x.model \in Offered /\ x.row = model[x.model]
    BY <1>5 DEF RestIsTrue
  <1>11. \A y \in rest[h] : y.model = x.model => y = x
    <2>. SUFFICES ASSUME NEW y \in rest[h], y.model = x.model PROVE y = x
      OBVIOUS
    <2>1. y \in [model : Models, row : Rows]
      BY DEF TypeOK
    <2>2. y.row = model[y.model]
      BY <1>5 DEF RestIsTrue
    <2>. QED BY <1>4, <1>10, <2>1, <2>2
  <1>12. RestModels(h)' = RestModels(h) \ {x.model}
    BY <1>8, <1>11 DEF RestModels
  <1>13. RestIsTrue(h)'
    BY <1>5, <1>8, <1>9 DEF RestIsTrue
  <1>14. EntriesTrue'
    BY <1>5, <1>6, <1>7, <1>9, <1>10 DEF EntriesTrue, Registered
  <1>15. Complete(RestModels(h))'
    <2>. SUFFICES ASSUME NEW m \in Offered, m \notin RestModels(h)'
                  PROVE  NameOf(model[m].provider, m) \in Registered'
      BY <1>9 DEF Complete
    <2>1. CASE m = x.model
      BY <2>1, <1>7, <1>10
    <2>2. CASE m # x.model
      BY <2>2, <1>5, <1>7, <1>12 DEF Complete
    <2>. QED BY <2>1, <2>2
  <1>16. \A k \in Registered' : registry'[k].model \notin RestModels(h)'
    BY <1>5, <1>6, <1>7, <1>12 DEF Registered
  <1>17. OneReload'
    BY <1>2 DEF Inv, OneReload, Loading
  <1>18. Reading'
    BY <1>2, <1>3, <1>13, <1>14, <1>15, <1>16 DEF Reading, Loading
  <1>. QED BY <1>2, <1>17, <1>18 DEF Inv, Current, LoadDue

\* A row that is passed over is no longer on offer, nor the rows that are left at the end.
LEMMA DroppedInv ==
    ASSUME TypeOK, Inv, NEW h \in Procs, proc[h].at = "register",
           UNCHANGED <<tables, registry>>,
           NEW dropped \in SUBSET rest[h],
           rest'[h] = rest[h] \ dropped,
           skipped' = skipped \cup {x.model : x \in dropped}
    PROVE  /\ RestIsTrue(h)' /\ EntriesTrue' /\ Complete(RestModels(h))'
           /\ \A n \in Registered' : registry'[n].model \notin RestModels(h)'
           /\ Registered' = Registered
  <1>. DEFINE gone == {x.model : x \in dropped}
  <1>1. /\ RestIsTrue(h) /\ EntriesTrue /\ Complete(RestModels(h))
        /\ \A k \in Registered : registry[k].model \notin RestModels(h)
    BY DEF Inv, Reading, Loading
  <1>2. Offered' = Offered \ gone /\ model' = model /\ Registered' = Registered
    BY DEF Offered, Enabled, Registered, tables
  <1>3. \A x, y \in rest[h] : y.model = x.model => y = x
    <2>. SUFFICES ASSUME NEW x \in rest[h], NEW y \in rest[h], y.model = x.model
                  PROVE  y = x
      OBVIOUS
    <2>1. x \in [model : Models, row : Rows] /\ y \in [model : Models, row : Rows]
      BY DEF TypeOK
    <2>2. x.row = model[x.model] /\ y.row = model[y.model]
      BY <1>1 DEF RestIsTrue
    <2>. QED BY <2>1, <2>2
  <1>4. RestModels(h)' = RestModels(h) \ gone /\ gone \subseteq RestModels(h)
    <2>1. \A y \in rest[h] \ dropped : y.model \notin gone
      BY <1>3
    <2>. QED BY <2>1 DEF RestModels
  <1>5. RestIsTrue(h)'
    <2>1. \A y \in rest[h] \ dropped : y.model \notin gone
      BY <1>3
    <2>. QED BY <1>1, <1>2, <2>1 DEF RestIsTrue
  <1>6. EntriesTrue'
    BY <1>1, <1>2, <1>4 DEF EntriesTrue
  <1>7. Complete(RestModels(h))'
    BY <1>1, <1>2, <1>4 DEF Complete
  <1>. QED BY <1>1, <1>2, <1>4, <1>5, <1>6, <1>7

LEMMA SkipInv ==
    ASSUME TypeOK, Inv, NEW h \in Procs, Skip(h)
    PROVE  Inv'
  <1>1. PICK x \in rest[h] : /\ rest' = [rest EXCEPT ![h] = @ \ {x}]
                             /\ skipped' = skipped \cup {x.model}
    BY DEF Skip
  <1>2. UNCHANGED <<tables, conn, proc, registry>> /\ proc[h].at = "register"
    BY DEF Skip
  <1>3. Loading(h) /\ \A g \in Procs \ {h} : ~Loading(g)
    BY <1>2 DEF Inv, OneReload, Loading
  <1>4. rest'[h] = rest[h] \ {x} /\ {y.model : y \in {x}} = {x.model}
    BY <1>1 DEF TypeOK
  <1>5. /\ RestIsTrue(h)' /\ EntriesTrue' /\ Complete(RestModels(h))'
        /\ \A n \in Registered' : registry'[n].model \notin RestModels(h)'
    <2>1. {x} \in SUBSET rest[h]
      OBVIOUS
    <2>2. skipped' = skipped \cup {y.model : y \in {x}}
      BY <1>1, <1>4
    <2>. QED BY <1>2, <1>4, <2>1, <2>2, DroppedInv
  <1>6. OneReload'
    BY <1>2 DEF Inv, OneReload, Loading
  <1>7. Reading'
    BY <1>2, <1>3, <1>5 DEF Reading, Loading
  <1>. QED BY <1>2, <1>6, <1>7 DEF Inv, Current, LoadDue

LEMMA LoadedInv ==
    ASSUME TypeOK, Inv, NEW h \in Procs, Loaded(h)
    PROVE  Inv'
  <1>1. UNCHANGED <<tables, registry>> /\ conn' = None /\ rest'[h] = {}
        /\ skipped' = skipped \cup {x.model : x \in rest[h]}
        /\ proc[h].at = "register"
        /\ proc'[h].at \in {"idle", "over"} /\ \A g \in Procs \ {h} : proc'[g] = proc[g]
    BY OverTypes DEF Loaded, Goto, TypeOK
  <1>2. Loading(h) /\ conn = h /\ \A g \in Procs \ {h} : ~Loading(g)
    BY <1>1 DEF Inv, OneReload, Loading
  <1>3. \A g \in Procs : ~Loading(g)'
    BY <1>1, <1>2 DEF Loading
  <1>4. OneReload' /\ Reading'
    BY <1>1, <1>3, Constants DEF OneReload, Reading, Loading
  <1>5. EntriesTrue' /\ Complete(RestModels(h))'
    <2>1. rest[h] \in SUBSET rest[h] /\ rest'[h] = rest[h] \ rest[h]
      BY <1>1
    <2>. QED BY <1>1, <2>1, DroppedInv
  <1>6. RestModels(h)' = {}
    BY <1>1 DEF RestModels
  <1>7. Complete({})'
    BY <1>5, <1>6 DEF Complete
  <1>. QED BY <1>4, <1>5, <1>7 DEF Inv, Current

LEMMA HandleInv ==
    ASSUME TypeOK, Inv, NEW h \in Procs, Handle(h)
    PROVE  Inv'
  <1>1. CASE ClearRoles(h)
    <2>1. /\ UNCHANGED <<conn, rest, registry, provider, history>> /\ conn = None
          /\ model' = [m \in Models |-> IF model[m] = None \/ Kept(proc[h], m) THEN model[m]
                                        ELSE [model[m] EXCEPT !.role = "general"]]
      BY <1>1 DEF ClearRoles
    <2>2. \A m \in Models :
              /\ model'[m] = None <=> model[m] = None
              /\ model[m] # None =>
                     /\ model'[m].provider = model[m].provider
                     /\ model'[m].enabled = model[m].enabled
      <3>. SUFFICES ASSUME NEW m \in Models
                    PROVE  /\ model'[m] = None <=> model[m] = None
                           /\ model[m] # None =>
                                  /\ model'[m].provider = model[m].provider
                                  /\ model'[m].enabled = model[m].enabled
        OBVIOUS
      <3>0. CASE model[m] = None \/ Kept(proc[h], m)
        BY <2>1, <3>0
      <3>1. CASE model[m] # None /\ ~Kept(proc[h], m)
        <4>1. model[m] \in Rows /\ model'[m] = [model[m] EXCEPT !.role = "general"]
          BY <2>1, <3>1 DEF TypeOK
        <4>2. model'[m] \in Rows /\ model'[m].provider = model[m].provider
              /\ model'[m].enabled = model[m].enabled
          BY <4>1 DEF Rows
        <4>. QED BY <3>1, <4>2, Constants
      <3>. QED BY <3>0, <3>1
    <2>3. Enabled' = Enabled
      <3>1. provider' = provider
        BY <2>1
      <3>2. \A m \in Models : m \in Enabled' <=> m \in Enabled
        <4>. SUFFICES ASSUME NEW m \in Models
                      PROVE  m \in Enabled' <=> m \in Enabled
          OBVIOUS
        <4>1. CASE model[m] = None
          <5>1. model'[m] = None
            BY <4>1, <2>2
          <5>2. m \notin Enabled
            BY <4>1 DEF Enabled
          <5>3. m \notin Enabled'
            BY <5>1 DEF Enabled
          <5>. QED BY <5>2, <5>3
        <4>2. CASE model[m] # None
          <5>1. /\ model'[m] # None /\ model'[m].provider = model[m].provider
                /\ model'[m].enabled = model[m].enabled
            BY <4>2, <2>2
          <5>2. m \in Enabled <=> /\ model[m].enabled
                                 /\ provider[model[m].provider] = "on"
            BY <4>2 DEF Enabled
          <5>3. m \in Enabled' <=> /\ model'[m].enabled
                                  /\ provider'[model'[m].provider] = "on"
            BY <5>1 DEF Enabled
          <5>. QED BY <5>1, <5>2, <5>3, <3>1
        <4>. QED BY <4>1, <4>2
      <3>. QED BY <3>2 DEF Enabled
    <2>4. \A m \in Enabled : model'[m].provider = model[m].provider
      BY <2>2 DEF Enabled
    <2>5. /\ proc[h].at \in {"clear", "clear_roles"}
          /\ proc'[h].at \in {"write", "set_role"}
          /\ \A g \in Procs \ {h} : proc'[g] = proc[g]
      <3>1. CASE proc[h].at = "clear"
        <4>1. proc[h] \in [at : {"clear", "write"}, create : BOOLEAN, model : Models,
                           row : Rows]
          BY <3>1, JobTypes DEF TypeOK
        <4>2. [proc[h] EXCEPT !.at = "write"].at = "write"
          BY <4>1
        <4>3. proc' = [proc EXCEPT ![h] = [proc[h] EXCEPT !.at = "write"]]
          BY <1>1, <3>1 DEF ClearRoles, Goto
        <4>. QED BY <3>1, <4>2, <4>3 DEF TypeOK
      <3>2. CASE proc[h].at = "clear_roles"
        BY <1>1, <3>2 DEF ClearRoles, Goto, TypeOK
      <3>. QED BY <1>1, <3>1, <3>2 DEF ClearRoles
    <2>. QED BY <2>1, <2>3, <2>4, <2>5, HarmlessInv
  <1>2. CASE SetRole(h)
    <2>1. conn = None /\ conn' = None /\ proc' = [proc EXCEPT ![h] = Reload]
      BY <1>2 DEF SetRole, Goto
    <2>2. Reload.at \in {"seed", "query"}
      BY DEF Reload
    <2>. QED BY <2>1, <2>2, StatementInv
  <1>3. CASE WriteModel(h)
    <2>1. conn = None /\ conn' = None /\ UNCHANGED <<provider, rest, registry, history>>
          /\ proc[h].at = "write"
      BY <1>3 DEF WriteModel
    <2>2. CASE proc' = [proc EXCEPT ![h] = Reload]
      BY <2>1, <2>2, StatementInv DEF Reload
    <2>3. CASE model' = model /\ proc' = [proc EXCEPT ![h] = [at |-> "idle"]]
      <3>1. Enabled' = Enabled
        BY <2>1, <2>3 DEF Enabled
      <3>2. proc'[h].at = "idle" /\ \A g \in Procs \ {h} : proc'[g] = proc[g]
        BY <2>3 DEF TypeOK
      <3>. QED BY <2>1, <2>3, <3>1, <3>2, HarmlessInv
    <2>. QED BY <1>3, <2>2, <2>3 DEF WriteModel, Goto
  <1>4. CASE Announce(h)
    <2>1. ClientStep
      BY <1>4 DEF Announce, ClientStep, BreakersOnly, TypeOK
    <2>. QED BY <2>1, ClientInv
  <1>. QED BY <1>1, <1>2, <1>3, <1>4, QueryInv, QueryFailsInv, UnregisterInv,
           RegisterInv, SkipInv, LoadedInv DEF Handle

\* When no request of the settings page is under way, the registry offers exactly
\* what the tables enable and the last reload could read, unless its query failed, for
\* any number of handlers, clients, requests and failures.
THEOREM RegistryReflectsTables == Spec => []RegistryIsCurrent
  <1>1. Init => Inv
    <2>. SUFFICES ASSUME Init PROVE Inv
      OBVIOUS
    <2>1. proc[Main].at = "seed" /\ \A h \in Procs : proc[h].at \in {"seed", "idle"}
      BY Constants DEF Init
    <2>. QED BY <2>1, Constants DEF Init, Inv, OneReload, Reading, Current, LoadDue, Loading
  <1>2. TypeOK /\ Inv /\ [Next]_vars => Inv'
    <2>. SUFFICES ASSUME TypeOK, Inv, [Next]_vars PROVE Inv'
      OBVIOUS
    <2>1. CASE UNCHANGED vars
      <3>1. ClientStep
        BY <2>1 DEF ClientStep, BreakersOnly, vars, TypeOK
      <3>. QED BY <3>1, ClientInv
    <2>2. CASE Next
      BY <2>2, StartInv, HandleInv, RequestInv, ClientSteps, ClientInv DEF Next
    <2>. QED BY <2>1, <2>2
  <1>3. TypeOK /\ Inv => RegistryIsCurrent
    <2>. SUFFICES ASSUME TypeOK, Inv, AtRest, ~failed
                  PROVE  /\ Registered = {NameOf(model[m].provider, m) : m \in Offered}
                         /\ \A n \in Registered : registry[n].model \in Offered
      BY DEF RegistryIsCurrent, Offered
    <2>1. EntriesTrue /\ Complete({})
      BY DEF Inv, Current, LoadDue, AtRest
    <2>. QED BY <2>1 DEF EntriesTrue, Complete
  <1>. QED BY <1>1, <1>2, <1>3, TypeCorrect, PTL DEF Spec
=============================================================================
