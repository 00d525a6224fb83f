---------------------------- MODULE DatabaseSeed ----------------------------
(***************************************************************************)
(* DatabaseSeedService: every process seeds the providers, models and      *)
(* promotions in one transaction before it serves requests.                *)
(* (src/database/database-seed.service.ts)                                 *)
(*                                                                         *)
(* Processes may be of different releases, with different seeds.  A        *)
(* transaction works on its own copy, which the commit puts in the place   *)
(* of the tables: the lock keeps every other writer out meanwhile.  The    *)
(* indexes and the sequence are left out.                                  *)
(***************************************************************************)
EXTENDS Naturals, FiniteSets

CONSTANTS Processes,
          ProviderIds, ProviderNames,
          ProviderSeed,  \* of a process: a set of <<id, name>>
          ModelSeed,     \* of a process: a set of ids of models
          OldProviders,  \* what the table may hold before
          MaxFailures    \* bound: processes that die

\* No two rows give one name different ids.
OneId(rows) == \A a, b \in rows : a[2] = b[2] => a[1] = b[1]

ASSUME SeedAssumption ==
  /\ \A p \in Processes :
       ProviderSeed[p] \subseteq ProviderIds \X ProviderNames /\ OneId(ProviderSeed[p])
  /\ \A old \in OldProviders :
       old \subseteq ProviderIds \X ProviderNames /\ OneId(old)
  /\ MaxFailures \in Nat

VARIABLES db,        \* the committed tables
          tx,        \* the copies of the transactions
          stage,     \* where each process is in onModuleInit
          failures,
          seeded     \* history: the processes that have committed a seed

seedVars == <<db, tx, stage, failures, seeded>>

Stages == {"down", "locked", "checked", "providers", "serving", "refused"}
Tables == [providers : SUBSET (ProviderIds \X ProviderNames),
           models : SUBSET UNION {ModelSeed[p] : p \in Processes}]

SeedTypeOK ==
  /\ db \in Tables
  /\ tx \in [Processes -> Tables]
  /\ stage \in [Processes -> Stages]
  /\ failures \in 0 .. MaxFailures
  /\ seeded \subseteq Processes

SeedInit ==
  /\ \E old \in OldProviders : db = [providers |-> old, models |-> {}]
  /\ tx = [p \in Processes |-> db]
  /\ stage = [p \in Processes |-> "down"]
  /\ failures = 0
  /\ seeded = {}

InTransaction(p) == stage[p] \in {"locked", "checked", "providers"}

(* Changed form: the tables are not locked. *)
NeverLocked(p) == FALSE

(* SHARE ROW EXCLUSIVE, held until the end of the transaction. *)
Locked(p) == \E q \in Processes \ {p} : InTransaction(q)

LockTables(p) ==
  /\ stage[p] = "down"
  /\ ~Locked(p)
  /\ tx' = [tx EXCEPT ![p] = db]
  /\ stage' = [stage EXCEPT ![p] = "locked"]
  /\ UNCHANGED <<db, failures, seeded>>

(* A seeded name under another id is a conflict. *)
Conflicts(p) ==
  \E new \in ProviderSeed[p], old \in tx[p].providers :
    old[2] = new[2] /\ old[1] # new[1]

CheckProviders(p) ==
  /\ stage[p] = "locked"
  /\ ~Conflicts(p)
  /\ stage' = [stage EXCEPT ![p] = "checked"]
  /\ UNCHANGED <<db, tx, failures, seeded>>

(* The error leaves onModuleInit, and the process does not start. *)
RefuseProviders(p) ==
  /\ stage[p] = "locked"
  /\ Conflicts(p)
  /\ stage' = [stage EXCEPT ![p] = "refused"]
  /\ UNCHANGED <<db, tx, failures, seeded>>

(* INSERT ... ON CONFLICT ("id") DO UPDATE SET "name" *)
Upserted(rows, seed) ==
  {row \in rows : \A new \in seed : new[1] # row[1]} \cup seed

WriteProviders(p) ==
  /\ stage[p] = "checked"
  /\ tx' = [tx EXCEPT ![p].providers = Upserted(@, ProviderSeed[p])]
  /\ stage' = [stage EXCEPT ![p] = "providers"]
  /\ UNCHANGED <<db, failures, seeded>>

(* One model after another, also those that are there; promotions as well. *)
WriteModel(p) ==
  LET Missing == ModelSeed[p] \ tx[p].models IN
  /\ stage[p] = "providers"
  /\ \E m \in Missing :
       tx' = [tx EXCEPT ![p].models = @ \cup {m}]
  /\ UNCHANGED <<db, stage, failures, seeded>>

Commit(p) ==
  /\ stage[p] = "providers"
  /\ ModelSeed[p] \subseteq tx[p].models
  /\ db' = tx[p]
  /\ seeded' = seeded \cup {p}
  /\ stage' = [stage EXCEPT ![p] = "serving"]
  /\ UNCHANGED <<tx, failures>>

(* A process dies, its transaction is rolled back, and it starts again. *)
Restart(p) ==
  /\ stage[p] # "down"
  /\ failures < MaxFailures
  /\ failures' = failures + 1
  /\ stage' = [stage EXCEPT ![p] = "down"]
  /\ UNCHANGED <<db, tx, seeded>>

SeedNext ==
  \E p \in Processes :
    \/ LockTables(p) \/ CheckProviders(p) \/ RefuseProviders(p)
    \/ WriteProviders(p) \/ WriteModel(p) \/ Commit(p) \/ Restart(p)

-----------------------------------------------------------------------------
(* Properties *)

(* A provider has one id, though processes of releases that disagree about *)
(* it start together, so that models go to the provider they are of.       *)
OneIdPerProvider == OneId(db.providers)

(* The tables never show half a seed, neither while a process writes it    *)
(* nor after one that died while writing: they hold all the models of the  *)
(* processes that have committed and no others, the providers of one of    *)
(* them, and no provider that none of them, nor the old table, has.        *)
NeverHalfSeeded ==
  /\ db.models = UNION {ModelSeed[p] : p \in seeded}
  /\ seeded # {} => \E p \in seeded : ProviderSeed[p] \subseteq db.providers
  /\ \A row \in db.providers :
       \/ \E p \in seeded : row \in ProviderSeed[p]
       \/ \E old \in OldProviders : row \in old

(* A process that serves finds all its models; a later seed takes none.    *)
ServesItsModels ==
  \A p \in Processes : stage[p] = "serving" => ModelSeed[p] \subseteq db.models
=============================================================================
