---------------------------- MODULE ConnectorBinding ----------------------------
(***************************************************************************)
(* Source-account bindings (connector_binding.rs, migrations 0070, 0072):  *)
(* which accounts, and which version of a parser profile, imports of a     *)
(* connection may use.  The version of a row counts its updates and starts *)
(* again at 1 when the row is created anew; the generation kept by the     *)
(* triggers of migration 0072 survives deletion and counts every change.   *)
(*                                                                         *)
(* A connection that is removed or disconnected loses its binding by       *)
(* trigger, so a bound connection always exists and connector_exists is    *)
(* not modelled.  An operation the code refuses changes nothing and is not *)
(* a step.                                                                 *)
(***************************************************************************)
EXTENDS Naturals, FiniteSets

CONSTANTS
  Connections,   \* connector kind and connection key
  Accounts,
  NoBinding,     \* the connection has no binding row
  MaxVersion     \* MAX_SAFE_VERSION, the bound on versions and generations

ASSUME MaxVersionAssumption == MaxVersion \in Nat \ {0}

Versions == 1..MaxVersion

\* pin is the bound parser_profile_version, 0 when the binding names no profile.
Binding == [version: Versions, accounts: SUBSET Accounts, pin: Nat]

ASSUME NoBindingAssumption == NoBinding \notin Binding

VARIABLES
  binding,      \* connector_bindings with their connector_binding_accounts
  generation,   \* connector_binding_generations (0: no row)
  active,       \* accounts that are not archived
  profile       \* current version of the (one) parser profile

bindingVars == <<binding, generation, active, profile>>

BindingInit ==
  /\ binding = [k \in Connections |-> NoBinding]
  /\ generation = [k \in Connections |-> 0]
  /\ active = Accounts
  /\ profile = 1

\* Mutant: the generation has no bound.
BumpUnbounded(k) == generation' = [generation EXCEPT ![k] = @ + 1]

\* The triggers of migration 0072; the CHECK on generation aborts the statement
\* at its bound.
BumpGeneration(k) ==
  /\ generation[k] < MaxVersion
  /\ generation' = [generation EXCEPT ![k] = @ + 1]

\* validate_upsert and validate_scope
ValidScope(accounts, pin) ==
  /\ accounts # {}
  /\ accounts \subseteq active
  /\ pin \in {0, profile}

CreateBinding(k, accounts, pin) ==
  /\ binding[k] = NoBinding
  /\ ValidScope(accounts, pin)
  /\ BumpGeneration(k)
  /\ binding' = [binding EXCEPT ![k] = [version |-> 1, accounts |-> accounts, pin |-> pin]]
  /\ UNCHANGED <<active, profile>>

UpdateBinding(k, expected, accounts, pin) ==
  /\ binding[k] # NoBinding
  /\ binding[k].version = expected
  /\ expected < MaxVersion
  /\ ValidScope(accounts, pin)
  /\ BumpGeneration(k)
  /\ binding' = [binding EXCEPT ![k] =
                   [version |-> expected + 1, accounts |-> accounts, pin |-> pin]]
  /\ UNCHANGED <<active, profile>>

\* delete_binding at the expected version; delete_active_binding and the
\* disconnect triggers at whatever version the row has.
DeleteBinding(k) ==
  /\ binding[k] # NoBinding
  /\ BumpGeneration(k)
  /\ binding' = [binding EXCEPT ![k] = NoBinding]
  /\ UNCHANGED <<active, profile>>

\* archive_account refuses an account in use (`inUse`: the accounts that pending
\* candidates and posted transactions refer to) and does not look at bindings.
ArchiveAccount(a, inUse) ==
  /\ a \in active \ inUse
  /\ active' = active \ {a}
  /\ UNCHANGED <<binding, generation, profile>>

\* update_profile of the parser profile; bindings keep the version they name.
EditProfile ==
  /\ profile < MaxVersion
  /\ profile' = profile + 1
  /\ UNCHANGED <<binding, generation, active>>

BindingNext(inUse) ==
  \/ \E k \in Connections, accounts \in SUBSET Accounts, pin \in {0, profile} :
       \/ CreateBinding(k, accounts, pin)
       \/ \E expected \in Versions : UpdateBinding(k, expected, accounts, pin)
  \/ \E k \in Connections : DeleteBinding(k)
  \/ \E a \in Accounts : ArchiveAccount(a, inUse)
  \/ EditProfile

-----------------------------------------------------------------------------
\* review_binding_expectation: what the review screen remembers of the binding.
\* Version 0 stands for "no binding".
Expectation(k) ==
  [version |-> IF binding[k] = NoBinding THEN 0 ELSE binding[k].version,
   generation |-> generation[k]]

\* Mutant: only the version of the row is compared, as before migration 0072.
VersionAccepts(k, expected, used, parsed) ==
  /\ expected.version = 0 <=> binding[k] = NoBinding
  /\ binding[k] # NoBinding =>
       /\ binding[k].version = expected.version
       /\ binding[k].accounts \subseteq active
       /\ used \subseteq binding[k].accounts

\* validate_import_binding_at_review, for a run whose reviewable candidates use
\* the accounts `used` and whose rows were parsed by version `parsed` of the
\* profile (0: by another adapter).
BindingAccepts(k, expected, used, parsed) ==
  /\ generation[k] = expected.generation
  /\ expected.version = 0 <=> binding[k] = NoBinding
  /\ binding[k] # NoBinding =>
       /\ binding[k].version = expected.version
       /\ binding[k].accounts # {}
       /\ binding[k].accounts \subseteq active
       /\ used \subseteq binding[k].accounts
       /\ binding[k].pin # 0 => binding[k].pin = profile /\ binding[k].pin = parsed
=================================================================================
